------------------------------ MODULE MCStrife ------------------------------
(***************************************************************************)
(* Small instances of Strife: two banks, two accounts and up to three      *)
(* payments.                                                               *)
(***************************************************************************)
EXTENDS StrifeInvariant, TLC

\* u pays v, v pays u, at their banks.
There == [from |-> "u", fromBank |-> "A", to |-> "v", toBank |-> "B", amount |-> 2]
Back  == [from |-> "v", fromBank |-> "B", to |-> "u", toBank |-> "A", amount |-> 1]
\* Both accounts are at one bank.
Inside == [There EXCEPT !.toBank = "A"]

OnePayment   == "t1" :> There
TwoPayments  == "t1" :> There @@ "t2" :> Back
SameSender   == "t1" :> There @@ "t2" :> There
InsideOneBank == "t1" :> Inside
\* v also pays w, who has no account anywhere.
Astray       == [from |-> "v", fromBank |-> "B", to |-> "w", toBank |-> "A", amount |-> 1]
ThreePayments == TwoPayments @@ "t3" :> Astray

\* Two invocations that carry the same id, or one each.
Resent == "c1" :> "t1" @@ "c2" :> "t1"
Once   == "c1" :> "t1"
Each   == "c1" :> "t1" @@ "c2" :> "t2"
EachOfThree == Each @@ "c3" :> "t3"

Balances  == "u" :> 2 @@ "v" :> 1
Homes     == "u" :> "A" @@ "v" :> "B"
AllHomes  == Homes @@ "w" :> "A"

WarmFairSpec == WarmSpec /\ Fairness
=============================================================================
