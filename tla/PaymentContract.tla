--------------------------- MODULE PaymentContract --------------------------
(***************************************************************************)
(* What Strife promises about every payment, without saying how: the money *)
(* is taken once, given once, given only after it was taken, and the       *)
(* sender is told "Payment successful" only after it was given.  Nothing   *)
(* is promised about a payment that is never confirmed: it may stop at any *)
(* point, also between the debit and the credit.                           *)
(***************************************************************************)
EXTENDS Integers

CONSTANT Tx

VARIABLES debits, credits,   \* how often each payment was taken and given
          confirmed          \* the payments whose sender was told "ok"

contractVars == <<debits, credits, confirmed>>

Init == /\ debits = [t \in Tx |-> 0]
        /\ credits = [t \in Tx |-> 0]
        /\ confirmed = {}

Take(t) == /\ debits[t] = 0
           /\ debits' = [debits EXCEPT ![t] = 1]
           /\ UNCHANGED <<credits, confirmed>>

Give(t) == /\ debits[t] = 1
           /\ credits[t] = 0
           /\ credits' = [credits EXCEPT ![t] = 1]
           /\ UNCHANGED <<debits, confirmed>>

Confirm(t) == /\ credits[t] = 1
              /\ confirmed' = confirmed \cup {t}
              /\ UNCHANGED <<debits, credits>>

Next == \E t \in Tx : Take(t) \/ Give(t) \/ Confirm(t)

Spec == Init /\ [][Next]_contractVars
=============================================================================
