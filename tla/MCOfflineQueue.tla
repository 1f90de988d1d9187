--------------------------- MODULE MCOfflineQueue ---------------------------
(* Two users on one machine, u with the payment p1 and v with p2.  Either  *)
(* each has a client that polls with one goroutine, and the file is there; *)
(* or u alone has one, which goes on until it has two of them, there is no *)
(* file to begin with, and v typed a payment there.                        *)
EXTENDS OfflineQueue, TLC

OfEach    == "c1" :> "u" @@ "c2" :> "v"
TwoAndOne == "c1" :> 2 @@ "c2" :> 1
From1And2 == "p1" :> "u" @@ "p2" :> "v"

\* With two clients, the second goroutine of the first is taken to have ended.
EachOrAloneInit ==
  /\ alive \in {Client, {"c1"}}
  /\ exists = (alive = Client)
  /\ file = <<>>
  /\ loggedIn = {}
  /\ goroutine = [c \in Client |-> [i \in Goroutine(c) |->
                    Resting(IF i = Main THEN "menu"
                            ELSE IF alive = Client /\ i = 2 THEN "ended" ELSE "unborn")]]
  /\ gatewayUp = TRUE
  /\ outages = 0
  /\ loggedInAt = {}
  /\ begun = {}
  /\ queued = {}
  /\ direct = {}
  /\ answered = {}
  /\ overwritten = {}
  /\ dropped = {}

EachOrAloneSpec == EachOrAloneInit /\ [][Next]_vars
EachOrAloneFairSpec == EachOrAloneSpec /\ Fairness
=============================================================================
