----------------------------- MODULE MCLoadTest -----------------------------
(***************************************************************************)
(* Two backends; two testers and a person.  Everything at once is too much *)
(* for TLC, so that a run starts in one of several situations:             *)
(*   - nobody asks, and the registry starts from nothing: backends and LB  *)
(*     server are started again as often as the bounds allow;              *)
(*   - two testers with a request each, or one with several, while one     *)
(*     backend serves and the other, dead and overdue, is to be removed;   *)
(*   - a person, while the last report of the dead backend, which had been *)
(*     removed, is yet to be stored: the list grows and shrinks.           *)
(***************************************************************************)
EXTENDS LoadTest, TLC

\* Backend 1 is busier than 2.
Loads == 1 :> {1} @@ 2 :> {0}

NoTest == main = "finished" /\ closed = TRUE /\ numClients = {} /\ numRequests = 0

Nobody == /\ NoTest
          /\ policy = "pick_first"
          /\ client = [c \in Client |-> IF c \in Tester THEN "unborn" ELSE "done"]

NotAgain == starts = [s \in Server |-> MaxStarts]

TwoTesters == /\ NotAgain
              /\ numClients = Tester /\ numRequests = 1 /\ policy = "round_robin"
              /\ client = [c \in Client |-> IF c \in Tester THEN "unborn" ELSE "done"]

OneTester == /\ NotAgain
             /\ numClients = {"g1"} /\ numRequests = MaxRequests /\ policy \in Policy
             /\ client = [c \in Client |-> IF c \in Tester THEN "unborn" ELSE "done"]

OnePerson == /\ NotAgain
             /\ NoTest
             /\ policy = "round_robin"
             /\ client = [c \in Client |-> IF c \in Tester THEN "unborn" ELSE "ready"]

TestStarts == main = "launching" /\ closed = FALSE

\* The rest of TestInit.
TestRest ==   /\ wg = 0
              /\ channel = [o \in Success |-> 0]
              /\ metrics = [o \in Success |-> 0]
              /\ left = [c \in Client |-> 0]
              /\ ended = [o \in Outcome |-> 0]

BalancerStarts == /\ rrIndex = 0
                  /\ request = [c \in Client |-> NoRequest]
                  /\ round = NoRound
                  /\ crossed = {}

\* Nothing runs but the LB server; backend 1 is started once, 2 is once more.
RegistryCold == /\ lbUp = TRUE
                /\ lbRuns = 1
                /\ etcd = Empty
                /\ last_update = Empty
                /\ sweep = Asleep
                /\ backend = [s \in Server |-> "down"]
                /\ starts = (1 :> MaxStarts - 1 @@ 2 :> 0)
                /\ report = NoReport

\* Backend 1 has just reported, and 2 died after it had.
RegistryWarm == /\ lbUp = TRUE
                /\ lbRuns = MaxLBRuns
                /\ sweep = Asleep
                /\ backend = 1 :> "serving" @@ 2 :> "down"

TwoIsOverdue == /\ etcd = 1 :> 1 @@ 2 :> 0
                /\ last_update = 1 :> 0 @@ 2 :> MaxAge
                /\ report = NoReport

TwoIsToStore == /\ etcd = 1 :> 1
                /\ last_update = 1 :> 0 @@ 2 :> 0
                /\ report = 1 :> -1 @@ 2 :> 0

SituationInit == /\ BalancerStarts /\ TestRest
                 /\ \/ RegistryCold /\ Nobody
                    \/ RegistryWarm /\ TwoIsOverdue /\ TestStarts /\ (TwoTesters \/ OneTester)
                    \/ RegistryWarm /\ TwoIsToStore /\ OnePerson

SituationSpec     == SituationInit /\ [][Next]_vars
SituationFairSpec == SituationSpec /\ Fairness
=============================================================================
