------------------------------ MODULE Registry ------------------------------
(***************************************************************************)
(* The registry of the load balancer: the backends (server/main.go), which *)
(* register, listen and report their load, and the half of the LB server   *)
(* (lb_server/main.go) that keeps them in etcd and removes the silent.     *)
(*                                                                         *)
(* A handler and the sweep of printAliveServers share last_update and etcd *)
(* without a lock, so that UpdateLoad is two steps, and the sweep makes    *)
(* three to remove a key.  Time is the age of each stamp, counted by Tick. *)
(***************************************************************************)
EXTENDS Integers, FiniteSets, Functions

CONSTANTS Server,        \* backends, each named by the place of its key in etcd's order
          Measured,      \* the loads each backend may measure
          Unresponsive,  \* the age at which a stamp is too old (8 s)
          MaxSweep,      \* bound: how long a sweep may take
          Punctual,      \* backends that do not die by themselves and report in time
          MaxStarts,     \* bound: how often a backend is started
          MaxLBRuns      \* bound: how often the LB server is started

ASSUME RegistryAssumption == /\ Server \subseteq Nat /\ IsFiniteSet(Server)
                             /\ Measured \in [Server -> SUBSET Nat]
                             /\ Unresponsive \in Nat \ {0} /\ MaxSweep \in Nat
                             /\ Punctual \subseteq Server
                             /\ MaxStarts \in Nat /\ MaxLBRuns \in Nat

VARIABLES
  lbUp,         \* the LB server runs
  lbRuns,
  etcd,         \* load by server, for the servers with a key
  last_update,  \* age of the last update, for the servers in this map
  sweep,        \* where printAliveServers is
  backend,      \* where each backend is
  starts,       \* how often it was started
  report        \* what each UpdateLoad that has stamped is about to store

registryVars == <<lbUp, lbRuns, etcd, last_update, sweep, backend, starts, report>>

\* An age beyond this one is never told apart from it.
MaxAge == Unresponsive + MaxSweep

Asleep == [at |-> "asleep", todo |-> {}, elapsed |-> 0]
Sweep  == [at: {"asleep", "check", "erase", "remove"}, todo: SUBSET Server, elapsed: 0..MaxSweep]

Alive(s) == backend[s] \in {"registered", "serving"}
Reporting(s) == report[s] # -1

RegistryTypeOK ==
  /\ lbUp \in BOOLEAN /\ lbRuns \in Nat
  /\ DOMAIN etcd \subseteq Server /\ etcd \in [DOMAIN etcd -> Nat]
  /\ DOMAIN last_update \subseteq Server /\ last_update \in [DOMAIN last_update -> 0..MaxAge]
  /\ sweep \in Sweep
  /\ backend \in [Server -> {"down", "registered", "serving"}]
  /\ starts \in [Server -> Nat]
  /\ \A s \in Server : report[s] \in Measured[s] \cup {-1}

NoReport == [s \in Server |-> -1]
Empty    == [s \in {} |-> 0]

RegistryInit == /\ lbUp = TRUE
                /\ lbRuns = 1
                /\ etcd = Empty
                /\ last_update = Empty
                /\ sweep = Asleep
                /\ backend = [s \in Server |-> "down"]
                /\ starts = [s \in Server |-> 0]
                /\ report = NoReport

With(f, s, v) == [k \in DOMAIN f \cup {s} |-> IF k = s THEN v ELSE f[k]]
Without(f, s) == Restrict(f, DOMAIN f \ {s})
First(S)      == CHOOSE s \in S : \A r \in S : s <= r

-----------------------------------------------------------------------------
\* RegisterServer puts the key with load 0, and leaves last_update as an earlier
\* process on the same port left it.
RegisterServer(s) == etcd' = With(etcd, s, 0)

\* A backend is started, and registers before it listens.
Register(s) ==
  /\ lbUp
  /\ backend[s] = "down"
  /\ starts[s] < MaxStarts
  /\ starts' = [starts EXCEPT ![s] = @ + 1]
  /\ backend' = [backend EXCEPT ![s] = "registered"]
  /\ RegisterServer(s)
  /\ UNCHANGED <<lbUp, lbRuns, last_update, sweep, report>>

Listen(s) ==
  /\ backend[s] = "registered"
  /\ backend' = [backend EXCEPT ![s] = "serving"]
  /\ UNCHANGED <<lbUp, lbRuns, etcd, last_update, sweep, starts, report>>

\* What a backend finds its load to be: 0 where it cannot tell.
getProcessCPUByPort(s) == Measured[s]

\* sendLoadStatus measures a load and calls UpdateLoad, which stamps ...
Stamp(s) ==
  /\ lbUp
  /\ Alive(s)
  /\ ~Reporting(s)
  /\ last_update' = With(last_update, s, 0)
  /\ \E l \in getProcessCPUByPort(s) : report' = [report EXCEPT ![s] = l]
  /\ UNCHANGED <<lbUp, lbRuns, etcd, sweep, backend, starts>>

\* ... and then stores the load, whether or not the key is still there, and
\* whether or not the backend still lives.
\* Faulty variant: only the load of a listed server is stored.
StoredIfListed(s) == IF s \in DOMAIN etcd THEN [etcd EXCEPT ![s] = report[s]] ELSE etcd
Stored(s) == With(etcd, s, report[s])

StoreLoad(s) ==
  /\ lbUp
  /\ Reporting(s)
  /\ etcd' = Stored(s)
  /\ report' = [report EXCEPT ![s] = -1]
  /\ UNCHANGED <<lbUp, lbRuns, last_update, sweep, backend, starts>>

\* A backend that cannot reach the LB server exits (log.Fatalf).
ReportFails(s) ==
  /\ ~lbUp
  /\ Alive(s)
  /\ backend' = [backend EXCEPT ![s] = "down"]
  /\ UNCHANGED <<lbUp, lbRuns, etcd, last_update, sweep, starts, report>>

BackendDies(s) ==
  /\ s \notin Punctual
  /\ Alive(s)
  /\ backend' = [backend EXCEPT ![s] = "down"]
  /\ UNCHANGED <<lbUp, lbRuns, etcd, last_update, sweep, starts, report>>

-----------------------------------------------------------------------------
\* printAliveServers wakes up, reads the keys, and then the clock.
SweepGet ==
  /\ lbUp
  /\ sweep.at = "asleep"
  /\ DOMAIN etcd # {}
  /\ sweep' = [at |-> "check", todo |-> DOMAIN etcd, elapsed |-> 0]
  /\ UNCHANGED <<lbUp, lbRuns, etcd, last_update, backend, starts, report>>

\* curr_time - val, from the age the stamp has by now.
Difference(s) == last_update[s] - sweep.elapsed
Absolute(x)   == IF x < 0 THEN -x ELSE x

\* Faulty variant: every server that has a stamp is taken for overdue.
AnyStamp(s) == s \in DOMAIN last_update
Overdue(s)  == s \in DOMAIN last_update /\ Absolute(Difference(s)) >= Unresponsive

\* The sweep is done with key s.
NextKey(s) == sweep' = IF sweep.todo = {s} THEN Asleep
                       ELSE [sweep EXCEPT !.at = "check", !.todo = @ \ {s}]

\* Look at the stamp of the next key ...
SweepCheck ==
  LET s == First(sweep.todo)
  IN  /\ lbUp
      /\ sweep.at = "check"
      /\ \/ Overdue(s) /\ sweep' = [sweep EXCEPT !.at = "erase"]
         \/ ~Overdue(s) /\ NextKey(s)
      /\ UNCHANGED <<lbUp, lbRuns, etcd, last_update, backend, starts, report>>

\* ... and if it is overdue, take whatever stamp is there by now out of the map ...
SweepErase ==
  /\ lbUp
  /\ sweep.at = "erase"
  /\ last_update' = Without(last_update, First(sweep.todo))
  /\ sweep' = [sweep EXCEPT !.at = "remove"]
  /\ UNCHANGED <<lbUp, lbRuns, etcd, backend, starts, report>>

\* ... and then remove the key, whatever has come in meanwhile.
\* Faulty variant: the key stays.
NothingRemoved(s) == etcd
Removed(s) == Without(etcd, s)

SweepRemove ==
  LET s == First(sweep.todo)
  IN  /\ lbUp
      /\ sweep.at = "remove"
      /\ etcd' = Removed(s)
      /\ NextKey(s)
      /\ UNCHANGED <<lbUp, lbRuns, last_update, backend, starts, report>>

-----------------------------------------------------------------------------
\* Time passes, but not for a punctual backend whose report is due.
Tick ==
  /\ \A s \in Punctual : Alive(s) /\ s \in DOMAIN last_update =>
       last_update[s] + 1 < Unresponsive
  /\ sweep.at # "asleep" => sweep.elapsed < MaxSweep
  /\ last_update' = [s \in DOMAIN last_update |->
                       IF last_update[s] = MaxAge THEN MaxAge ELSE last_update[s] + 1]
  /\ sweep' = IF sweep.at = "asleep" THEN sweep ELSE [sweep EXCEPT !.elapsed = @ + 1]
  /\ <<last_update, sweep>>' # <<last_update, sweep>>
  /\ UNCHANGED <<lbUp, lbRuns, etcd, backend, starts, report>>

\* What the death of the LB server does here: its memory is gone, and a backend
\* that waits for the reply to a report exits.
RegistryDown ==
  /\ lbUp
  /\ lbUp' = FALSE
  /\ last_update' = Empty
  /\ sweep' = Asleep
  /\ backend' = [s \in Server |-> IF Reporting(s) THEN "down" ELSE backend[s]]
  /\ report' = NoReport
  /\ UNCHANGED <<lbRuns, etcd, starts>>

\* initEtcd removes all keys before the LB server serves anything.
RegistryBack ==
  /\ ~lbUp
  /\ lbRuns < MaxLBRuns
  /\ lbUp' = TRUE
  /\ lbRuns' = lbRuns + 1
  /\ etcd' = Empty
  /\ UNCHANGED <<last_update, sweep, backend, starts, report>>

BackendSteps(s) == \/ Register(s) \/ Listen(s) \/ Stamp(s) \/ StoreLoad(s)
                   \/ ReportFails(s) \/ BackendDies(s)
SweepSteps == SweepGet \/ SweepCheck \/ SweepErase \/ SweepRemove

-----------------------------------------------------------------------------
(***************************************************************************)
(* A backend that reports in time, and has reported to this run of the LB  *)
(* server, is listed (unless its very first report is still on its way):   *)
(* no sweep removes it, neither because a stamp moved between reading the  *)
(* clock and looking at the map, nor with what an earlier run left behind. *)
(* A sweep that is itself so slow that stamps look old when they are new   *)
(* (abs) is excluded.                                                      *)
(***************************************************************************)
PunctualIsListed ==
  MaxSweep < Unresponsive => \A s \in Punctual :
    lbUp /\ Alive(s) /\ s \in DOMAIN last_update => s \in DOMAIN etcd \/ Reporting(s)
=============================================================================
