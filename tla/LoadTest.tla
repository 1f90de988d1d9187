------------------------------ MODULE LoadTest ------------------------------
(***************************************************************************)
(* Those who use the load balancer: the load test (client_test), which     *)
(* starts goroutines that ask for a server, call it, and send what came of *)
(* it to the main goroutine through a channel; and people at the plain     *)
(* client (client/main.go), who ask and call until they are fed up or      *)
(* something fails.  With the LB server and the backends this is the whole *)
(* system.                                                                 *)
(***************************************************************************)
EXTENDS LoadBalancer

CONSTANTS Tester,       \* the goroutines runClient that may be started
          MaxRequests   \* bound: how many requests each makes

ASSUME LoadTestAssumption == /\ Tester \subseteq Client /\ IsFiniteSet(Client)
                             /\ MaxRequests \in Nat

VARIABLES
  numClients,   \* the testers this run of the test starts
  numRequests,
  main,         \* where the main goroutine is
  wg,           \* the counter of the wait group
  closed,       \* resultChan was closed
  channel,      \* how many metrics of each kind are in resultChan
  metrics,      \* how many of each kind the main goroutine has collected
  client,       \* where each client is; a tester may hold a metric
  left,         \* how many requests each tester has yet to make
  ended         \* history: how many requests of testers ended in which way

testVars == <<numClients, numRequests, main, wg, closed, channel, metrics, client, left, ended>>
vars == <<registryVars, balancerVars, testVars>>

\* Whether the backend answered; or no backend was called.
Success == {"ok", "failed"}
Outcome == Success \cup {"skipped"}

TestTypeOK == /\ numClients \subseteq Tester /\ numRequests \in 0..MaxRequests
              /\ main \in {"launching", "collecting", "finished"}
              /\ wg \in Nat /\ closed \in BOOLEAN
              /\ channel \in [Success -> Nat] /\ metrics \in [Success -> Nat]
              /\ client \in [Client -> {"unborn", "ready", "done"} \cup Success]
              /\ left \in [Client -> 0..MaxRequests]
              /\ ended \in [Outcome -> Nat]

Total(f) == f["ok"] + f["failed"]
OneMore(f, o) == [f EXCEPT ![o] = @ + 1]

TestInit == /\ numClients \in SUBSET Tester /\ numRequests \in 0..MaxRequests
            /\ main = "launching"
            /\ wg = 0
            /\ closed = FALSE
            /\ channel = [o \in Success |-> 0]
            /\ metrics = [o \in Success |-> 0]
            /\ client = [c \in Client |-> IF c \in Tester THEN "unborn" ELSE "ready"]
            /\ left = [c \in Client |-> 0]
            /\ ended = [o \in Outcome |-> 0]

Become(c, l) == client' = [client EXCEPT ![c] = l]
Forget(c)    == request' = [request EXCEPT ![c] = NoRequest]
mainVars     == <<numClients, numRequests, main, closed, metrics>>

-----------------------------------------------------------------------------
\* wg.Add(1) precedes the start of the goroutine.  Faulty variant: it is the first
\* thing the goroutine does, and comes too late.
AddedLate(n) == n
Added(n) == n + 1

Launch(c) ==
  /\ main = "launching"
  /\ c \in numClients /\ client[c] = "unborn"
  /\ wg' = Added(wg)
  /\ Become(c, "ready")
  /\ left' = [left EXCEPT ![c] = numRequests]
  /\ UNCHANGED <<mainVars, channel, ended, registryVars, balancerVars>>

AllLaunched ==
  /\ main = "launching"
  /\ \A c \in numClients : client[c] # "unborn"
  /\ main' = "collecting"
  /\ UNCHANGED <<numClients, numRequests, closed, metrics, wg, channel, client, left, ended,
                 registryVars, balancerVars>>

\* A client asks for the best server.
Ask(c) ==
  /\ client[c] = "ready"
  /\ c \in Tester => left[c] > 0
  /\ GetServers(c) \/ NoBalancer(c)
  /\ UNCHANGED <<testVars, registryVars>>

\* No server: the tester goes on with its next request.
Skip(c) ==
  /\ c \in Tester
  /\ request[c].at = "error"
  /\ Forget(c)
  /\ left' = [left EXCEPT ![c] = @ - 1]
  /\ ended' = OneMore(ended, "skipped")
  /\ UNCHANGED <<mainVars, wg, channel, client, registryVars, policy, rrIndex, round, crossed>>

\* What comes of ProcessRequest at the chosen backend, if it listens.
Processed(s) == IF backend[s] = "serving" THEN "ok" ELSE "failed"

\* The tester calls the backend, and holds the metric.
CallBackend(c) ==
  /\ c \in Tester
  /\ request[c].at = "picked"
  /\ Forget(c)
  /\ Become(c, Processed(request[c].server))
  /\ ended' = OneMore(ended, Processed(request[c].server))
  /\ UNCHANGED <<mainVars, wg, channel, left, registryVars, policy, rrIndex, round, crossed>>

\* resultChan <- metric, which waits while the channel is full.
Capacity == Cardinality(numClients) * numRequests

SendMetric(c) ==
  /\ client[c] \in Success
  /\ Total(channel) < Capacity
  /\ channel' = OneMore(channel, client[c])
  /\ left' = [left EXCEPT ![c] = @ - 1]
  /\ Become(c, "ready")
  /\ UNCHANGED <<mainVars, wg, ended, registryVars, balancerVars>>

\* The deferred wg.Done().  Faulty variant: it is missing where nothing succeeded.
DoneIfAny(n) == IF ended["ok"] > 0 THEN n - 1 ELSE n
Done(n) == n - 1

TesterEnds(c) ==
  /\ c \in Tester
  /\ client[c] = "ready" /\ left[c] = 0
  /\ wg' = Done(wg)
  /\ Become(c, "done")
  /\ UNCHANGED <<mainVars, channel, left, ended, registryVars, balancerVars>>

-----------------------------------------------------------------------------
\* The goroutine that waits for all testers and closes the channel.
CloseChannel ==
  /\ main = "collecting"
  /\ wg = 0 /\ ~closed
  /\ closed' = TRUE
  /\ UNCHANGED <<numClients, numRequests, main, metrics, wg, channel, client, left, ended,
                 registryVars, balancerVars>>

Collect(o) ==
  /\ main = "collecting"
  /\ channel[o] > 0
  /\ channel' = [channel EXCEPT ![o] = @ - 1]
  /\ metrics' = OneMore(metrics, o)
  /\ UNCHANGED <<numClients, numRequests, main, closed, wg, client, left, ended,
                 registryVars, balancerVars>>

\* The range over the channel ends.  Faulty variant: with the first lull.
Lull == Total(channel) = 0
RangeEnds == closed /\ Total(channel) = 0

Summarise ==
  /\ main = "collecting"
  /\ RangeEnds
  /\ main' = "finished"
  /\ UNCHANGED <<numClients, numRequests, closed, metrics, wg, channel, client, left, ended,
                 registryVars, balancerVars>>

-----------------------------------------------------------------------------
\* A person has an answer, and may go on; without one the client exits.
PersonServed(c) ==
  /\ c \notin Tester
  /\ request[c].at = "picked" /\ Processed(request[c].server) = "ok"
  /\ Forget(c)
  /\ UNCHANGED <<testVars, registryVars, policy, rrIndex, round, crossed>>

PersonFails(c) ==
  /\ c \notin Tester
  /\ \/ request[c].at = "error"
     \/ request[c].at = "picked" /\ Processed(request[c].server) = "failed"
  /\ Forget(c)
  /\ Become(c, "done")
  /\ UNCHANGED <<mainVars, wg, channel, left, ended, registryVars, policy, rrIndex, round, crossed>>

PersonQuits(c) ==
  /\ c \notin Tester
  /\ client[c] = "ready" /\ request[c].at = "none"
  /\ Become(c, "done")
  /\ UNCHANGED <<mainVars, wg, channel, left, ended, registryVars, balancerVars>>

-----------------------------------------------------------------------------
\* The LB server dies: it is killed, two handlers were in last_update at the same
\* moment (fatal in Go), or one of them used an index outside its list.
LBDies   == RegistryDown /\ BalancerDown /\ UNCHANGED testVars
Panic(c) == OutOfRange(c) /\ LBDies

LBBack == RegistryBack /\ UNCHANGED <<balancerVars, testVars>>

Backend(s)  == BackendSteps(s) /\ UNCHANGED <<balancerVars, testVars>>
Reports(s)  == (Stamp(s) \/ StoreLoad(s)) /\ UNCHANGED <<balancerVars, testVars>>
Sweeping    == SweepSteps /\ UNCHANGED <<balancerVars, testVars>>
Ticking     == Tick /\ UNCHANGED <<balancerVars, testVars>>
Handling(c) == (Handler(c) /\ UNCHANGED <<registryVars, testVars>>) \/ Panic(c)

Testing(c) == Ask(c) \/ Skip(c) \/ CallBackend(c) \/ SendMetric(c) \/ TesterEnds(c)
MainSteps == \/ \E c \in Tester : Launch(c)
             \/ AllLaunched \/ CloseChannel \/ Summarise
             \/ \E o \in Success : Collect(o)

Init == RegistryInit /\ BalancerInit /\ TestInit

Next == \/ \E s \in Server : Backend(s)
        \/ Sweeping \/ Ticking \/ LBDies \/ LBBack
        \/ \E c \in Client : Handling(c) \/ Testing(c)
                             \/ PersonServed(c) \/ PersonFails(c) \/ PersonQuits(c)
        \/ MainSteps

Spec == Init /\ [][Next]_vars

(***************************************************************************)
(* Goroutines that can run do (Go's scheduler): a backend that lives       *)
(* reports and its reports are handled, printAliveServers goes on, testers *)
(* and the handlers of their requests go on; and time passes.              *)
(* Nothing has to be started again, nothing has to die, and no person has  *)
(* to ask.                                                                 *)
(***************************************************************************)
Fairness ==
  /\ \A s \in Server : WF_vars(Reports(s))
  /\ WF_vars(Sweeping)
  /\ WF_vars(Ticking)
  /\ \A c \in Tester : WF_vars(Handling(c) \/ Testing(c))
  /\ WF_vars(MainSteps)

FairSpec == Spec /\ Fairness

-----------------------------------------------------------------------------
\* All three parts are well typed; in particular wg never gets negative, which
\* would be a panic.
TypeOK == RegistryTypeOK /\ BalancerTypeOK /\ TestTypeOK

(***************************************************************************)
(* The channel is closed when no tester can send any more (a send would be *)
(* a panic), and the summary counts every request: each call of a backend  *)
(* is a metric, with its success, and the rest found no server.            *)
(***************************************************************************)
SummaryIsComplete ==
  /\ closed => \A c \in numClients : client[c] = "done"
  /\ main = "finished" =>
       /\ \A o \in Success : metrics[o] = ended[o]
       /\ Total(metrics) + ended["skipped"] = Capacity

(***************************************************************************)
(* The load test ends, whoever dies meanwhile.                             *)
(***************************************************************************)
LoadTestEnds == main = "launching" ~> main = "finished"

(***************************************************************************)
(* A backend that died after it had reported is removed in the end, and    *)
(* never listed again before it is started again, as long as the LB server *)
(* lives (lb_server/main.go:165-173).  It has to leave a stamp, and no     *)
(* UpdateLoad under way.  The sweep looks at no server without a stamp,    *)
(* and the code does offer a dead backend for ever when it never reported, *)
(* or when its last report was stamped before the sweep erased the stamp   *)
(* (line 170) and stored (line 140) after it removed the key (line 172).   *)
(***************************************************************************)
Dead(s, n) == lbUp /\ backend[s] = "down" /\ starts[s] = n
DeadAreRemoved ==
  \A s \in Server \ Punctual, n \in 1..MaxStarts :
    (Dead(s, n) /\ s \in DOMAIN last_update /\ ~Reporting(s))
      ~> [](Dead(s, n) => s \notin DOMAIN etcd)

(***************************************************************************)
(* A backend that lives is listed again, although a sweep has removed it   *)
(* by mistake (it was slow, it reported between check and removal, or its  *)
(* port still had the stamp of a dead one), or the LB server was restarted *)
(* behind its back.                                                        *)
(***************************************************************************)
LivingAreListed ==
  \A s \in Server : (lbUp /\ Alive(s)) ~> (~lbUp \/ ~Alive(s) \/ s \in DOMAIN etcd)
=============================================================================
