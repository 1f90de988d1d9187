--------------------------- MODULE LoadTestProofs ---------------------------
(***************************************************************************)
(* Proofs about the load balancer as a whole, with the load test that uses *)
(* it: for any backends, testers and people, any number of requests, and   *)
(* any bound on time and restarts.                                         *)
(***************************************************************************)
EXTENDS LoadTest, LoadBalancerProofs

\* The testers the wait group waits for, those that hold a metric, and the
\* requests of which no metric was sent and that were not skipped.
Working    == {c \in numClients : client[c] \notin {"unborn", "done"}}
Holding(o) == {c \in numClients : client[c] = o}
ToDo == {x \in numClients \X (1..numRequests) : client[x[1]] = "unborn" \/ x[2] <= left[x[1]]}

\* Only a tester that was started and has requests left is at one.
TesterStates ==
  /\ \A c \in Tester \ numClients : client[c] = "unborn"
  /\ \A c \in Client \ Tester : client[c] \in {"ready", "done"}
  /\ \A c \in Tester : request[c].at # "none" => client[c] = "ready" /\ left[c] > 0
  /\ \A c \in numClients : /\ client[c] \in Success => left[c] > 0
                           /\ client[c] = "done" => left[c] = 0
                           /\ left[c] <= numRequests

WaitGroup == wg = Cardinality(Working)

Phases == /\ main # "launching" => \A c \in numClients : client[c] # "unborn"
          /\ closed => main # "launching" /\ \A c \in numClients : client[c] = "done"
          /\ main = "finished" => closed /\ Total(channel) = 0

\* Each call of a backend is a metric somewhere, and each request is somewhere.
MetricsAreCalls(o) == metrics[o] + channel[o] + Cardinality(Holding(o)) = ended[o]
RequestsAdd == Total(metrics) + Total(channel) + ended["skipped"] + Cardinality(ToDo) = Capacity

TestInv == /\ TestTypeOK /\ TesterStates /\ WaitGroup /\ Phases
           /\ \A o \in Success : MetricsAreCalls(o)
           /\ RequestsAdd

LoadTestInv == RegistryInv /\ BalancerInv /\ TestInv

-----------------------------------------------------------------------------
\* How many there are of everything.
LEMMA Numbers ==
  ASSUME TestTypeOK
  PROVE  /\ IsFiniteSet(numClients) /\ Cardinality(numClients) \in Nat /\ numClients \subseteq Client
         /\ IsFiniteSet(Working) /\ Cardinality(Working) \in Nat
         /\ \A o : IsFiniteSet(Holding(o)) /\ Cardinality(Holding(o)) \in Nat
         /\ IsFiniteSet(ToDo) /\ Cardinality(ToDo) \in Nat
         /\ Capacity \in Nat /\ Cardinality(numClients \X (1..numRequests)) = Capacity
<1>1. numClients \subseteq Tester /\ Tester \subseteq Client /\ IsFiniteSet(Client) /\ numRequests \in Nat
  BY LoadTestAssumption DEF TestTypeOK
<1>2. numClients \in SUBSET Client /\ IsFiniteSet(numClients)
  BY <1>1, FS_Subset
<1>3. Working \in SUBSET numClients /\ \A o : Holding(o) \in SUBSET numClients
  BY DEF Working, Holding
<1>4. IsFiniteSet(Working) /\ \A o : IsFiniteSet(Holding(o))
  BY <1>2, <1>3, FS_Subset
<1> DEFINE n == 1..numRequests
           p == numClients \X n
<1>5. IsFiniteSet(n) /\ Cardinality(n) = numRequests
  BY <1>1, FS_Interval
<1>6. Cardinality(numClients) \in Nat
  BY <1>2, FS_CardinalityType
<1> HIDE DEF n
<1>7. IsFiniteSet(p) /\ Cardinality(p) = Cardinality(numClients) * numRequests
  BY <1>2, <1>5, FS_Product
<1>8. ToDo \in SUBSET p
  BY DEF ToDo, n
<1> HIDE DEF p
<1>9. IsFiniteSet(ToDo)
  BY <1>7, <1>8, FS_Subset
<1>10. Cardinality(p) = Capacity /\ Capacity \in Nat
  BY <1>1, <1>6, <1>7 DEF Capacity
<1> QED
  BY <1>1, <1>2, <1>4, <1>6, <1>9, <1>10, FS_CardinalityType DEF p, n

\* What is left to do changes with the testers and their requests only.
LEMMA ToDoSame ==
  ASSUME UNCHANGED <<numClients, numRequests>>,
         \A c \in numClients, k \in 1..numRequests :
           (client[c] = "unborn" \/ k <= left[c]) <=> (client'[c] = "unborn" \/ k <= left'[c])
  PROVE  ToDo' = ToDo
BY DEF ToDo

LEMMA ToDoLess ==
  ASSUME TestTypeOK, UNCHANGED <<numClients, numRequests>>,
         NEW c \in numClients, client[c] # "unborn", left[c] > 0, left[c] <= numRequests,
         left' = [left EXCEPT ![c] = @ - 1],
         \A d \in numClients : client[d] = "unborn" <=> client'[d] = "unborn"
  PROVE  Cardinality(ToDo') = Cardinality(ToDo) - 1
<1> DEFINE x == <<c, left[c]>>
<1>1. left \in [Client -> 0..MaxRequests] /\ c \in Client /\ MaxRequests \in Nat /\ numRequests \in Nat
  BY Numbers, LoadTestAssumption DEF TestTypeOK
<1>2. left[c] \in 1..numRequests
  BY <1>1
<1>3. x \in ToDo
  BY <1>2 DEF ToDo
<1>4. \A k \in 1..numRequests : k <= left[c] - 1 <=> k <= left[c] /\ k # left[c]
  BY <1>1
<1>5. left'[c] = left[c] - 1 /\ \A d \in numClients : d # c => left'[d] = left[d]
  BY <1>1, Numbers
<1>6. \A d \in numClients, k \in 1..numRequests :
        <<d, k>> \in ToDo' <=> <<d, k>> \in ToDo /\ <<d, k>> # x
  <2> TAKE d \in numClients, k \in 1..numRequests
  <2>1. <<d, k>> \in ToDo <=> client[d] = "unborn" \/ k <= left[d]
    BY DEF ToDo
  <2>2. <<d, k>> \in ToDo' <=> client'[d] = "unborn" \/ k <= left'[d]
    BY DEF ToDo
  <2>3. CASE d = c
    BY <1>4, <1>5, <2>1, <2>2, <2>3
  <2>4. CASE d # c
    BY <1>5, <2>1, <2>2, <2>4
  <2> QED
    BY <2>3, <2>4
<1>7. ToDo' = ToDo \ {x}
  BY <1>6 DEF ToDo
<1> HIDE DEF x
<1> QED
  BY <1>3, <1>7, Numbers, FS_RemoveElement

-----------------------------------------------------------------------------
LEMMA TestInitially == Init => TestInv
<1> SUFFICES ASSUME Init PROVE TestInv
  OBVIOUS
<1>0. TestInit /\ \A c \in Client : request[c].at = "none"
  BY DEF Init, BalancerInit, NoRequest
<1>1. TestTypeOK
  <2>1. numClients \subseteq Tester /\ numRequests \in 0..MaxRequests /\ wg \in Nat
    BY <1>0 DEF TestInit
  <2>2. /\ main \in {"launching", "collecting", "finished"} /\ closed \in BOOLEAN
        /\ channel \in [Success -> Nat] /\ metrics \in [Success -> Nat]
    BY <1>0 DEF TestInit
  <2>3. client \in [Client -> {"unborn", "ready", "done"} \cup Success]
    BY <1>0 DEF TestInit
  <2>4. left \in [Client -> 0..MaxRequests] /\ ended \in [Outcome -> Nat]
    BY <1>0, LoadTestAssumption DEF TestInit
  <2> QED
    BY <2>1, <2>2, <2>3, <2>4 DEF TestTypeOK
<1>2. numClients \subseteq Tester /\ Tester \subseteq Client
  BY <1>0, LoadTestAssumption DEF TestInit
<1>3. TesterStates
  BY <1>0, <1>1, <1>2 DEF TestInit, TesterStates, TestTypeOK, Success
<1>4. Working = {} /\ \A o \in Success : Holding(o) = {}
  BY <1>0, <1>2 DEF TestInit, Working, Holding, Success
<1>5. WaitGroup
  BY <1>0, <1>4, FS_EmptySet DEF WaitGroup, TestInit
<1>6. Phases
  BY <1>0 DEF Phases, TestInit
<1>7. \A o \in Success : MetricsAreCalls(o)
  <2> TAKE o \in Success
  <2>1. metrics[o] = 0 /\ channel[o] = 0 /\ ended[o] = 0
    BY <1>0 DEF TestInit, Success, Outcome
  <2>2. Cardinality(Holding(o)) = 0
    BY <1>4, FS_EmptySet
  <2> QED
    BY <2>1, <2>2 DEF MetricsAreCalls
<1>8. ToDo = numClients \X (1..numRequests)
  BY <1>0, <1>2 DEF ToDo, TestInit
<1>9. RequestsAdd
  <2>1. Total(metrics) = 0 /\ Total(channel) = 0 /\ ended["skipped"] = 0
    BY <1>0 DEF TestInit, Total, Success, Outcome
  <2> QED
    BY <1>1, <1>8, <2>1, Numbers DEF RequestsAdd
<1> QED
  BY <1>1, <1>3, <1>5, <1>6, <1>7, <1>9 DEF TestInv

\* The test is where it was, and only requests are under way that may be.
LEMMA TestStays ==
  ASSUME TestInv, UNCHANGED testVars,
         \A c \in Tester : request'[c].at # "none" => client[c] = "ready" /\ left[c] > 0
  PROVE  TestInv'
<1>1. TestTypeOK' /\ TesterStates'
  BY DEF TestInv, TestTypeOK, TesterStates, testVars
<1>2. WaitGroup' /\ Phases'
  BY DEF TestInv, WaitGroup, Working, Phases, Total, testVars
<1>3. \A o \in Success : MetricsAreCalls(o)'
  BY DEF TestInv, MetricsAreCalls, Holding, testVars
<1>4. RequestsAdd'
  BY DEF TestInv, RequestsAdd, ToDo, Total, Capacity, testVars
<1> QED
  BY <1>1, <1>2, <1>3, <1>4 DEF TestInv

-----------------------------------------------------------------------------
(***************************************************************************)
(* The steps of the test, one lemma each.  First, what the change of one   *)
(* tester does to the testers at work and to those that hold a metric.     *)
(***************************************************************************)
LEMMA Becomes ==
  ASSUME TestTypeOK, UNCHANGED numClients, NEW c \in numClients,
         NEW l \in {"unborn", "ready", "done"} \cup Success, Become(c, l)
  PROVE  /\ client' \in [Client -> {"unborn", "ready", "done"} \cup Success]
         /\ client'[c] = l /\ \A d \in Client : d # c => client'[d] = client[d]
         /\ Working' = IF l \in {"unborn", "done"} THEN Working \ {c} ELSE Working \cup {c}
         /\ \A o : Holding(o)' = IF l = o THEN Holding(o) \cup {c} ELSE Holding(o) \ {c}
<1>1. c \in Client /\ numClients \subseteq Client
  BY Numbers
<1>2. client \in [Client -> {"unborn", "ready", "done"} \cup Success]
  BY DEF TestTypeOK
<1>3. /\ client' \in [Client -> {"unborn", "ready", "done"} \cup Success]
      /\ client'[c] = l /\ \A d \in Client : d # c => client'[d] = client[d]
  BY <1>1, <1>2 DEF Become
<1>4. Working' = IF l \in {"unborn", "done"} THEN Working \ {c} ELSE Working \cup {c}
  BY <1>1, <1>3 DEF Working
<1>5. \A o : Holding(o)' = IF l = o THEN Holding(o) \cup {c} ELSE Holding(o) \ {c}
  BY <1>1, <1>3 DEF Holding
<1> QED
  BY <1>3, <1>4, <1>5

\* One more, and one less, of the testers that hold a metric.
LEMMA HoldersCount ==
  ASSUME TestTypeOK, NEW c \in numClients, NEW o
  PROVE  /\ client[c] # o => /\ Cardinality(Holding(o) \cup {c}) = Cardinality(Holding(o)) + 1
                             /\ Holding(o) \ {c} = Holding(o)
         /\ client[c] = o => Cardinality(Holding(o) \ {c}) = Cardinality(Holding(o)) - 1
<1>1. IsFiniteSet(Holding(o))
  BY Numbers
<1>2. c \in Holding(o) <=> client[c] = o
  BY DEF Holding
<1> DEFINE h == Holding(o)
<1> HIDE DEF h
<1>3. c \notin h => Cardinality(h \cup {c}) = Cardinality(h) + 1
  BY <1>1, FS_AddElement DEF h
<1>4. c \in h => Cardinality(h \ {c}) = Cardinality(h) - 1
  BY <1>1, FS_RemoveElement DEF h
<1>5. c \notin h => h \ {c} = h
  OBVIOUS
<1> QED
  BY <1>2, <1>3, <1>4, <1>5 DEF h

LEMMA Counts ==
  ASSUME NEW S, NEW f \in [S -> Nat], NEW o \in S
  PROVE  /\ OneMore(f, o) \in [S -> Nat] /\ OneMore(f, o)[o] = f[o] + 1
         /\ \A p \in S : p # o => OneMore(f, o)[p] = f[p]
BY DEF OneMore

\* All the counters are numbers, and a total is a sum of two of them.
LEMMA Totals ==
  ASSUME TestTypeOK
  PROVE  /\ \A o \in Success : metrics[o] \in Nat /\ channel[o] \in Nat /\ ended[o] \in Nat
         /\ ended["skipped"] \in Nat
         /\ Total(metrics) = metrics["ok"] + metrics["failed"] /\ Total(metrics) \in Nat
         /\ Total(channel) = channel["ok"] + channel["failed"] /\ Total(channel) \in Nat
         /\ \A o \in Success : channel[o] > 0 => Total(channel) > 0
<1>1. \A o \in Success : metrics[o] \in Nat /\ channel[o] \in Nat /\ ended[o] \in Nat
  BY DEF TestTypeOK, Outcome
<1>2. ended["skipped"] \in Nat
  BY DEF TestTypeOK, Outcome
<1>3. /\ Total(metrics) = metrics["ok"] + metrics["failed"]
      /\ Total(channel) = channel["ok"] + channel["failed"]
  BY DEF Total
<1>4. /\ metrics["ok"] \in Nat /\ metrics["failed"] \in Nat
      /\ channel["ok"] \in Nat /\ channel["failed"] \in Nat
  BY <1>1 DEF Success
<1> QED
  BY <1>1, <1>2, <1>3, <1>4 DEF Success

LEMMA LaunchKeeps ==
  ASSUME TestInv, NEW c \in Tester, Launch(c)
  PROVE  TestInv'
<1>0. /\ TestTypeOK /\ TesterStates /\ WaitGroup /\ Phases /\ RequestsAdd
      /\ \A o \in Success : MetricsAreCalls(o)
  BY DEF TestInv
<1>1. /\ main = "launching" /\ c \in numClients /\ client[c] = "unborn"
      /\ wg' = wg + 1 /\ Become(c, "ready") /\ left' = [left EXCEPT ![c] = numRequests]
      /\ UNCHANGED <<numClients, numRequests, main, closed, metrics, channel, ended, request>>
  BY DEF Launch, Added, mainVars, balancerVars
<1>2. numClients \subseteq Client /\ c \in Client /\ left \in [Client -> 0..MaxRequests]
      /\ numRequests \in 0..MaxRequests /\ MaxRequests \in Nat
  BY <1>0, <1>1, Numbers, LoadTestAssumption DEF TestTypeOK
<1>3. /\ client' \in [Client -> {"unborn", "ready", "done"} \cup Success]
      /\ client'[c] = "ready" /\ \A d \in Client : d # c => client'[d] = client[d]
      /\ Working' = Working \cup {c}
      /\ \A o : Holding(o)' = IF "ready" = o THEN Holding(o) \cup {c} ELSE Holding(o) \ {c}
  BY <1>0, <1>1, Becomes
<1>4. /\ left' \in [Client -> 0..MaxRequests] /\ left'[c] = numRequests
      /\ \A d \in Client : d # c => left'[d] = left[d]
  BY <1>1, <1>2
<1>5. TestTypeOK'
  BY <1>0, <1>1, <1>3, <1>4 DEF TestTypeOK
<1>6. request[c].at = "none"
  BY <1>0, <1>1 DEF TesterStates
<1>7. TesterStates'
  <2>1. \A d \in Tester \ numClients : client'[d] = "unborn"
    BY <1>0, <1>1, <1>3, LoadTestAssumption DEF TesterStates
  <2>2. \A d \in Client \ Tester : client'[d] \in {"ready", "done"}
    BY <1>0, <1>3 DEF TesterStates
  <2>3. \A d \in Tester : request[d].at # "none" => client'[d] = "ready" /\ left'[d] > 0
    BY <1>0, <1>3, <1>4, <1>6, LoadTestAssumption DEF TesterStates
  <2>4. \A d \in numClients : /\ client'[d] \in Success => left'[d] > 0
                              /\ client'[d] = "done" => left'[d] = 0
                              /\ left'[d] <= numRequests
    BY <1>0, <1>2, <1>3, <1>4 DEF TesterStates, Success
  <2> QED
    BY <1>1, <2>1, <2>2, <2>3, <2>4 DEF TesterStates
<1>8. WaitGroup'
  <2>1. c \notin Working
    BY <1>1 DEF Working
  <2>2. Cardinality(Working \cup {c}) = Cardinality(Working) + 1
    BY <1>0, <2>1, Numbers, FS_AddElement
  <2> QED
    BY <1>0, <1>1, <1>3, <2>2 DEF WaitGroup
<1>9. Phases'
  BY <1>0, <1>1 DEF Phases
<1>10. \A o \in Success : MetricsAreCalls(o)'
  <2>1. \A o \in Success : Holding(o)' = Holding(o)
    BY <1>0, <1>1, <1>3, HoldersCount DEF Success
  <2> QED
    BY <1>0, <1>1, <2>1 DEF MetricsAreCalls
<1>11. RequestsAdd'
  <2>1. ToDo' = ToDo
    <3>1. \A d \in numClients, k \in 1..numRequests :
            (client[d] = "unborn" \/ k <= left[d]) <=> (client'[d] = "unborn" \/ k <= left'[d])
      BY <1>1, <1>2, <1>3, <1>4
    <3> QED
      BY <1>1, <3>1, ToDoSame
  <2> QED
    BY <1>0, <1>1, <2>1 DEF RequestsAdd, Total, Capacity
<1> QED
  BY <1>5, <1>7, <1>8, <1>9, <1>10, <1>11 DEF TestInv

\* The main goroutine, and the one that closes the channel.  A wait group that is
\* at zero when all testers were started has none at work.
LEMMA MainKeeps ==
  ASSUME TestInv, AllLaunched \/ CloseChannel \/ Summarise
  PROVE  TestInv'
<1>0. /\ TestTypeOK /\ TesterStates /\ WaitGroup /\ Phases /\ RequestsAdd
      /\ \A o \in Success : MetricsAreCalls(o)
  BY DEF TestInv
<1>1. UNCHANGED <<numClients, numRequests, metrics, wg, channel, client, left, ended, request>>
  BY DEF AllLaunched, CloseChannel, Summarise, balancerVars
<1>2. main' \in {"launching", "collecting", "finished"} /\ closed' \in BOOLEAN
  BY <1>0 DEF AllLaunched, CloseChannel, Summarise, TestTypeOK
<1>3. TestTypeOK' /\ TesterStates'
  BY <1>0, <1>1, <1>2 DEF TestTypeOK, TesterStates
<1>4. WaitGroup'
  BY <1>0, <1>1 DEF WaitGroup, Working
<1>5. Phases'
  <2>1. CASE AllLaunched
    BY <1>0, <1>1, <2>1 DEF AllLaunched, Phases
  <2>2. CASE CloseChannel
    <3>1. wg = 0 /\ main = "collecting" /\ closed' = TRUE /\ UNCHANGED main
      BY <2>2 DEF CloseChannel
    <3>2. Working = {}
      BY <1>0, <3>1, Numbers, FS_EmptySet DEF WaitGroup
    <3>3. \A c \in numClients : client[c] = "done"
      BY <1>0, <3>1, <3>2 DEF Working, Phases
    <3> QED
      BY <1>0, <1>1, <3>1, <3>3 DEF Phases
  <2>3. CASE Summarise
    BY <1>0, <1>1, <2>3 DEF Summarise, RangeEnds, Phases, Total
  <2> QED
    BY <2>1, <2>2, <2>3
<1>6. \A o \in Success : MetricsAreCalls(o)'
  BY <1>0, <1>1 DEF MetricsAreCalls, Holding
<1>7. RequestsAdd'
  BY <1>0, <1>1 DEF RequestsAdd, ToDo, Total, Capacity
<1> QED
  BY <1>3, <1>4, <1>5, <1>6, <1>7 DEF TestInv

LEMMA CollectKeeps ==
  ASSUME TestInv, NEW o \in Success, Collect(o)
  PROVE  TestInv'
<1>0. /\ TestTypeOK /\ TesterStates /\ WaitGroup /\ Phases /\ RequestsAdd
      /\ \A p \in Success : MetricsAreCalls(p)
  BY DEF TestInv
<1>1. /\ main = "collecting" /\ channel[o] > 0
      /\ channel' = [channel EXCEPT ![o] = @ - 1] /\ metrics' = OneMore(metrics, o)
      /\ UNCHANGED <<numClients, numRequests, main, closed, wg, client, left, ended, request>>
  BY DEF Collect, balancerVars
<1>2. channel \in [Success -> Nat] /\ metrics \in [Success -> Nat]
  BY <1>0 DEF TestTypeOK
<1>3. channel[o] \in Nat \ {0} /\ channel[o] - 1 \in Nat
  BY <1>1, <1>2
<1>4. /\ channel' \in [Success -> Nat] /\ channel'[o] = channel[o] - 1
      /\ \A p \in Success : p # o => channel'[p] = channel[p]
  BY <1>1, <1>2, <1>3
<1>5. /\ metrics' \in [Success -> Nat] /\ metrics'[o] = metrics[o] + 1
      /\ \A p \in Success : p # o => metrics'[p] = metrics[p]
  BY <1>1, <1>2, Counts
<1>6. TestTypeOK' /\ TesterStates'
  BY <1>0, <1>1, <1>4, <1>5 DEF TestTypeOK, TesterStates
<1>7. WaitGroup' /\ Phases'
  BY <1>0, <1>1 DEF WaitGroup, Working, Phases
<1>8. \A p \in Success : Holding(p)' = Holding(p)
  BY <1>1 DEF Holding
<1>9. \A p \in Success : MetricsAreCalls(p)'
  <2> TAKE p \in Success
  <2>1. metrics'[p] + channel'[p] = metrics[p] + channel[p]
    <3>1. CASE p = o
      BY <1>2, <1>3, <1>4, <1>5, <3>1
    <3>2. CASE p # o
      BY <1>4, <1>5, <3>2
    <3> QED
      BY <3>1, <3>2
  <2>2. metrics[p] + channel[p] + Cardinality(Holding(p)) = ended[p]
    BY <1>0 DEF MetricsAreCalls
  <2> QED
    BY <1>1, <1>8, <2>1, <2>2 DEF MetricsAreCalls
<1>10. RequestsAdd'
  <2>1. ToDo' = ToDo /\ Capacity' = Capacity
    BY <1>1 DEF ToDo, Capacity
  <2>2. /\ Total(metrics)' = metrics'["ok"] + metrics'["failed"]
        /\ Total(channel)' = channel'["ok"] + channel'["failed"]
    BY DEF Total
  <2>3. Total(metrics)' + Total(channel)' = Total(metrics) + Total(channel)
    BY <1>0, <1>4, <1>5, <2>2, Totals DEF Success
  <2> QED
    BY <1>0, <1>1, <2>1, <2>3 DEF RequestsAdd
<1> QED
  BY <1>6, <1>7, <1>9, <1>10 DEF TestInv

\* A tester that is at one of its requests has some left, and will be waited for.
LEMMA SkipKeeps ==
  ASSUME TestInv, request \in [Client -> Request], NEW c \in Client, Skip(c)
  PROVE  TestInv'
<1>0. /\ TestTypeOK /\ TesterStates /\ WaitGroup /\ Phases /\ RequestsAdd
      /\ \A o \in Success : MetricsAreCalls(o)
  BY DEF TestInv
<1>1. /\ c \in Tester /\ request[c].at = "error" /\ request' = [request EXCEPT ![c] = NoRequest]
      /\ left' = [left EXCEPT ![c] = @ - 1] /\ ended' = OneMore(ended, "skipped")
      /\ UNCHANGED <<numClients, numRequests, main, closed, metrics, wg, channel, client>>
  BY DEF Skip, Forget, mainVars
<1>2. client[c] = "ready" /\ left[c] > 0 /\ c \in numClients /\ left[c] <= numRequests
  BY <1>0, <1>1 DEF TesterStates
<1>3. left \in [Client -> 0..MaxRequests] /\ MaxRequests \in Nat /\ ended \in [Outcome -> Nat]
      /\ numRequests \in 0..MaxRequests /\ numClients \subseteq Client /\ Tester \subseteq Client
  BY <1>0, Numbers, LoadTestAssumption DEF TestTypeOK
<1>4. left[c] - 1 \in 0..MaxRequests /\ left[c] - 1 <= numRequests
  BY <1>2, <1>3
<1>5. /\ left' \in [Client -> 0..MaxRequests] /\ left'[c] = left[c] - 1
      /\ \A d \in Client : d # c => left'[d] = left[d]
  BY <1>1, <1>3, <1>4
<1>6. /\ ended' \in [Outcome -> Nat] /\ ended'["skipped"] = ended["skipped"] + 1
      /\ \A o \in Success : ended'[o] = ended[o]
  <2>1. "skipped" \in Outcome /\ \A o \in Success : o \in Outcome /\ o # "skipped"
    BY DEF Outcome, Success
  <2>2. /\ OneMore(ended, "skipped") \in [Outcome -> Nat]
        /\ OneMore(ended, "skipped")["skipped"] = ended["skipped"] + 1
        /\ \A o \in Outcome : o # "skipped" => OneMore(ended, "skipped")[o] = ended[o]
    BY <1>3, <2>1, Counts
  <2> QED
    BY <1>1, <2>1, <2>2
<1>7. request'[c].at = "none" /\ \A d \in Client : d # c => request'[d] = request[d]
  BY <1>1, AnswerTypes
<1>8. TestTypeOK'
  BY <1>0, <1>1, <1>5, <1>6 DEF TestTypeOK
<1>9. TesterStates'
  <2>1. \A d \in Tester : request'[d].at # "none" => client'[d] = "ready" /\ left'[d] > 0
    BY <1>0, <1>1, <1>3, <1>5, <1>7 DEF TesterStates
  <2>2. \A d \in numClients : /\ client'[d] \in Success => left'[d] > 0
                              /\ client'[d] = "done" => left'[d] = 0
                              /\ left'[d] <= numRequests
    BY <1>0, <1>1, <1>2, <1>3, <1>4, <1>5 DEF TesterStates, Success
  <2> QED
    BY <1>0, <1>1, <2>1, <2>2 DEF TesterStates
<1>10. WaitGroup' /\ Phases'
  BY <1>0, <1>1 DEF WaitGroup, Working, Phases, Total
<1>11. \A o \in Success : MetricsAreCalls(o)'
  BY <1>0, <1>1, <1>6 DEF MetricsAreCalls, Holding
<1>12. RequestsAdd'
  <2>1. Cardinality(ToDo') = Cardinality(ToDo) - 1
    BY <1>0, <1>1, <1>2, ToDoLess
  <2>2. /\ Total(metrics)' = Total(metrics) /\ Total(channel)' = Total(channel)
        /\ Capacity' = Capacity
    BY <1>1 DEF Total, Capacity
  <2>3. Cardinality(ToDo) \in Nat /\ Total(metrics) \in Nat /\ Total(channel) \in Nat /\ ended["skipped"] \in Nat
    BY <1>0, Numbers, Totals
  <2> QED
    BY <1>0, <1>6, <2>1, <2>2, <2>3 DEF RequestsAdd
<1> QED
  BY <1>8, <1>9, <1>10, <1>11, <1>12 DEF TestInv

LEMMA CallBackendKeeps ==
  ASSUME TestInv, request \in [Client -> Request], NEW c \in Client, CallBackend(c)
  PROVE  TestInv'
<1> DEFINE o == Processed(request[c].server)
<1>0. /\ TestTypeOK /\ TesterStates /\ WaitGroup /\ Phases /\ RequestsAdd
      /\ \A p \in Success : MetricsAreCalls(p)
  BY DEF TestInv
<1>1. /\ c \in Tester /\ request[c].at = "picked" /\ request' = [request EXCEPT ![c] = NoRequest]
      /\ Become(c, o) /\ ended' = OneMore(ended, o)
      /\ UNCHANGED <<numClients, numRequests, main, closed, metrics, wg, channel, left>>
  BY DEF CallBackend, Forget, mainVars
<1>2. o \in Success
  BY DEF Processed, Success
<1> HIDE DEF o
<1>3. client[c] = "ready" /\ left[c] > 0 /\ c \in numClients
  BY <1>0, <1>1 DEF TesterStates
<1>4. numClients \subseteq Client /\ Tester \subseteq Client
  BY <1>0, Numbers, LoadTestAssumption
<1>5. /\ client' \in [Client -> {"unborn", "ready", "done"} \cup Success]
      /\ client'[c] = o /\ \A d \in Client : d # c => client'[d] = client[d]
      /\ Working' = IF o \in {"unborn", "done"} THEN Working \ {c} ELSE Working \cup {c}
      /\ \A p : Holding(p)' = IF o = p THEN Holding(p) \cup {c} ELSE Holding(p) \ {c}
  BY <1>0, <1>1, <1>2, <1>3, Becomes
<1>6. o \in Outcome /\ o # "skipped" /\ o \notin {"unborn", "done"} /\ \A p \in Success : p \in Outcome
  BY <1>2 DEF Success, Outcome
<1>7. /\ ended' \in [Outcome -> Nat] /\ ended'[o] = ended[o] + 1
      /\ \A p \in Outcome : p # o => ended'[p] = ended[p]
  <2>1. ended \in [Outcome -> Nat]
    BY <1>0 DEF TestTypeOK
  <2> QED
    BY <1>1, <1>6, <2>1, Counts
<1>8. request'[c].at = "none" /\ \A d \in Client : d # c => request'[d] = request[d]
  BY <1>1, AnswerTypes
<1>9. TestTypeOK'
  BY <1>0, <1>1, <1>5, <1>7 DEF TestTypeOK
<1>10. TesterStates'
  <2>1. \A d \in Tester : request'[d].at # "none" => client'[d] = "ready" /\ left'[d] > 0
    BY <1>0, <1>1, <1>4, <1>5, <1>8 DEF TesterStates
  <2>2. \A d \in numClients : /\ client'[d] \in Success => left'[d] > 0
                              /\ client'[d] = "done" => left'[d] = 0
                              /\ left'[d] <= numRequests
    BY <1>0, <1>1, <1>3, <1>4, <1>5, <1>6 DEF TesterStates
  <2>3. \A d \in Tester \ numClients : client'[d] = "unborn"
    BY <1>0, <1>1, <1>3, <1>4, <1>5 DEF TesterStates
  <2>4. \A d \in Client \ Tester : client'[d] \in {"ready", "done"}
    BY <1>0, <1>1, <1>5 DEF TesterStates
  <2> QED
    BY <1>1, <2>1, <2>2, <2>3, <2>4 DEF TesterStates
<1>11. WaitGroup'
  <2>1. c \in Working
    BY <1>3 DEF Working
  <2>2. Working' = Working
    BY <1>5, <1>6, <2>1
  <2> QED
    BY <1>0, <1>1, <2>2 DEF WaitGroup
<1>12. Phases'
  <2>1. ~closed
    BY <1>0, <1>3 DEF Phases
  <2>2. main = "launching" \/ \A d \in numClients : client'[d] # "unborn"
    BY <1>0, <1>4, <1>5, <1>6 DEF Phases
  <2> QED
    BY <1>0, <1>1, <2>1, <2>2 DEF Phases
<1>13. \A p \in Success : MetricsAreCalls(p)'
  <2> TAKE p \in Success
  <2>1. metrics[p] + channel[p] + Cardinality(Holding(p)) = ended[p]
    BY <1>0 DEF MetricsAreCalls
  <2>2. metrics[p] \in Nat /\ channel[p] \in Nat /\ ended[p] \in Nat /\ Cardinality(Holding(p)) \in Nat
    BY <1>0, Totals, Numbers
  <2>3. client[c] # p
    BY <1>3 DEF Success
  <2>4. /\ Cardinality(Holding(p) \cup {c}) = Cardinality(Holding(p)) + 1
        /\ Holding(p) \ {c} = Holding(p)
    BY <1>0, <1>3, <2>3, HoldersCount
  <2>5. Cardinality(Holding(p)') = IF o = p THEN Cardinality(Holding(p)) + 1 ELSE Cardinality(Holding(p))
    BY <1>5, <2>4
  <2>6. ended'[p] = IF o = p THEN ended[p] + 1 ELSE ended[p]
    BY <1>6, <1>7
  <2> QED
    BY <1>1, <2>1, <2>2, <2>5, <2>6 DEF MetricsAreCalls
<1>14. RequestsAdd'
  <2>1. ToDo' = ToDo
    <3>1. \A d \in numClients : client[d] = "unborn" <=> client'[d] = "unborn"
      BY <1>3, <1>4, <1>5, <1>6
    <3> QED
      BY <1>1, <3>1, ToDoSame
  <2>2. ended'["skipped"] = ended["skipped"]
    BY <1>6, <1>7 DEF Outcome
  <2> QED
    BY <1>0, <1>1, <2>1, <2>2 DEF RequestsAdd, Total, Capacity
<1> QED
  BY <1>9, <1>10, <1>11, <1>12, <1>13, <1>14 DEF TestInv

\* A metric changes hands, and one request less is to do.
LEMMA SendMetricKeeps ==
  ASSUME TestInv, NEW c \in Client, SendMetric(c)
  PROVE  TestInv'
<1> DEFINE o == client[c]
<1>0. /\ TestTypeOK /\ TesterStates /\ WaitGroup /\ Phases /\ RequestsAdd
      /\ \A p \in Success : MetricsAreCalls(p)
  BY DEF TestInv
<1>1. /\ o \in Success /\ channel' = OneMore(channel, o)
      /\ left' = [left EXCEPT ![c] = @ - 1] /\ Become(c, "ready")
      /\ UNCHANGED <<numClients, numRequests, main, closed, metrics, wg, ended, request>>
  BY DEF SendMetric, mainVars, balancerVars
<1>2. c \in numClients /\ left[c] > 0 /\ left[c] <= numRequests /\ request[c].at = "none"
  <2>1. c \in numClients
    BY <1>0, <1>1 DEF TesterStates, Success
  <2>2. c \in Tester
    BY <1>0, <2>1 DEF TestTypeOK
  <2> QED
    BY <1>0, <1>1, <2>1, <2>2 DEF TesterStates, Success
<1>3. /\ left \in [Client -> 0..MaxRequests] /\ MaxRequests \in Nat /\ channel \in [Success -> Nat]
      /\ numRequests \in 0..MaxRequests /\ numClients \subseteq Client /\ Tester \subseteq Client
  BY <1>0, Numbers, LoadTestAssumption DEF TestTypeOK
<1>4. left[c] - 1 \in 0..MaxRequests /\ left[c] - 1 <= numRequests
  BY <1>2, <1>3
<1>5. /\ left' \in [Client -> 0..MaxRequests] /\ left'[c] = left[c] - 1
      /\ \A d \in Client : d # c => left'[d] = left[d]
  BY <1>1, <1>3, <1>4
<1>6. /\ client' \in [Client -> {"unborn", "ready", "done"} \cup Success]
      /\ client'[c] = "ready" /\ \A d \in Client : d # c => client'[d] = client[d]
      /\ Working' = Working \cup {c}
      /\ \A p : Holding(p)' = IF "ready" = p THEN Holding(p) \cup {c} ELSE Holding(p) \ {c}
  BY <1>0, <1>1, <1>2, Becomes
<1>7. /\ channel' \in [Success -> Nat] /\ channel'[o] = channel[o] + 1
      /\ \A p \in Success : p # o => channel'[p] = channel[p]
  BY <1>1, <1>3, Counts
<1>8. TestTypeOK'
  BY <1>0, <1>1, <1>5, <1>6, <1>7 DEF TestTypeOK
<1>9. TesterStates'
  <2>1. \A d \in Tester : request'[d].at # "none" => client'[d] = "ready" /\ left'[d] > 0
    BY <1>0, <1>1, <1>2, <1>3, <1>5, <1>6 DEF TesterStates
  <2>2. \A d \in numClients : /\ client'[d] \in Success => left'[d] > 0
                              /\ client'[d] = "done" => left'[d] = 0
                              /\ left'[d] <= numRequests
    BY <1>0, <1>1, <1>3, <1>4, <1>5, <1>6 DEF TesterStates, Success
  <2>3. \A d \in Tester \ numClients : client'[d] = "unborn"
    BY <1>0, <1>1, <1>2, <1>3, <1>6 DEF TesterStates
  <2>4. \A d \in Client \ Tester : client'[d] \in {"ready", "done"}
    BY <1>0, <1>6 DEF TesterStates
  <2> QED
    BY <1>1, <2>1, <2>2, <2>3, <2>4 DEF TesterStates
<1>10. WaitGroup'
  <2>1. c \in Working
    BY <1>1, <1>2 DEF Working, Success
  <2>2. Working' = Working
    BY <1>6, <2>1
  <2> QED
    BY <1>0, <1>1, <2>2 DEF WaitGroup
<1>11. Phases'
  <2>1. ~closed
    BY <1>0, <1>1, <1>2 DEF Phases, Success
  <2>2. main = "launching" \/ \A d \in numClients : client'[d] # "unborn"
    BY <1>0, <1>3, <1>6 DEF Phases
  <2> QED
    BY <1>0, <1>1, <2>1, <2>2 DEF Phases
<1>12. \A p \in Success : MetricsAreCalls(p)'
  <2> TAKE p \in Success
  <2>1. metrics[p] + channel[p] + Cardinality(Holding(p)) = ended[p]
    BY <1>0 DEF MetricsAreCalls
  <2>2. metrics[p] \in Nat /\ channel[p] \in Nat /\ ended[p] \in Nat /\ Cardinality(Holding(p)) \in Nat
    BY <1>0, Totals, Numbers
  <2>3. Holding(p)' = Holding(p) \ {c}
    BY <1>6 DEF Success
  <2>4. /\ client[c] # p => Holding(p) \ {c} = Holding(p)
        /\ client[c] = p => Cardinality(Holding(p) \ {c}) = Cardinality(Holding(p)) - 1
    BY <1>0, <1>2, HoldersCount
  <2>5. CASE p = o
    BY <1>1, <1>7, <2>1, <2>2, <2>3, <2>4, <2>5 DEF MetricsAreCalls
  <2>6. CASE p # o
    BY <1>1, <1>7, <2>1, <2>3, <2>4, <2>6 DEF MetricsAreCalls
  <2> QED
    BY <2>5, <2>6
<1>13. RequestsAdd'
  <2>1. Cardinality(ToDo') = Cardinality(ToDo) - 1
    <3>1. \A d \in numClients : client[d] = "unborn" <=> client'[d] = "unborn"
      BY <1>1, <1>3, <1>6 DEF Success
    <3> QED
      BY <1>0, <1>1, <1>2, <3>1, ToDoLess DEF Success
  <2>2. Total(metrics)' = Total(metrics) /\ Capacity' = Capacity
    BY <1>1 DEF Total, Capacity
  <2>3. Total(channel)' = Total(channel) + 1
    <3>1. Total(channel)' = channel'["ok"] + channel'["failed"]
      BY DEF Total
    <3> QED
      BY <1>0, <1>1, <1>3, <1>7, <3>1, Totals DEF Success
  <2>4. /\ Cardinality(ToDo) \in Nat /\ Total(metrics) \in Nat /\ Total(channel) \in Nat
        /\ ended["skipped"] \in Nat
    BY <1>0, Numbers, Totals
  <2> QED
    BY <1>0, <1>1, <2>1, <2>2, <2>3, <2>4 DEF RequestsAdd
<1> QED
  BY <1>8, <1>9, <1>10, <1>11, <1>12, <1>13 DEF TestInv

\* The wait group counts down with a tester that was at work.
LEMMA TesterEndsKeeps ==
  ASSUME TestInv, NEW c \in Client, TesterEnds(c)
  PROVE  TestInv'
<1>0. /\ TestTypeOK /\ TesterStates /\ WaitGroup /\ Phases /\ RequestsAdd
      /\ \A p \in Success : MetricsAreCalls(p)
  BY DEF TestInv
<1>1. /\ c \in Tester /\ client[c] = "ready" /\ left[c] = 0 /\ wg' = wg - 1 /\ Become(c, "done")
      /\ UNCHANGED <<numClients, numRequests, main, closed, metrics, channel, left, ended, request>>
  BY DEF TesterEnds, Done, mainVars, balancerVars
<1>2. c \in numClients /\ request[c].at = "none"
  BY <1>0, <1>1 DEF TesterStates
<1>3. numClients \subseteq Client /\ Tester \subseteq Client
  BY <1>0, Numbers, LoadTestAssumption
<1>4. /\ client' \in [Client -> {"unborn", "ready", "done"} \cup Success]
      /\ client'[c] = "done" /\ \A d \in Client : d # c => client'[d] = client[d]
      /\ Working' = Working \ {c}
      /\ \A p : Holding(p)' = IF "done" = p THEN Holding(p) \cup {c} ELSE Holding(p) \ {c}
  BY <1>0, <1>1, <1>2, Becomes
<1>5. WaitGroup' /\ wg' \in Nat
  <2>1. c \in Working /\ IsFiniteSet(Working) /\ Cardinality(Working) \in Nat
    BY <1>0, <1>1, <1>2, Numbers DEF Working
  <2>2. Cardinality(Working \ {c}) = Cardinality(Working) - 1
    BY <2>1, FS_RemoveElement
  <2>3. IsFiniteSet(Working \ {c})
    BY <2>1, FS_RemoveElement
  <2>4. Cardinality(Working \ {c}) \in Nat
    BY <2>3, FS_CardinalityType
  <2> QED
    BY <1>0, <1>1, <1>4, <2>2, <2>4 DEF WaitGroup
<1>6. TestTypeOK'
  BY <1>0, <1>1, <1>4, <1>5 DEF TestTypeOK
<1>7. TesterStates'
  <2>1. \A d \in Tester : request'[d].at # "none" => client'[d] = "ready" /\ left'[d] > 0
    BY <1>0, <1>1, <1>2, <1>3, <1>4 DEF TesterStates
  <2>2. \A d \in numClients : /\ client'[d] \in Success => left'[d] > 0
                              /\ client'[d] = "done" => left'[d] = 0
                              /\ left'[d] <= numRequests
    BY <1>0, <1>1, <1>3, <1>4 DEF TesterStates, Success
  <2>3. \A d \in Tester \ numClients : client'[d] = "unborn"
    BY <1>0, <1>1, <1>2, <1>3, <1>4 DEF TesterStates
  <2>4. \A d \in Client \ Tester : client'[d] \in {"ready", "done"}
    BY <1>0, <1>4 DEF TesterStates
  <2> QED
    BY <1>1, <2>1, <2>2, <2>3, <2>4 DEF TesterStates
<1>8. Phases'
  <2>1. ~closed
    BY <1>0, <1>1, <1>2 DEF Phases
  <2>2. main = "launching" \/ \A d \in numClients : client'[d] # "unborn"
    BY <1>0, <1>3, <1>4 DEF Phases
  <2> QED
    BY <1>0, <1>1, <2>1, <2>2 DEF Phases
<1>9. \A p \in Success : MetricsAreCalls(p)'
  <2>1. \A p \in Success : Holding(p)' = Holding(p)
    BY <1>0, <1>1, <1>2, <1>4, HoldersCount DEF Success
  <2> QED
    BY <1>0, <1>1, <2>1 DEF MetricsAreCalls
<1>10. RequestsAdd'
  <2>1. ToDo' = ToDo
    <3>1. \A d \in numClients : client[d] = "unborn" <=> client'[d] = "unborn"
      BY <1>1, <1>3, <1>4
    <3> QED
      BY <1>1, <3>1, ToDoSame
  <2> QED
    BY <1>0, <1>1, <2>1 DEF RequestsAdd, Total, Capacity
<1> QED
  BY <1>5, <1>6, <1>7, <1>8, <1>9, <1>10 DEF TestInv

\* What people do leaves the test alone.
LEMMA PersonKeeps ==
  ASSUME TestInv, request \in [Client -> Request], NEW c \in Client,
         PersonServed(c) \/ PersonFails(c) \/ PersonQuits(c)
  PROVE  TestInv'
<1>0. /\ TestTypeOK /\ TesterStates /\ WaitGroup /\ Phases /\ RequestsAdd
      /\ \A p \in Success : MetricsAreCalls(p)
  BY DEF TestInv
<1>1. c \notin Tester /\ Tester \subseteq Client /\ numClients \subseteq Tester
  BY <1>0, LoadTestAssumption DEF PersonServed, PersonFails, PersonQuits, TestTypeOK
<1>2. \A d \in Tester : request'[d] = request[d]
  BY <1>1 DEF PersonServed, PersonFails, PersonQuits, Forget, balancerVars
<1>3. UNCHANGED client \/ Become(c, "done")
  BY DEF PersonServed, PersonFails, PersonQuits, testVars
<1>4. UNCHANGED <<mainVars, wg, channel, left, ended>>
  BY DEF PersonServed, PersonFails, PersonQuits, testVars, mainVars
<1>5. client \in [Client -> {"unborn", "ready", "done"} \cup Success]
  BY <1>0 DEF TestTypeOK
<1>6. /\ client' \in [Client -> {"unborn", "ready", "done"} \cup Success]
      /\ \A d \in Tester : client'[d] = client[d]
      /\ \A d \in Client \ Tester : client'[d] = client[d] \/ client'[d] = "done"
  BY <1>1, <1>3, <1>5 DEF Become
<1>7. TestTypeOK'
  BY <1>0, <1>4, <1>6 DEF TestTypeOK, mainVars
<1>8. TesterStates'
  <2>1. \A d \in Client \ Tester : client'[d] \in {"ready", "done"}
    BY <1>0, <1>6 DEF TesterStates
  <2> QED
    BY <1>0, <1>1, <1>2, <1>4, <1>6, <2>1 DEF TesterStates, mainVars
<1>9. \A d \in numClients : client'[d] = client[d]
  BY <1>1, <1>6
<1>10. Working' = Working /\ ToDo' = ToDo /\ \A o : Holding(o)' = Holding(o)
  BY <1>4, <1>9 DEF Working, ToDo, Holding, mainVars
<1>11. WaitGroup' /\ Phases' /\ RequestsAdd' /\ \A p \in Success : MetricsAreCalls(p)'
  BY <1>0, <1>4, <1>9, <1>10 DEF WaitGroup, Phases, RequestsAdd, MetricsAreCalls, Total, Capacity, mainVars
<1> QED
  BY <1>7, <1>8, <1>11 DEF TestInv

-----------------------------------------------------------------------------
(***************************************************************************)
(* The whole system.  A handler touches the requests that are under way,   *)
(* the LB server that dies turns some of them into errors.                 *)
(***************************************************************************)
LEMMA DeathKeeps ==
  ASSUME LoadTestInv, LBDies
  PROVE  LoadTestInv'
<1>0. RegistryInv /\ BalancerInv /\ TestInv /\ request \in [Client -> Request]
      /\ Tester \subseteq Client
  BY LoadTestAssumption DEF LoadTestInv, BalancerInv, BalancerTypeOK
<1>1. RegistryInv' /\ BalancerInv'
  BY <1>0, RegistryDownKeeps, BalancerDownKeeps DEF LBDies
<1>2. \A c \in Client : request'[c] = request[c] \/ request[c].at # "none"
  BY <1>0 DEF LBDies, BalancerDown
<1>3. \A c \in Tester : request'[c].at # "none" => client[c] = "ready" /\ left[c] > 0
  BY <1>0, <1>2 DEF TestInv, TesterStates
<1>4. TestInv'
  BY <1>0, <1>3, TestStays DEF LBDies
<1> QED
  BY <1>1, <1>4 DEF LoadTestInv

LEMMA HandlingKeeps ==
  ASSUME LoadTestInv, NEW c \in Client, Handling(c)
  PROVE  LoadTestInv'
<1>0. RegistryInv /\ BalancerInv /\ TestInv /\ request \in [Client -> Request]
      /\ Tester \subseteq Client
  BY LoadTestAssumption DEF LoadTestInv, BalancerInv, BalancerTypeOK
<1>1. CASE Handler(c) /\ UNCHANGED <<registryVars, testVars>>
  <2>1. RegistryInv'
    BY <1>0, <1>1, RegistryStays
  <2>2. BalancerInv'
    BY <1>0, <1>1, LoadIndexKeeps, StoreIndexKeeps, UseIndexKeeps DEF Handler
  <2>3. request[c].at # "none" /\ \A d \in Client : d # c => request'[d] = request[d]
    BY <1>0, <1>1 DEF Handler, LoadIndex, StoreIndex, UseIndex, Answered
  <2>4. \A d \in Tester : request'[d].at # "none" => client[d] = "ready" /\ left[d] > 0
    BY <1>0, <2>3 DEF TestInv, TesterStates
  <2>5. TestInv'
    BY <1>0, <1>1, <2>4, TestStays
  <2> QED
    BY <2>1, <2>2, <2>5 DEF LoadTestInv
<1>2. CASE Panic(c)
  BY <1>2, DeathKeeps DEF Panic
<1> QED
  BY <1>1, <1>2 DEF Handling

\* A client asks, or is done with a request.
LEMMA AskKeeps ==
  ASSUME LoadTestInv, NEW c \in Client, Ask(c)
  PROVE  LoadTestInv'
<1>0. RegistryInv /\ BalancerInv /\ TestInv /\ request \in [Client -> Request]
      /\ Tester \subseteq Client /\ DOMAIN etcd \subseteq Server
  BY LoadTestAssumption DEF LoadTestInv, BalancerInv, BalancerTypeOK, RegistryInv, RegistryTypeOK
<1>1. /\ client[c] = "ready" /\ (c \in Tester => left[c] > 0)
      /\ GetServers(c) \/ NoBalancer(c)
      /\ UNCHANGED testVars /\ UNCHANGED registryVars
  BY DEF Ask
<1>2. RegistryInv' /\ BalancerInv'
  BY <1>0, <1>1, RegistryStays, GetServersKeeps
<1>3. \A d \in Client : d # c => request'[d] = request[d]
  BY <1>0, <1>1 DEF GetServers, NoBalancer, Answered, Fails
<1>4. \A d \in Tester : request'[d].at # "none" => client[d] = "ready" /\ left[d] > 0
  BY <1>0, <1>1, <1>3 DEF TestInv, TesterStates
<1>5. TestInv'
  BY <1>0, <1>1, <1>4, TestStays
<1> QED
  BY <1>2, <1>5 DEF LoadTestInv

LEMMA ForgetKeeps ==
  ASSUME BalancerInv, NEW c \in Client, request[c].at \in {"picked", "error"}, Forget(c),
         UNCHANGED <<policy, rrIndex, round, crossed>>
  PROVE  BalancerInv'
BY AnswerTypes, OffIndexKeeps DEF Forget

LEMMA ClientsKeep ==
  ASSUME LoadTestInv, NEW c \in Client,
         Testing(c) \/ PersonServed(c) \/ PersonFails(c) \/ PersonQuits(c)
  PROVE  LoadTestInv'
<1>0. RegistryInv /\ BalancerInv /\ TestInv /\ request \in [Client -> Request]
  BY DEF LoadTestInv, BalancerInv, BalancerTypeOK
<1>1. CASE Ask(c)
  BY <1>1, AskKeeps
<1>2. CASE Skip(c) \/ CallBackend(c)
  <2>1. RegistryInv' /\ BalancerInv'
    BY <1>0, <1>2, RegistryStays, ForgetKeeps DEF Skip, CallBackend
  <2> QED
    BY <1>0, <1>2, <2>1, SkipKeeps, CallBackendKeeps DEF LoadTestInv
<1>3. CASE SendMetric(c) \/ TesterEnds(c)
  <2>1. RegistryInv' /\ BalancerInv'
    BY <1>0, <1>3, RegistryStays, BalancerStays DEF SendMetric, TesterEnds
  <2> QED
    BY <1>0, <1>3, <2>1, SendMetricKeeps, TesterEndsKeeps DEF LoadTestInv
<1>4. CASE PersonServed(c) \/ PersonFails(c)
  <2>1. RegistryInv' /\ BalancerInv'
    BY <1>0, <1>4, RegistryStays, ForgetKeeps DEF PersonServed, PersonFails
  <2> QED
    BY <1>0, <1>4, <2>1, PersonKeeps DEF LoadTestInv
<1>5. CASE PersonQuits(c)
  <2>1. RegistryInv' /\ BalancerInv'
    BY <1>0, <1>5, RegistryStays, BalancerStays DEF PersonQuits
  <2> QED
    BY <1>0, <1>5, <2>1, PersonKeeps DEF LoadTestInv
<1> QED
  BY <1>1, <1>2, <1>3, <1>4, <1>5 DEF Testing

\* The backends, the sweep and time leave the balancer and the test alone.
LEMMA RegistryStepsKeep ==
  ASSUME LoadTestInv,
         (\E s \in Server : Backend(s)) \/ Sweeping \/ Ticking \/ LBBack \/ UNCHANGED vars
  PROVE  LoadTestInv'
<1>0. RegistryInv /\ BalancerInv /\ TestInv
  BY DEF LoadTestInv
<1>1. UNCHANGED balancerVars /\ UNCHANGED testVars
  BY DEF Backend, Sweeping, Ticking, LBBack, vars
<1>2. BalancerInv'
  BY <1>0, <1>1, BalancerStays
<1>3. \A c \in Tester : request'[c].at # "none" => client[c] = "ready" /\ left[c] > 0
  BY <1>0, <1>1 DEF TestInv, TesterStates, balancerVars
<1>4. TestInv'
  BY <1>0, <1>1, <1>3, TestStays
<1>5. RegistryInv'
  <2>1. CASE \E s \in Server : Backend(s)
    BY <1>0, <2>1, BackendKeeps DEF Backend
  <2>2. CASE Sweeping
    BY <1>0, <2>2, SweepKeeps DEF Sweeping
  <2>3. CASE Ticking
    BY <1>0, <2>3, TickKeeps DEF Ticking
  <2>4. CASE LBBack
    BY <1>0, <2>4, RegistryBackKeeps DEF LBBack
  <2>5. CASE UNCHANGED vars
    BY <1>0, <2>5, RegistryStays DEF vars
  <2> QED
    BY <2>1, <2>2, <2>3, <2>4, <2>5
<1> QED
  BY <1>2, <1>4, <1>5 DEF LoadTestInv

LEMMA MainStepsKeep ==
  ASSUME LoadTestInv, MainSteps
  PROVE  LoadTestInv'
<1>0. RegistryInv /\ BalancerInv /\ TestInv
  BY DEF LoadTestInv
<1>1. UNCHANGED registryVars /\ UNCHANGED balancerVars
  BY DEF MainSteps, Launch, AllLaunched, CloseChannel, Summarise, Collect
<1>2. RegistryInv' /\ BalancerInv'
  BY <1>0, <1>1, RegistryStays, BalancerStays
<1>3. TestInv'
  BY <1>0, LaunchKeeps, MainKeeps, CollectKeeps DEF MainSteps
<1> QED
  BY <1>2, <1>3 DEF LoadTestInv

LEMMA Invariance == Spec => []LoadTestInv
<1>1. Init => LoadTestInv
  BY RegistryInitially, BalancerInitially, TestInitially DEF Init, LoadTestInv
<1>2. LoadTestInv /\ [Next]_vars => LoadTestInv'
  <2> SUFFICES ASSUME LoadTestInv, [Next]_vars PROVE LoadTestInv'
    OBVIOUS
  <2>1. CASE (\E s \in Server : Backend(s)) \/ Sweeping \/ Ticking \/ LBBack \/ UNCHANGED vars
    BY <2>1, RegistryStepsKeep
  <2>2. CASE LBDies
    BY <2>2, DeathKeeps
  <2>3. CASE \E c \in Client : Handling(c)
    BY <2>3, HandlingKeeps
  <2>4. CASE \E c \in Client : Testing(c) \/ PersonServed(c) \/ PersonFails(c) \/ PersonQuits(c)
    BY <2>4, ClientsKeep
  <2>5. CASE MainSteps
    BY <2>5, MainStepsKeep
  <2> QED
    BY <2>1, <2>2, <2>3, <2>4, <2>5 DEF Next
<1> QED
  BY <1>1, <1>2, PTL DEF Spec

(***************************************************************************)
(* All three parts are well typed; the wait group (load_client.go:71, 188) *)
(* never gets negative, which would be a panic, and last_update and etcd   *)
(* keep only what belongs to servers (lb_server/main.go).                  *)
(***************************************************************************)
THEOREM TypeCorrect == Spec => []TypeOK
<1>1. LoadTestInv => TypeOK
  BY DEF LoadTestInv, RegistryInv, BalancerInv, TestInv, TypeOK
<1> QED
  BY <1>1, Invariance, PTL

(***************************************************************************)
(* No sweep of printAliveServers removes a backend that reports in time,   *)
(* whatever comes in between its check and its removal, and whatever run   *)
(* of the LB server it is, if a sweep takes less time than it waits for a  *)
(* report.                                                                 *)
(***************************************************************************)
THEOREM PunctualStay == Spec => []PunctualIsListed
<1>1. LoadTestInv => PunctualIsListed
  BY DEF LoadTestInv, RegistryInv
<1> QED
  BY <1>1, Invariance, PTL

(***************************************************************************)
(* round_robin of GetBestServer never panics over an index of a request    *)
(* that has met no other at rrIndex, whichever backends come and go while  *)
(* the index stays what it was.                                            *)
(***************************************************************************)
THEOREM IndexSafe == Spec => []IndexInList
<1>1. LoadTestInv => IndexInList
  BY IndexIsInList DEF LoadTestInv
<1> QED
  BY <1>1, Invariance, PTL

(***************************************************************************)
(* round_robin serves servers in turn to requests that do not meet at      *)
(* rrIndex, for a list of any length, and starts a new turn with each list *)
(* that differs.                                                           *)
(***************************************************************************)
THEOREM TurnsTaken == Spec => []TakesTurns
<1>1. LoadTestInv => TakesTurns
  BY TurnsAreTaken DEF LoadTestInv
<1> QED
  BY <1>1, Invariance, PTL

\* When all testers are done, no metric is held and nothing is left to do.
LEMMA SummaryHolds ==
  ASSUME TestInv
  PROVE  SummaryIsComplete
<1>0. /\ TestTypeOK /\ TesterStates /\ Phases /\ RequestsAdd
      /\ \A o \in Success : MetricsAreCalls(o)
  BY DEF TestInv
<1>1. closed => \A c \in numClients : client[c] = "done"
  BY <1>0 DEF Phases
<1>2. ASSUME main = "finished"
      PROVE  /\ \A o \in Success : metrics[o] = ended[o]
             /\ Total(metrics) + ended["skipped"] = Capacity
  <2>1. Total(channel) = 0 /\ \A c \in numClients : client[c] = "done" /\ left[c] = 0
    BY <1>0, <1>2 DEF Phases, TesterStates
  <2>2. \A o \in Success : Holding(o) = {}
    BY <2>1 DEF Holding, Success
  <2>3. ToDo = {}
    BY <2>1 DEF ToDo
  <2>4. Cardinality(ToDo) = 0 /\ \A o \in Success : Cardinality(Holding(o)) = 0
    BY <2>2, <2>3, FS_EmptySet
  <2>5. \A o \in Success : channel[o] = 0
    BY <1>0, <2>1, Totals
  <2>6. \A o \in Success : metrics[o] = ended[o]
    BY <1>0, <2>4, <2>5, Totals DEF MetricsAreCalls
  <2>7. Total(metrics) + ended["skipped"] = Capacity
    BY <1>0, <2>1, <2>4, Totals DEF RequestsAdd
  <2> QED
    BY <2>6, <2>7
<1> QED
  BY <1>1, <1>2 DEF SummaryIsComplete

(***************************************************************************)
(* The summary of the load test is made when every tester has sent its     *)
(* last metric, and counts every request once: no send meets a closed      *)
(* channel, and none is lost in it.                                        *)
(***************************************************************************)
THEOREM SummaryComplete == Spec => []SummaryIsComplete
<1>1. LoadTestInv => SummaryIsComplete
  BY SummaryHolds DEF LoadTestInv
<1> QED
  BY <1>1, Invariance, PTL
=============================================================================
