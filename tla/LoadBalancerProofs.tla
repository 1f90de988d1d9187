------------------------- MODULE LoadBalancerProofs -------------------------
(***************************************************************************)
(* Proofs about the registry and GetBestServer, for any backends, clients  *)
(* and bounds.  They are about one step each; LoadTestProofs puts them     *)
(* together.                                                               *)
(***************************************************************************)
EXTENDS LoadBalancer, FiniteSetTheorems, TLAPS

(***************************************************************************)
(* The registry.  A punctual backend that has a stamp lives, and its stamp *)
(* is young; so no sweep finds it overdue, and no key is about to be       *)
(* removed that is a punctual backend's.                                   *)
(***************************************************************************)
DownIsEmpty == lbUp \/ (last_update = Empty /\ report = NoReport)

PunctualAreYoung == \A s \in Punctual : s \in DOMAIN last_update =>
                      Alive(s) /\ last_update[s] < Unresponsive

PunctualAreSpared == MaxSweep < Unresponsive =>
                       ~(sweep.at \in {"erase", "remove"} /\ First(sweep.todo) \in Punctual)

RegistryInv == /\ RegistryTypeOK /\ report \in [Server -> Nat \cup {-1}]
               /\ DownIsEmpty /\ PunctualAreYoung /\ PunctualAreSpared /\ PunctualIsListed

(***************************************************************************)
(* GetBestServer.  Two requests that are at rrIndex at once have crossed;  *)
(* of one that has not, rrIndex is the index it has computed itself, which *)
(* is inside the list it read.                                             *)
(***************************************************************************)
ListsExist == \A c \in Client : request[c].at \in {"listed", "loaded", "moved"} =>
                request[c].list # {}

IndexesFit == \A c \in AtIndex : request[c].index < Cardinality(request[c].list)

IndexIsIts == \A c \in AtIndex \ crossed : request[c].at = "moved" => rrIndex = request[c].index

MeetIsCrossed == \A c, d \in AtIndex : c # d => c \in crossed

(***************************************************************************)
(* The servers chosen in this turn are the last k of the list, counted     *)
(* backwards and round the list from the index that was used last; k is    *)
(* less than the length of the list, so that the next one is not among     *)
(* them.  This holds whenever no request has crossed another at the index. *)
(***************************************************************************)
Distance(last, i, n) == IF i <= last THEN last - i ELSE last - i + n

Turned(last) ==
  \/ round.chosen = {}
  \/ LET n == Cardinality(round.list)
     IN  /\ last \in 0..(n - 1) /\ round.chosen \subseteq round.list
         /\ \E k \in 1..(n - 1) : \A i \in 0..(n - 1) :
              At(round.list, i) \in round.chosen <=> Distance(last, i, n) < k

TurnGoesOn ==
  \/ AtIndex \cap crossed # {}
  \/ /\ \A c \in AtIndex :
          /\ request[c].at = "loaded"
          /\ request[c].index = Advanced(rrIndex, Cardinality(request[c].list))
     /\ Turned(rrIndex)
  \/ \E c \in AtIndex, last \in Nat :
       /\ request[c].at = "moved"
       /\ rrIndex = Advanced(last, Cardinality(request[c].list))
       /\ Turned(last)

BalancerInv == BalancerTypeOK /\ ListsExist /\ IndexesFit /\ IndexIsIts /\ MeetIsCrossed /\ TurnGoesOn

-----------------------------------------------------------------------------
LEMMA RegistryInitially == RegistryInit => RegistryInv
<1> SUFFICES ASSUME RegistryInit PROVE RegistryInv
  OBVIOUS
<1>1. DOMAIN Empty = {} /\ \A T : Empty \in [{} -> T]
  BY DEF Empty
<1>2. /\ NoReport \in [Server -> Nat \cup {-1}]
      /\ \A s \in Server : NoReport[s] = -1
  BY DEF NoReport
<1>3. Asleep \in Sweep /\ Asleep.at = "asleep"
  BY RegistryAssumption DEF Asleep, Sweep
<1>4. RegistryTypeOK
  BY <1>1, <1>2, <1>3 DEF RegistryInit, RegistryTypeOK
<1>5. PunctualAreYoung /\ PunctualAreSpared /\ PunctualIsListed /\ DownIsEmpty
  BY <1>1, <1>3 DEF RegistryInit, PunctualAreYoung, PunctualAreSpared, PunctualIsListed, DownIsEmpty
<1> QED
  BY <1>2, <1>4, <1>5 DEF RegistryInv, RegistryInit

\* The steps of a backend.
LEMMA BackendKeeps ==
  ASSUME RegistryInv, NEW s \in Server, BackendSteps(s)
  PROVE  RegistryInv'
<1> USE DEF RegistryInv
<1>0. /\ RegistryTypeOK /\ DownIsEmpty /\ PunctualAreYoung /\ PunctualAreSpared /\ PunctualIsListed
      /\ report \in [Server -> Nat \cup {-1}] /\ Punctual \subseteq Server
      /\ Measured[s] \subseteq Nat /\ Unresponsive \in Nat \ {0}
  BY RegistryAssumption
<1>00. etcd \in [DOMAIN etcd -> Nat] /\ last_update \in [DOMAIN last_update -> 0..MaxAge]
  BY DEF RegistryTypeOK
<1>1. CASE Register(s)
  <2> DEFINE e == With(etcd, s, 0)
  <2>1. /\ e \in [DOMAIN etcd \cup {s} -> Nat] /\ DOMAIN e = DOMAIN etcd \cup {s}
    BY <1>00 DEF With
  <2>2. etcd' = e
    BY <1>1 DEF Register, RegisterServer
  <2> HIDE DEF e
  <2>7. e \in [DOMAIN e -> Nat] /\ DOMAIN e \subseteq Server
    BY <1>0, <2>1 DEF RegistryTypeOK
  <2>8. starts' \in [Server -> Nat] /\ backend' \in [Server -> {"down", "registered", "serving"}]
    BY <1>0, <1>1 DEF Register, RegistryTypeOK
  <2>3. RegistryTypeOK'
    BY <1>0, <1>1, <2>2, <2>7, <2>8 DEF Register, RegistryTypeOK
  <2>4. DownIsEmpty' /\ PunctualAreSpared'
    BY <1>0, <1>1 DEF Register, DownIsEmpty, PunctualAreSpared
  <2>5. PunctualAreYoung'
    BY <1>0, <1>1 DEF Register, PunctualAreYoung, Alive, RegistryTypeOK
  <2>6. PunctualIsListed'
    BY <1>0, <1>1, <2>1, <2>2 DEF Register, PunctualIsListed, Alive, Reporting, RegistryTypeOK
  <2> QED
    BY <1>0, <1>1, <2>3, <2>4, <2>5, <2>6 DEF Register
<1>2. CASE Listen(s)
  <2>3. RegistryTypeOK'
    BY <1>0, <1>2 DEF Listen, RegistryTypeOK
  <2>4. DownIsEmpty' /\ PunctualAreSpared'
    BY <1>0, <1>2 DEF Listen, DownIsEmpty, PunctualAreSpared
  <2>5. PunctualAreYoung'
    BY <1>0, <1>2 DEF Listen, PunctualAreYoung, Alive, RegistryTypeOK
  <2>6. PunctualIsListed'
    BY <1>0, <1>2 DEF Listen, PunctualIsListed, Alive, Reporting, RegistryTypeOK
  <2> QED
    BY <1>0, <1>2, <2>3, <2>4, <2>5, <2>6 DEF Listen
<1>3. CASE Stamp(s)
  <2> DEFINE u == With(last_update, s, 0)
  <2>0. 0 \in 0..MaxAge
    BY RegistryAssumption DEF MaxAge
  <2>1. /\ u \in [DOMAIN last_update \cup {s} -> 0..MaxAge] /\ DOMAIN u = DOMAIN last_update \cup {s}
        /\ u[s] = 0 /\ \A k \in DOMAIN last_update : k # s => u[k] = last_update[k]
    BY <1>00, <2>0 DEF With
  <2>2. last_update' = u
    BY <1>3 DEF Stamp
  <2> HIDE DEF u
  <2>3. PICK l \in Measured[s] : report' = [report EXCEPT ![s] = l]
    BY <1>3 DEF Stamp, getProcessCPUByPort
  <2>4. /\ report' \in [Server -> Nat \cup {-1}] /\ report'[s] = l /\ l \in Nat
        /\ \A r \in Server : r # s => report'[r] = report[r]
    BY <1>0, <2>3
  <2>9. u \in [DOMAIN u -> 0..MaxAge] /\ DOMAIN u \subseteq Server
    BY <1>0, <2>1 DEF RegistryTypeOK
  <2>10. \A r \in Server : report'[r] \in Measured[r] \cup {-1}
    BY <1>0, <2>4 DEF RegistryTypeOK
  <2>5. RegistryTypeOK'
    BY <1>0, <1>3, <2>2, <2>9, <2>10 DEF Stamp, RegistryTypeOK
  <2>6. DownIsEmpty' /\ PunctualAreSpared'
    BY <1>0, <1>3 DEF Stamp, DownIsEmpty, PunctualAreSpared
  <2>7. PunctualAreYoung'
    BY <1>0, <1>3, <2>1, <2>2 DEF Stamp, PunctualAreYoung, Alive
  <2>8. PunctualIsListed'
    BY <1>0, <1>3, <2>1, <2>2, <2>4 DEF Stamp, PunctualIsListed, Alive, Reporting
  <2> QED
    BY <2>4, <2>5, <2>6, <2>7, <2>8
<1>4. CASE StoreLoad(s)
  <2> DEFINE e == With(etcd, s, report[s])
  <2>0. report[s] \in Nat
    BY <1>0, <1>4 DEF StoreLoad, Reporting
  <2>1. /\ e \in [DOMAIN etcd \cup {s} -> Nat] /\ DOMAIN e = DOMAIN etcd \cup {s}
    BY <1>00, <2>0 DEF With
  <2>2. etcd' = e
    BY <1>4 DEF StoreLoad, Stored
  <2> HIDE DEF e
  <2>3. /\ report' \in [Server -> Nat \cup {-1}] /\ report'[s] = -1
        /\ \A r \in Server : r # s => report'[r] = report[r]
    BY <1>0, <1>4 DEF StoreLoad
  <2>8. e \in [DOMAIN e -> Nat] /\ DOMAIN e \subseteq Server
    BY <1>0, <2>1 DEF RegistryTypeOK
  <2>9. \A r \in Server : report'[r] \in Measured[r] \cup {-1}
    BY <1>0, <2>3 DEF RegistryTypeOK
  <2>4. RegistryTypeOK'
    BY <1>0, <1>4, <2>2, <2>8, <2>9 DEF StoreLoad, RegistryTypeOK
  <2>5. DownIsEmpty' /\ PunctualAreSpared'
    BY <1>0, <1>4 DEF StoreLoad, DownIsEmpty, PunctualAreSpared
  <2>6. PunctualAreYoung'
    BY <1>0, <1>4 DEF StoreLoad, PunctualAreYoung, Alive
  <2>7. PunctualIsListed'
    BY <1>0, <1>4, <2>1, <2>2, <2>3 DEF StoreLoad, PunctualIsListed, Alive, Reporting
  <2> QED
    BY <2>3, <2>4, <2>5, <2>6, <2>7
<1>5. CASE ReportFails(s)
  <2>1. DOMAIN last_update = {}
    BY <1>0, <1>5 DEF ReportFails, DownIsEmpty, Empty
  <2>2. RegistryTypeOK'
    BY <1>0, <1>5 DEF ReportFails, RegistryTypeOK
  <2>3. DownIsEmpty' /\ PunctualAreSpared'
    BY <1>0, <1>5 DEF ReportFails, DownIsEmpty, PunctualAreSpared
  <2>4. PunctualAreYoung' /\ PunctualIsListed'
    BY <1>5, <2>1 DEF ReportFails, PunctualAreYoung, PunctualIsListed
  <2> QED
    BY <1>0, <1>5, <2>2, <2>3, <2>4 DEF ReportFails
<1>6. CASE BackendDies(s)
  <2>1. \A r \in Punctual : backend'[r] = backend[r]
    BY <1>0, <1>6 DEF BackendDies, RegistryTypeOK
  <2>2. RegistryTypeOK'
    BY <1>0, <1>6 DEF BackendDies, RegistryTypeOK
  <2>3. DownIsEmpty' /\ PunctualAreSpared'
    BY <1>0, <1>6 DEF BackendDies, DownIsEmpty, PunctualAreSpared
  <2>4. PunctualAreYoung'
    BY <1>0, <1>6, <2>1 DEF BackendDies, PunctualAreYoung, Alive
  <2>5. PunctualIsListed'
    BY <1>0, <1>6, <2>1 DEF BackendDies, PunctualIsListed, Alive, Reporting
  <2> QED
    BY <1>0, <1>6, <2>2, <2>3, <2>4, <2>5 DEF BackendDies
<1> QED
  BY <1>1, <1>2, <1>3, <1>4, <1>5, <1>6 DEF BackendSteps

\* The sweep.  A punctual backend is not overdue, so it is never removed.
LEMMA SweepKeeps ==
  ASSUME RegistryInv, SweepSteps
  PROVE  RegistryInv'
<1> DEFINE s == First(sweep.todo)
<1>0. /\ RegistryTypeOK /\ DownIsEmpty /\ PunctualAreYoung /\ PunctualAreSpared /\ PunctualIsListed
      /\ report \in [Server -> Nat \cup {-1}] /\ Punctual \subseteq Server
      /\ Unresponsive \in Nat \ {0} /\ MaxSweep \in Nat /\ sweep \in Sweep
  BY RegistryAssumption DEF RegistryInv, RegistryTypeOK
<1>00. etcd \in [DOMAIN etcd -> Nat] /\ last_update \in [DOMAIN last_update -> 0..MaxAge]
  BY <1>0 DEF RegistryTypeOK
<1>1. Asleep \in Sweep /\ Asleep.at \notin {"erase", "remove"}
  BY <1>0 DEF Asleep, Sweep
<1>2. ASSUME NextKey(s) PROVE sweep' \in Sweep /\ sweep'.at \notin {"erase", "remove"}
  <2> DEFINE t == [sweep EXCEPT !.at = "check", !.todo = @ \ {s}]
  <2>1. t \in Sweep /\ t.at = "check"
    BY <1>0 DEF Sweep
  <2>2. sweep' = Asleep \/ sweep' = t
    BY <1>2 DEF NextKey
  <2> QED
    BY <1>1, <2>1, <2>2
<1>3. CASE SweepGet
  <2>1. sweep' \in Sweep /\ sweep'.at = "check"
    BY <1>0, <1>3 DEF SweepGet, Sweep, RegistryTypeOK
  <2>2. RegistryTypeOK'
    BY <1>0, <1>3, <2>1 DEF SweepGet, RegistryTypeOK
  <2>3. DownIsEmpty' /\ PunctualAreSpared' /\ PunctualAreYoung' /\ PunctualIsListed'
    BY <1>0, <1>3, <2>1 DEF SweepGet, DownIsEmpty, PunctualAreSpared, PunctualAreYoung,
                            PunctualIsListed, Alive, Reporting
  <2> QED
    BY <1>0, <1>3, <2>2, <2>3 DEF SweepGet, RegistryInv
<1>4. CASE SweepCheck
  <2>0. UNCHANGED <<lbUp, lbRuns, etcd, last_update, backend, starts, report>> /\ lbUp
    BY <1>4 DEF SweepCheck
  <2>1. CASE Overdue(s) /\ sweep' = [sweep EXCEPT !.at = "erase"]
    <3>1. sweep' \in Sweep /\ sweep'.todo = sweep.todo
      BY <1>0, <2>1 DEF Sweep
    <3>2. RegistryTypeOK'
      BY <1>0, <2>0, <3>1 DEF RegistryTypeOK
    <3>3. ASSUME MaxSweep < Unresponsive PROVE s \notin Punctual
      <4> SUFFICES ASSUME s \in Punctual PROVE FALSE
        OBVIOUS
      <4>1. s \in DOMAIN last_update /\ last_update[s] < Unresponsive /\ last_update[s] \in 0..MaxAge
        BY <1>0, <2>1 DEF Overdue, PunctualAreYoung, RegistryTypeOK
      <4>2. sweep.elapsed \in 0..MaxSweep
        BY <1>0 DEF Sweep
      <4>3. Absolute(Difference(s)) < Unresponsive
        <5> DEFINE a == last_update[s]
                   b == sweep.elapsed
        <5>1. a \in Nat /\ b \in Nat /\ a < Unresponsive /\ b < Unresponsive
          BY <1>0, <3>3, <4>1, <4>2
        <5>2. Difference(s) = a - b
          BY DEF Difference
        <5> HIDE DEF a, b, s
        <5> QED
          BY <1>0, <5>1, <5>2 DEF Absolute
      <4>4. Absolute(Difference(s)) >= Unresponsive /\ Absolute(Difference(s)) \in Int
        <5>1. last_update[s] \in Int /\ sweep.elapsed \in Int
          BY <4>1, <4>2
        <5> QED
          BY <2>1, <5>1 DEF Overdue, Absolute, Difference
      <4> QED
        BY <1>0, <4>3, <4>4
    <3>4. PunctualAreSpared'
      BY <3>1, <3>3 DEF PunctualAreSpared
    <3>5. PunctualAreYoung' /\ PunctualIsListed' /\ DownIsEmpty'
      BY <1>0, <2>0 DEF PunctualAreYoung, PunctualIsListed, DownIsEmpty, Alive, Reporting
    <3> QED
      BY <1>0, <2>0, <3>2, <3>4, <3>5 DEF RegistryInv
  <2>2. CASE ~Overdue(s) /\ NextKey(s)
    <3>1. RegistryTypeOK'
      BY <1>0, <1>2, <2>0, <2>2 DEF RegistryTypeOK
    <3>2. DownIsEmpty' /\ PunctualAreSpared' /\ PunctualAreYoung' /\ PunctualIsListed'
      BY <1>0, <1>2, <2>0, <2>2 DEF DownIsEmpty, PunctualAreSpared, PunctualAreYoung,
                                    PunctualIsListed, Alive, Reporting
    <3> QED
      BY <1>0, <2>0, <3>1, <3>2 DEF RegistryInv
  <2> QED
    BY <1>4, <2>1, <2>2 DEF SweepCheck
<1>5. CASE SweepErase
  <2>0. /\ UNCHANGED <<lbUp, lbRuns, etcd, backend, starts, report>> /\ lbUp
        /\ sweep.at = "erase" /\ sweep' = [sweep EXCEPT !.at = "remove"]
    BY <1>5 DEF SweepErase
  <2> DEFINE u == Without(last_update, s)
  <2>1. /\ u \in [DOMAIN last_update \ {s} -> 0..MaxAge] /\ DOMAIN u = DOMAIN last_update \ {s}
        /\ \A k \in DOMAIN last_update \ {s} : u[k] = last_update[k]
    BY <1>00 DEF Without, Restrict
  <2>2. last_update' = u
    BY <1>5 DEF SweepErase
  <2> HIDE DEF u
  <2>3. sweep' \in Sweep /\ sweep'.todo = sweep.todo
    BY <1>0, <2>0 DEF Sweep
  <2>4. u \in [DOMAIN u -> 0..MaxAge] /\ DOMAIN u \subseteq Server
    BY <1>0, <2>1 DEF RegistryTypeOK
  <2>5. RegistryTypeOK'
    BY <1>0, <2>0, <2>2, <2>3, <2>4 DEF RegistryTypeOK
  <2>6. PunctualAreSpared'
    BY <1>0, <2>0, <2>3 DEF PunctualAreSpared
  <2>7. PunctualAreYoung' /\ PunctualIsListed' /\ DownIsEmpty'
    BY <1>0, <2>0, <2>1, <2>2 DEF PunctualAreYoung, PunctualIsListed, DownIsEmpty, Alive, Reporting
  <2> QED
    BY <1>0, <2>0, <2>5, <2>6, <2>7 DEF RegistryInv
<1>6. CASE SweepRemove
  <2>0. /\ UNCHANGED <<lbUp, lbRuns, last_update, backend, starts, report>> /\ lbUp
        /\ NextKey(s) /\ sweep.at = "remove"
    BY <1>6 DEF SweepRemove
  <2> DEFINE e == Without(etcd, s)
  <2>1. e \in [DOMAIN etcd \ {s} -> Nat] /\ DOMAIN e = DOMAIN etcd \ {s}
    BY <1>00 DEF Without, Restrict
  <2>2. etcd' = e
    BY <1>6 DEF SweepRemove, Removed
  <2> HIDE DEF e
  <2>3. e \in [DOMAIN e -> Nat] /\ DOMAIN e \subseteq Server
    BY <1>0, <2>1 DEF RegistryTypeOK
  <2>4. RegistryTypeOK'
    BY <1>0, <1>2, <2>0, <2>2, <2>3 DEF RegistryTypeOK
  <2>5. MaxSweep < Unresponsive => s \notin Punctual
    BY <1>0, <2>0 DEF PunctualAreSpared
  <2>6. PunctualIsListed'
    BY <1>0, <2>0, <2>1, <2>2, <2>5 DEF PunctualIsListed, Alive, Reporting
  <2>7. DownIsEmpty' /\ PunctualAreSpared' /\ PunctualAreYoung'
    BY <1>0, <1>2, <2>0 DEF DownIsEmpty, PunctualAreSpared, PunctualAreYoung, Alive
  <2> QED
    BY <1>0, <2>0, <2>4, <2>6, <2>7 DEF RegistryInv
<1> QED
  BY <1>3, <1>4, <1>5, <1>6 DEF SweepSteps

\* Time passes only while no report of a punctual backend is due.
LEMMA TickKeeps ==
  ASSUME RegistryInv, Tick
  PROVE  RegistryInv'
<1> DEFINE D == DOMAIN last_update
<1>0. /\ RegistryTypeOK /\ DownIsEmpty /\ PunctualAreYoung /\ PunctualAreSpared /\ PunctualIsListed
      /\ report \in [Server -> Nat \cup {-1}]
      /\ Unresponsive \in Nat \ {0} /\ MaxSweep \in Nat /\ MaxAge \in Nat /\ sweep \in Sweep
      /\ UNCHANGED <<lbUp, lbRuns, etcd, backend, starts, report>>
  BY RegistryAssumption DEF RegistryInv, RegistryTypeOK, MaxAge, Tick
<1>1. last_update \in [D -> 0..MaxAge] /\ D \subseteq Server
  BY <1>0 DEF RegistryTypeOK
<1>2. last_update' = [s \in D |-> IF last_update[s] = MaxAge THEN MaxAge ELSE last_update[s] + 1]
  BY DEF Tick
<1>3. /\ DOMAIN last_update' = D /\ last_update' \in [D -> 0..MaxAge]
      /\ \A s \in D : last_update'[s] <= last_update[s] + 1
  BY <1>0, <1>1, <1>2
<1>4. sweep' \in Sweep /\ sweep'.at = sweep.at /\ sweep'.todo = sweep.todo
  <2>1. CASE sweep.at = "asleep"
    BY <1>0, <2>1 DEF Tick
  <2>2. CASE sweep.at # "asleep"
    <3> DEFINE n == sweep.elapsed + 1
    <3>1. n \in 0..MaxSweep
      BY <1>0, <2>2 DEF Tick, Sweep
    <3>2. sweep' = [sweep EXCEPT !.elapsed = n]
      BY <2>2 DEF Tick
    <3> HIDE DEF n
    <3> QED
      BY <1>0, <3>1, <3>2 DEF Sweep
  <2> QED
    BY <2>1, <2>2
<1>5. PunctualAreYoung'
  <2> SUFFICES ASSUME NEW s \in Punctual, s \in D
               PROVE  Alive(s) /\ last_update'[s] < Unresponsive
    BY <1>0, <1>3 DEF PunctualAreYoung, Alive
  <2>1. Alive(s)
    BY <1>0 DEF PunctualAreYoung
  <2>2. last_update[s] + 1 < Unresponsive
    BY <2>1 DEF Tick
  <2> QED
    BY <1>0, <1>1, <1>3, <2>1, <2>2
<1>6. DownIsEmpty'
  BY <1>0, <1>2 DEF DownIsEmpty, Empty
<1>7. PunctualAreSpared' /\ PunctualIsListed'
  BY <1>0, <1>3, <1>4 DEF PunctualAreSpared, PunctualIsListed, Alive, Reporting
<1>8. RegistryTypeOK'
  BY <1>0, <1>1, <1>3, <1>4 DEF RegistryTypeOK
<1> QED
  BY <1>0, <1>5, <1>6, <1>7, <1>8 DEF RegistryInv

\* The LB server dies, or starts again.
LEMMA RegistryDownKeeps ==
  ASSUME RegistryInv, RegistryDown
  PROVE  RegistryInv'
<1>0. RegistryTypeOK
  BY DEF RegistryInv
<1>1. DOMAIN Empty = {} /\ \A T : Empty \in [{} -> T]
  BY DEF Empty
<1>2. NoReport \in [Server -> Nat \cup {-1}] /\ \A s \in Server : NoReport[s] = -1
  BY DEF NoReport
<1>3. Asleep \in Sweep /\ Asleep.at = "asleep"
  BY RegistryAssumption DEF Asleep, Sweep
<1>4. backend' \in [Server -> {"down", "registered", "serving"}]
  BY <1>0 DEF RegistryDown, RegistryTypeOK
<1>5. RegistryTypeOK'
  BY <1>0, <1>1, <1>2, <1>3, <1>4 DEF RegistryDown, RegistryTypeOK
<1>6. PunctualAreYoung' /\ PunctualAreSpared' /\ PunctualIsListed' /\ DownIsEmpty'
  BY <1>1, <1>3 DEF RegistryDown, PunctualAreYoung, PunctualAreSpared, PunctualIsListed, DownIsEmpty
<1> QED
  BY <1>2, <1>5, <1>6 DEF RegistryInv, RegistryDown

LEMMA RegistryBackKeeps ==
  ASSUME RegistryInv, RegistryBack
  PROVE  RegistryInv'
<1>0. RegistryTypeOK /\ DownIsEmpty /\ PunctualAreYoung /\ PunctualAreSpared
  BY DEF RegistryInv
<1>1. DOMAIN Empty = {} /\ \A T : Empty \in [{} -> T]
  BY DEF Empty
<1>2. last_update = Empty
  BY <1>0 DEF RegistryBack, DownIsEmpty
<1>3. RegistryTypeOK'
  BY <1>0, <1>1 DEF RegistryBack, RegistryTypeOK
<1>4. PunctualAreYoung' /\ PunctualAreSpared' /\ PunctualIsListed' /\ DownIsEmpty'
  BY <1>0, <1>1, <1>2 DEF RegistryBack, PunctualAreYoung, PunctualAreSpared, PunctualIsListed,
                          DownIsEmpty
<1> QED
  BY <1>3, <1>4 DEF RegistryInv, RegistryBack

LEMMA RegistryStays ==
  ASSUME RegistryInv, UNCHANGED registryVars
  PROVE  RegistryInv'
BY DEF registryVars, RegistryInv, RegistryTypeOK, DownIsEmpty, PunctualAreYoung, PunctualAreSpared,
       PunctualIsListed, Alive, Reporting

-----------------------------------------------------------------------------
(***************************************************************************)
(* serverList has the keys in order: At(S, i) is the element of S with i   *)
(* others before it, for each index i below the length of the list.        *)
(***************************************************************************)
Before(S, s) == {r \in S : r < s}
Place(S, s)  == Cardinality(Before(S, s))

LEMMA BeforeIsLess ==
  ASSUME NEW S \in SUBSET Nat, IsFiniteSet(S), NEW s \in Nat, NEW t \in S, s < t \/ s = t,
         NEW B, B = Before(S, s)
  PROVE  /\ IsFiniteSet(B) /\ Cardinality(B) \in Nat
         /\ s < t /\ s \in S => Cardinality(B) < Place(S, t)
         /\ s = t => Cardinality(B) < Cardinality(S)
<1> DEFINE C == Before(S, t)
<1>1. B \in SUBSET S /\ C \in SUBSET S /\ s \notin B
  BY DEF Before
<1>2. s < t => B \in SUBSET C /\ (s \in S => s \in C)
  <2>1. \A r \in S : r < s /\ s < t => r < t
    OBVIOUS
  <2> QED
    BY <2>1 DEF Before
<1> HIDE DEF C
<1>3. /\ IsFiniteSet(B) /\ IsFiniteSet(C) /\ Cardinality(B) <= Cardinality(S)
      /\ Cardinality(S) = Cardinality(B) => S = B
  BY <1>1, FS_Subset
<1>4. Cardinality(B) \in Nat /\ Cardinality(C) \in Nat /\ Cardinality(S) \in Nat
  BY <1>3, FS_CardinalityType
<1>5. ASSUME s < t PROVE Cardinality(B) <= Cardinality(C) /\ (Cardinality(C) = Cardinality(B) => C = B)
  BY <1>2, <1>3, <1>5, FS_Subset
<1>6. s < t /\ s \in S => Cardinality(B) < Cardinality(C)
  BY <1>1, <1>2, <1>4, <1>5
<1>7. s = t => Cardinality(B) < Cardinality(S)
  BY <1>1, <1>3, <1>4
<1> QED
  BY <1>3, <1>4, <1>6, <1>7 DEF C, Place

LEMMA ListInOrder ==
  ASSUME NEW S \in SUBSET Nat, IsFiniteSet(S)
  PROVE  /\ Cardinality(S) \in Nat
         /\ \A s \in S : Place(S, s) \in 0..(Cardinality(S) - 1)
         /\ \A i \in 0..(Cardinality(S) - 1) : At(S, i) \in S /\ Place(S, At(S, i)) = i
         /\ \A s \in S : At(S, Place(S, s)) = s
<1> DEFINE n == Cardinality(S)
           f == [s \in S |-> Place(S, s)]
<1>1. n \in Nat
  BY FS_CardinalityType
<1>2. \A s \in S : Place(S, s) \in 0..(n - 1)
  <2> TAKE s \in S
  <2>1. Place(S, s) \in Nat /\ Place(S, s) < n
    BY BeforeIsLess DEF Place
  <2> QED
    BY <1>1, <2>1
<1>3. \A s, t \in S : Place(S, s) = Place(S, t) => s = t
  <2>1. \A s, t \in S : s < t => Place(S, s) < Place(S, t)
    BY BeforeIsLess DEF Place
  <2>2. \A s, t \in S : s < t \/ s = t \/ t < s
    OBVIOUS
  <2>3. \A s \in S : Place(S, s) \in Int
    BY <1>2
  <2> QED
    BY <2>1, <2>2, <2>3
<1>4. f \in Injection(S, 0..(n - 1))
  <2>1. f \in [S -> 0..(n - 1)] /\ \A s, t \in S : f[s] = f[t] => s = t
    BY <1>2, <1>3
  <2> QED
    BY <2>1 DEF Injection, IsInjective
<1>5. IsFiniteSet(0..(n - 1)) /\ Cardinality(0..(n - 1)) = n
  <2>1. 0 \in Int /\ n - 1 \in Int /\ (0 > n - 1 => n = 0) /\ (n - 1) - 0 + 1 = n
    BY <1>1
  <2> HIDE DEF n
  <2> QED
    BY <2>1, FS_Interval
<1>6. f \in Surjection(S, 0..(n - 1))
  BY <1>4, <1>5, FS_Injection
<1>7. \A i \in 0..(n - 1) : \E s \in S : Place(S, s) = i
  BY <1>6 DEF Surjection
<1>8. \A i \in 0..(n - 1) : At(S, i) \in S /\ Place(S, At(S, i)) = i
  BY <1>7 DEF At, Place, Before
<1>9. \A s \in S : At(S, Place(S, s)) = s
  BY <1>2, <1>3, <1>8
<1> QED
  BY <1>1, <1>2, <1>8, <1>9

\* A list that is not empty has a first element.
LEMMA FirstIsIn ==
  ASSUME NEW S \in SUBSET Nat, IsFiniteSet(S), S # {}
  PROVE  First(S) \in S
<1> DEFINE s == At(S, 0)
<1>1. Cardinality(S) \in Nat \ {0}
  BY FS_CardinalityType, FS_EmptySet
<1>2. s \in S /\ Place(S, s) = 0
  BY <1>1, ListInOrder
<1>3. IsFiniteSet(Before(S, s))
  BY <1>2, BeforeIsLess
<1>4. Before(S, s) = {}
  BY <1>2, <1>3, FS_EmptySet DEF Place
<1>5. \A r \in S : ~(r < s)
  BY <1>4 DEF Before
<1> HIDE DEF s
<1>6. \A r \in S : s <= r
  BY <1>2, <1>5
<1> QED
  BY <1>2, <1>6 DEF First

\* The next index, round the list.
LEMMA IndexAdvances ==
  ASSUME NEW i \in Nat, NEW n \in Nat \ {0}
  PROVE  /\ Advanced(i, n) \in 0..(n - 1)
         /\ i < n => Advanced(i, n) = IF i + 1 = n THEN 0 ELSE i + 1
BY DEF Advanced

-----------------------------------------------------------------------------
LEMMA BalancerInitially == BalancerInit => BalancerInv
<1> SUFFICES ASSUME BalancerInit PROVE BalancerInv
  OBVIOUS
<1>1. NoRequest \in Request /\ NoRequest.at = "none"
  BY DEF NoRequest, Request
<1>2. \A c \in Client : request[c] = NoRequest
  BY DEF BalancerInit
<1>3. AtIndex = {}
  BY <1>1, <1>2 DEF AtIndex
<1>4. BalancerTypeOK
  BY <1>1 DEF BalancerInit, BalancerTypeOK, NoRound
<1>5. ListsExist /\ IndexesFit /\ IndexIsIts /\ MeetIsCrossed
  BY <1>1, <1>2, <1>3 DEF ListsExist, IndexesFit, IndexIsIts, MeetIsCrossed
<1>6. TurnGoesOn
  BY <1>3 DEF TurnGoesOn, Turned, BalancerInit, NoRound
<1> QED
  BY <1>4, <1>5, <1>6 DEF BalancerInv

\* A request that is not at the index, before or after.
LEMMA OffIndexKeeps ==
  ASSUME BalancerInv, NEW c \in Client, NEW q \in Request, request' = [request EXCEPT ![c] = q],
         request[c].at \notin {"loaded", "moved"}, q.at \notin {"loaded", "moved"},
         q.at = "listed" => q.list # {}, UNCHANGED <<policy, rrIndex, round, crossed>>
  PROVE  BalancerInv'
<1>1. /\ request' \in [Client -> Request] /\ request'[c] = q
      /\ \A d \in Client : d # c => request'[d] = request[d]
  BY DEF BalancerInv, BalancerTypeOK
<1>2. AtIndex' = AtIndex /\ c \notin AtIndex /\ \A d \in AtIndex : d \in Client /\ d # c
  BY <1>1 DEF AtIndex
<1>3. \A d \in AtIndex : request'[d] = request[d]
  BY <1>1, <1>2
<1>4. BalancerTypeOK'
  BY <1>1 DEF BalancerInv, BalancerTypeOK
<1>5. ListsExist'
  BY <1>1 DEF BalancerInv, ListsExist
<1>6. IndexesFit' /\ IndexIsIts' /\ MeetIsCrossed'
  BY <1>2, <1>3 DEF BalancerInv, IndexesFit, IndexIsIts, MeetIsCrossed
<1>7. TurnGoesOn'
  BY <1>2, <1>3 DEF BalancerInv, TurnGoesOn, Turned
<1> QED
  BY <1>4, <1>5, <1>6, <1>7 DEF BalancerInv

\* An answer and an error are requests.
LEMMA AnswerTypes ==
  /\ NoRequest \in Request /\ NoRequest.at = "none"
  /\ [NoRequest EXCEPT !.at = "error"] \in Request
  /\ [NoRequest EXCEPT !.at = "error"].at = "error"
  /\ \A s \in Server : /\ [NoRequest EXCEPT !.at = "picked", !.server = s] \in Request
                       /\ [NoRequest EXCEPT !.at = "picked", !.server = s].at = "picked"
BY DEF NoRequest, Request

LEMMA GetServersKeeps ==
  ASSUME BalancerInv, DOMAIN etcd \subseteq Server, NEW c \in Client, GetServers(c) \/ NoBalancer(c)
  PROVE  BalancerInv'
<1>0. /\ request[c].at = "none" /\ request[c] \in Request
      /\ UNCHANGED <<policy, rrIndex, round, crossed>>
  BY DEF GetServers, NoBalancer, BalancerInv, BalancerTypeOK
<1>1. CASE Fails(c)
  BY <1>0, <1>1, AnswerTypes, OffIndexKeeps DEF Fails
<1>2. ASSUME NEW s \in DOMAIN etcd, Answered(c, s) PROVE BalancerInv'
  BY <1>0, <1>2, AnswerTypes, OffIndexKeeps DEF Answered
<1>3. CASE DOMAIN etcd # {} /\ Answered(c, First(DOMAIN etcd))
  <2>1. DOMAIN etcd \in SUBSET Nat /\ IsFiniteSet(DOMAIN etcd)
    BY RegistryAssumption, FS_Subset
  <2>2. First(DOMAIN etcd) \in DOMAIN etcd
    BY <1>3, <2>1, FirstIsIn
  <2> QED
    BY <1>2, <1>3, <2>2
<1>4. CASE \E s \in Lightest : Answered(c, s)
  BY <1>2, <1>4 DEF Lightest
<1>5. CASE DOMAIN etcd # {}
           /\ request' = [request EXCEPT ![c].at = "listed", ![c].list = DOMAIN etcd]
  <2> DEFINE q == [[request[c] EXCEPT !.at = "listed"] EXCEPT !.list = DOMAIN etcd]
  <2>1. request' = [request EXCEPT ![c] = q]
    BY <1>5 DEF BalancerInv, BalancerTypeOK
  <2>2. q \in Request /\ q.at = "listed" /\ q.list = DOMAIN etcd
    BY <1>0 DEF Request
  <2> HIDE DEF q
  <2> QED
    BY <1>0, <1>5, <2>1, <2>2, OffIndexKeeps
<1> QED
  BY <1>1, <1>3, <1>4, <1>5 DEF GetServers, NoBalancer

\* Whether an index is computed by one request alone.
LEMMA LoadIndexKeeps ==
  ASSUME BalancerInv, NEW c \in Client, LoadIndex(c)
  PROVE  BalancerInv'
<1> DEFINE n == Cardinality(request[c].list)
           v == Advanced(rrIndex, n)
           q == [[request[c] EXCEPT !.at = "loaded"] EXCEPT !.index = v]
<1>0. /\ request[c].at = "listed" /\ request[c] \in Request /\ request \in [Client -> Request]
      /\ request' = [request EXCEPT ![c].at = "loaded", ![c].index = v]
      /\ crossed' = IF AtIndex = {} THEN crossed \ {c} ELSE crossed \cup AtIndex \cup {c}
      /\ rrIndex \in Nat /\ UNCHANGED <<policy, rrIndex, round>>
  BY DEF LoadIndex, BalancerInv, BalancerTypeOK
<1>1. n \in Nat \ {0}
  <2>1. request[c].list \subseteq Server /\ request[c].list # {}
    BY <1>0 DEF BalancerInv, ListsExist, Request
  <2>2. IsFiniteSet(request[c].list)
    BY <2>1, RegistryAssumption, FS_Subset
  <2> QED
    BY <2>1, <2>2, FS_CardinalityType, FS_EmptySet
<1>2. v \in 0..(n - 1)
  BY <1>0, <1>1, IndexAdvances
<1> HIDE DEF v
<1>3. v \in Nat /\ v < n
  BY <1>1, <1>2
<1>4. q \in Request /\ q.at = "loaded" /\ q.index = v /\ q.list = request[c].list
  BY <1>0, <1>3 DEF Request
<1>5. request' = [request EXCEPT ![c] = q]
  BY <1>0
<1> HIDE DEF q
<1>6. /\ request' \in [Client -> Request] /\ request'[c] = q
      /\ \A d \in Client : d # c => request'[d] = request[d]
  BY <1>0, <1>4, <1>5
<1>7. AtIndex' = AtIndex \cup {c} /\ c \notin AtIndex /\ AtIndex \subseteq Client
  BY <1>0, <1>4, <1>6 DEF AtIndex
<1>8. \A d \in AtIndex : request'[d] = request[d]
  BY <1>6, <1>7
<1>9. BalancerTypeOK'
  <2>1. crossed' \subseteq Client
    BY <1>0, <1>7 DEF BalancerInv, BalancerTypeOK
  <2> QED
    BY <1>0, <1>6, <2>1 DEF BalancerInv, BalancerTypeOK
<1>10. ListsExist'
  BY <1>0, <1>4, <1>6 DEF BalancerInv, ListsExist
<1>11. IndexesFit'
  BY <1>3, <1>4, <1>6, <1>7, <1>8 DEF BalancerInv, IndexesFit
<1>12. IndexIsIts'
  BY <1>0, <1>4, <1>6, <1>7, <1>8 DEF BalancerInv, IndexIsIts
<1>13. MeetIsCrossed'
  BY <1>0, <1>7 DEF BalancerInv, MeetIsCrossed
<1>14. TurnGoesOn'
  <2>1. CASE AtIndex # {}
    BY <1>0, <1>7, <2>1 DEF TurnGoesOn
  <2>2. CASE AtIndex = {}
    <3>1. Turned(rrIndex)
      BY <2>2 DEF BalancerInv, TurnGoesOn
    <3>2. Turned(rrIndex)'
      BY <1>0, <3>1 DEF Turned
    <3>3. \A d \in AtIndex' : d = c
      BY <1>7, <2>2
    <3>4. request'[c].at = "loaded" /\ request'[c].index = Advanced(rrIndex', Cardinality(request'[c].list))
      BY <1>0, <1>4, <1>6 DEF v
    <3> QED
      BY <3>2, <3>3, <3>4 DEF TurnGoesOn
  <2> QED
    BY <2>1, <2>2
<1> QED
  BY <1>9, <1>10, <1>11, <1>12, <1>13, <1>14 DEF BalancerInv

\* The index is written.  If another request is there, both have crossed.
LEMMA StoreIndexKeeps ==
  ASSUME BalancerInv, NEW c \in Client, StoreIndex(c)
  PROVE  BalancerInv'
<1> DEFINE q == [request[c] EXCEPT !.at = "moved"]
<1>0. /\ request[c].at = "loaded" /\ request[c] \in Request /\ request \in [Client -> Request]
      /\ request' = [request EXCEPT ![c] = q]
      /\ rrIndex' = request[c].index /\ rrIndex \in Nat /\ UNCHANGED <<policy, round, crossed>>
  BY DEF StoreIndex, BalancerInv, BalancerTypeOK
<1>1. q \in Request /\ q.at = "moved" /\ q.index = request[c].index /\ q.list = request[c].list
  BY <1>0 DEF Request
<1>2. request[c].index \in Nat
  BY <1>0 DEF Request
<1> HIDE DEF q
<1>3. /\ request' \in [Client -> Request] /\ request'[c] = q
      /\ \A d \in Client : d # c => request'[d] = request[d]
  BY <1>0, <1>1
<1>4. AtIndex' = AtIndex /\ c \in AtIndex /\ AtIndex \subseteq Client
  BY <1>0, <1>1, <1>3 DEF AtIndex
<1>5. \A d \in AtIndex : d # c => request'[d] = request[d]
  BY <1>3, <1>4
<1>6. BalancerTypeOK'
  BY <1>0, <1>2, <1>3 DEF BalancerInv, BalancerTypeOK
<1>7. ListsExist'
  BY <1>0, <1>1, <1>3 DEF BalancerInv, ListsExist
<1>8. IndexesFit'
  <2>1. \A d \in AtIndex : request'[d].index = request[d].index /\ request'[d].list = request[d].list
    BY <1>1, <1>3, <1>5
  <2> QED
    BY <1>4, <2>1 DEF BalancerInv, IndexesFit
<1>9. MeetIsCrossed'
  BY <1>0, <1>4 DEF BalancerInv, MeetIsCrossed
<1>10. IndexIsIts'
  BY <1>0, <1>1, <1>3, <1>4 DEF BalancerInv, IndexIsIts, MeetIsCrossed
<1>11. TurnGoesOn'
  <2>1. CASE AtIndex \cap crossed # {}
    BY <1>0, <1>4, <2>1 DEF TurnGoesOn
  <2>2. CASE /\ request[c].index = Advanced(rrIndex, Cardinality(request[c].list))
             /\ Turned(rrIndex)
    <3>1. Turned(rrIndex) /\ UNCHANGED round
      BY <1>0, <2>2
    <3>2. rrIndex' = Advanced(rrIndex, Cardinality(request'[c].list)) /\ request'[c].at = "moved"
      BY <1>0, <1>1, <1>3, <2>2
    <3>3. \E last \in Nat : /\ rrIndex' = Advanced(last, Cardinality(request'[c].list))
                            /\ Turned(last)'
      BY <1>0, <3>1, <3>2 DEF Turned
    <3> QED
      BY <1>4, <3>2, <3>3 DEF TurnGoesOn
  <2>3. CASE \E d \in AtIndex : request[d].at = "moved"
    BY <1>0, <1>4, <2>1, <2>3 DEF BalancerInv, MeetIsCrossed
  <2> QED
    BY <1>4, <2>1, <2>2, <2>3 DEF BalancerInv, TurnGoesOn
<1> QED
  BY <1>6, <1>7, <1>8, <1>9, <1>10, <1>11 DEF BalancerInv

\* A request that has met no other is alone at the index, and has just advanced it.
LEMMA AloneAtIndex ==
  ASSUME BalancerInv, NEW c \in Client \ crossed, request[c].at = "moved"
  PROVE  /\ AtIndex = {c} /\ rrIndex < Cardinality(request[c].list)
         /\ \E last \in Nat : /\ rrIndex = Advanced(last, Cardinality(request[c].list))
                              /\ Turned(last)
<1>1. c \in AtIndex
  BY DEF AtIndex
<1>2. AtIndex = {c}
  BY <1>1 DEF BalancerInv, MeetIsCrossed
<1>3. rrIndex < Cardinality(request[c].list)
  BY <1>1 DEF BalancerInv, IndexesFit, IndexIsIts
<1>4. \E last \in Nat : rrIndex = Advanced(last, Cardinality(request[c].list)) /\ Turned(last)
  BY <1>2 DEF BalancerInv, TurnGoesOn
<1> QED
  BY <1>2, <1>3, <1>4

LEMMA ListTypes ==
  ASSUME BalancerInv, NEW c \in Client, request[c].at = "moved"
  PROVE  /\ request[c].list \in SUBSET Server /\ request[c].list \in SUBSET Nat
         /\ IsFiniteSet(request[c].list) /\ Cardinality(request[c].list) \in Nat \ {0}
         /\ rrIndex \in Nat
<1>1. request[c].list \subseteq Server /\ request[c].list # {} /\ rrIndex \in Nat
  BY DEF BalancerInv, BalancerTypeOK, ListsExist, Request
<1>2. IsFiniteSet(request[c].list)
  BY <1>1, RegistryAssumption, FS_Subset
<1> QED
  BY <1>1, <1>2, RegistryAssumption, FS_CardinalityType, FS_EmptySet

\* From the next index all distances are one more, and its own is none.
LEMMA DistanceGrows ==
  ASSUME NEW n \in Nat \ {0}, NEW last \in 0..(n - 1), NEW next \in Nat, next = Advanced(last, n)
  PROVE  /\ next \in 0..(n - 1) /\ Distance(last, next, n) = n - 1
         /\ \A i \in 0..(n - 1), k \in 0..(n - 1) :
              Distance(next, i, n) < k + 1 <=> i = next \/ Distance(last, i, n) < k
         /\ \A i \in 0..(n - 1) : Distance(next, i, n) \in 0..(n - 1) /\ (Distance(next, i, n) < 1 <=> i = next)
<1>1. next = IF last + 1 = n THEN 0 ELSE last + 1
  BY IndexAdvances
<1>2. next \in 0..(n - 1) /\ Distance(last, next, n) = n - 1
  BY <1>1 DEF Distance
<1>3. \A i \in 0..(n - 1), k \in 0..(n - 1) :
        Distance(next, i, n) < k + 1 <=> i = next \/ Distance(last, i, n) < k
  BY <1>1 DEF Distance
<1>4. \A i \in 0..(n - 1) : Distance(next, i, n) \in 0..(n - 1) /\ (Distance(next, i, n) < 1 <=> i = next)
  BY <1>1 DEF Distance
<1> QED
  BY <1>2, <1>3, <1>4

(***************************************************************************)
(* The turn goes on with the choice of a request that has met no other, or *)
(* begins with it, or is complete.                                         *)
(***************************************************************************)
LEMMA TurnAdvances ==
  ASSUME BalancerInv, NEW c \in Client \ crossed, request[c].at = "moved",
         NEW r, r = NextRound(c)
  PROVE  /\ r \in [list: SUBSET Server, chosen: SUBSET Server]
         /\ \/ r.chosen = {}
            \/ LET n == Cardinality(r.list)
               IN  /\ rrIndex \in 0..(n - 1) /\ r.chosen \subseteq r.list
                   /\ \E k \in 1..(n - 1) : \A i \in 0..(n - 1) :
                        At(r.list, i) \in r.chosen <=> Distance(rrIndex, i, n) < k
<1> DEFINE L == request[c].list
           n == Cardinality(L)
           x == At(L, rrIndex)
           old == IF round.list = L THEN round.chosen ELSE {}
           chosen == {x} \cup old
<1>1. L \in SUBSET Server /\ L \in SUBSET Nat /\ IsFiniteSet(L) /\ n \in Nat \ {0} /\ rrIndex \in Nat
  BY ListTypes
<1>2. PICK last \in Nat : rrIndex = Advanced(last, n) /\ Turned(last)
  BY AloneAtIndex
<1>3. rrIndex < n
  BY AloneAtIndex
<1>4. r = [list |-> L, chosen |-> IF chosen = L THEN {} ELSE chosen]
  BY DEF NextRound, Choice
<1>5. rrIndex \in 0..(n - 1)
  BY <1>1, <1>3
<1>6. /\ x \in L
      /\ \A i \in 0..(n - 1) : At(L, i) = x <=> i = rrIndex
      /\ \A s \in L : \E i \in 0..(n - 1) : At(L, i) = s
  <2>1. /\ \A s \in L : Place(L, s) \in 0..(n - 1)
        /\ \A i \in 0..(n - 1) : At(L, i) \in L /\ Place(L, At(L, i)) = i
        /\ \A s \in L : At(L, Place(L, s)) = s
    BY <1>1, ListInOrder
  <2> HIDE DEF n, L
  <2> QED
    BY <1>5, <2>1
<1>7. CASE old = {}
  <2>1. chosen = {x}
    BY <1>7
  <2>2. n = 1 => chosen = L
    <3>1. ASSUME n = 1 PROVE \E y : L = {y}
      BY <1>1, <3>1, FS_Singleton
    <3> HIDE DEF n, L, x
    <3> QED
      BY <1>6, <2>1, <3>1
  <2>3. \A i \in 0..(n - 1) : Distance(rrIndex, i, n) < 1 <=> i = rrIndex
    BY <1>1, <1>5 DEF Distance
  <2> HIDE DEF n, L, x, old, chosen
  <2>4. CASE chosen = L
    BY <1>1, <1>4, <2>4
  <2>5. CASE chosen # L
    <3>1. 1 \in 1..(n - 1)
      BY <1>1, <2>2, <2>5
    <3>2. r.list = L /\ r.chosen = {x}
      BY <1>4, <2>1, <2>5
    <3>3. \A i \in 0..(n - 1) : At(L, i) \in {x} <=> Distance(rrIndex, i, n) < 1
      BY <1>6, <2>3
    <3>4. r \in [list: SUBSET Server, chosen: SUBSET Server] /\ {x} \subseteq L
      BY <1>1, <1>4, <1>6, <2>1, <2>5
    <3> QED
      BY <1>5, <3>1, <3>2, <3>3, <3>4 DEF n
  <2> QED
    BY <2>4, <2>5
<1>8. CASE old # {}
  <2>1. round.list = L /\ old = round.chosen /\ round.chosen # {}
    BY <1>8
  <2>2. last \in 0..(n - 1) /\ old \subseteq L
    BY <1>2, <2>1 DEF Turned
  <2>3. PICK k \in 1..(n - 1) : \A i \in 0..(n - 1) : At(L, i) \in old <=> Distance(last, i, n) < k
    BY <1>2, <2>1 DEF Turned
  <2> HIDE DEF n, L, x, old
  <2>4. chosen = {x} \cup old
    OBVIOUS
  <2>5. /\ \A i \in 0..(n - 1), m \in 0..(n - 1) :
             Distance(rrIndex, i, n) < m + 1 <=> i = rrIndex \/ Distance(last, i, n) < m
        /\ \A i \in 0..(n - 1) : Distance(rrIndex, i, n) \in 0..(n - 1)
    <3>1. rrIndex = Advanced(last, n) /\ n \in Nat \ {0} /\ rrIndex \in Nat
      BY <1>1, <1>2
    <3>2. \A i \in 0..(n - 1), m \in 0..(n - 1) :
             Distance(rrIndex, i, n) < m + 1 <=> i = rrIndex \/ Distance(last, i, n) < m
      BY <2>2, <3>1, DistanceGrows
    <3>3. \A i \in 0..(n - 1) : Distance(rrIndex, i, n) \in 0..(n - 1)
      BY <2>2, <3>1, DistanceGrows
    <3> QED
      BY <3>2, <3>3
  <2> HIDE DEF chosen
  <2>6. \A i \in 0..(n - 1) : At(L, i) \in chosen <=> Distance(rrIndex, i, n) < k + 1
    <3>1. k \in 0..(n - 1)
      BY <1>1, <2>3
    <3> QED
      BY <1>6, <2>3, <2>4, <2>5, <3>1
  <2>7. chosen \subseteq L
    BY <1>6, <2>2, <2>4
  <2>8. CASE chosen = L
    BY <1>1, <1>4, <2>8
  <2>9. CASE chosen # L
    <3>1. k + 1 \in 1..(n - 1)
      <4>1. k + 1 # n
        <5> SUFFICES ASSUME k + 1 = n PROVE L \subseteq chosen
          BY <2>7, <2>9
        <5>1. \A i \in 0..(n - 1) : At(L, i) \in chosen
          BY <1>1, <2>5, <2>6
        <5> QED
          BY <1>6, <5>1
      <4> QED
        BY <1>1, <4>1
    <3>2. r.list = L /\ r.chosen = chosen /\ r \in [list: SUBSET Server, chosen: SUBSET Server]
      BY <1>1, <1>4, <2>7, <2>9
    <3> QED
      BY <1>5, <2>6, <2>7, <3>1, <3>2 DEF n
  <2> QED
    BY <2>8, <2>9
<1> QED
  BY <1>7, <1>8

\* The index is used.  After a request that has crossed another there is no turn.
LEMMA UseIndexKeeps ==
  ASSUME BalancerInv, NEW c \in Client, UseIndex(c)
  PROVE  BalancerInv'
<1> DEFINE q == [NoRequest EXCEPT !.at = "picked", !.server = Choice(c)]
<1>0. /\ request[c].at = "moved" /\ request \in [Client -> Request] /\ request' = [request EXCEPT ![c] = q]
      /\ round' = NextRound(c) /\ ~(rrIndex >= Cardinality(request[c].list))
      /\ UNCHANGED <<policy, rrIndex, crossed>>
  BY DEF UseIndex, Answered, OutOfRange, BalancerInv, BalancerTypeOK
<1>1. Choice(c) \in Server
  <2> DEFINE L == request[c].list
  <2>1. L \in SUBSET Server /\ L \in SUBSET Nat /\ IsFiniteSet(L) /\ Cardinality(L) \in Nat \ {0} /\ rrIndex \in Nat
    BY <1>0, ListTypes
  <2>2. rrIndex \in 0..(Cardinality(L) - 1)
    BY <1>0, <2>1
  <2>3. At(L, rrIndex) \in L
    BY <2>1, <2>2, ListInOrder
  <2> QED
    BY <2>1, <2>3 DEF Choice
<1>2. q \in Request /\ q.at = "picked"
  BY <1>1, AnswerTypes
<1> HIDE DEF q
<1>3. /\ request' \in [Client -> Request] /\ request'[c] = q
      /\ \A d \in Client : d # c => request'[d] = request[d]
  BY <1>0, <1>2
<1>4. AtIndex' = AtIndex \ {c} /\ c \in AtIndex /\ AtIndex \subseteq Client
  BY <1>0, <1>2, <1>3 DEF AtIndex
<1>5. \A d \in AtIndex : d # c => request'[d] = request[d]
  BY <1>3, <1>4
<1>6. ListsExist'
  BY <1>2, <1>3 DEF BalancerInv, ListsExist
<1>7. IndexesFit' /\ IndexIsIts' /\ MeetIsCrossed'
  BY <1>0, <1>4, <1>5 DEF BalancerInv, IndexesFit, IndexIsIts, MeetIsCrossed
<1>8. CASE c \in crossed
  <2>1. round' = NoRound
    BY <1>0, <1>8 DEF NextRound
  <2>2. BalancerTypeOK'
    BY <1>0, <1>3, <2>1 DEF BalancerInv, BalancerTypeOK, NoRound
  <2>3. Turned(rrIndex)'
    BY <2>1 DEF Turned, NoRound
  <2>4. AtIndex' \cap crossed' # {} \/ AtIndex' = {}
    BY <1>0, <1>4 DEF BalancerInv, MeetIsCrossed
  <2>5. TurnGoesOn'
    BY <2>3, <2>4 DEF TurnGoesOn
  <2> QED
    BY <1>6, <1>7, <2>2, <2>5 DEF BalancerInv
<1>9. CASE c \notin crossed
  <2> DEFINE r == NextRound(c)
  <2>1. round' = r
    BY <1>0
  <2>2. /\ r \in [list: SUBSET Server, chosen: SUBSET Server]
        /\ \/ r.chosen = {}
           \/ LET n == Cardinality(r.list)
              IN  /\ rrIndex \in 0..(n - 1) /\ r.chosen \subseteq r.list
                  /\ \E k \in 1..(n - 1) : \A i \in 0..(n - 1) :
                       At(r.list, i) \in r.chosen <=> Distance(rrIndex, i, n) < k
    BY <1>0, <1>9, TurnAdvances
  <2> HIDE DEF r
  <2>3. BalancerTypeOK'
    BY <1>0, <1>3, <2>1, <2>2 DEF BalancerInv, BalancerTypeOK
  <2>4. Turned(rrIndex)'
    BY <1>0, <2>1, <2>2 DEF Turned
  <2>5. AtIndex' = {}
    BY <1>0, <1>4, <1>9, AloneAtIndex
  <2>6. TurnGoesOn'
    BY <2>4, <2>5 DEF TurnGoesOn
  <2> QED
    BY <1>6, <1>7, <2>3, <2>6 DEF BalancerInv
<1> QED
  BY <1>8, <1>9

LEMMA BalancerDownKeeps ==
  ASSUME BalancerInv, BalancerDown
  PROVE  BalancerInv'
<1>1. request \in [Client -> Request] /\ policy' \in Policy
  BY DEF BalancerInv, BalancerTypeOK, BalancerDown
<1>2. /\ request' \in [Client -> Request]
      /\ \A c \in Client : request'[c].at \notin {"listed", "loaded", "moved"}
  BY <1>1, AnswerTypes DEF BalancerDown
<1>3. AtIndex' = {}
  BY <1>2 DEF AtIndex
<1>4. BalancerTypeOK'
  BY <1>1, <1>2 DEF BalancerDown, BalancerTypeOK, NoRound
<1>5. ListsExist' /\ IndexesFit' /\ IndexIsIts' /\ MeetIsCrossed'
  BY <1>2, <1>3 DEF ListsExist, IndexesFit, IndexIsIts, MeetIsCrossed
<1>6. TurnGoesOn'
  BY <1>3 DEF BalancerDown, TurnGoesOn, Turned, NoRound
<1> QED
  BY <1>4, <1>5, <1>6 DEF BalancerInv

LEMMA BalancerStays ==
  ASSUME BalancerInv, UNCHANGED balancerVars
  PROVE  BalancerInv'
<1>1. AtIndex' = AtIndex
  BY DEF AtIndex, balancerVars
<1>2. BalancerTypeOK' /\ ListsExist' /\ IndexesFit' /\ IndexIsIts' /\ MeetIsCrossed'
  BY <1>1 DEF BalancerInv, BalancerTypeOK, ListsExist, IndexesFit, IndexIsIts, MeetIsCrossed, balancerVars
<1>3. TurnGoesOn'
  BY <1>1 DEF BalancerInv, TurnGoesOn, Turned, balancerVars
<1> QED
  BY <1>2, <1>3 DEF BalancerInv

-----------------------------------------------------------------------------
\* What the invariant of the balancer says of a request that is about to use rrIndex.
LEMMA IndexIsInList ==
  ASSUME BalancerInv
  PROVE  IndexInList
<1> SUFFICES ASSUME NEW c \in Client \ crossed, OutOfRange(c) PROVE FALSE
  BY DEF IndexInList
<1>1. request[c].at = "moved" /\ rrIndex >= Cardinality(request[c].list)
  BY DEF OutOfRange
<1>2. rrIndex < Cardinality(request[c].list)
  BY <1>1, AloneAtIndex
<1>3. rrIndex \in Nat /\ Cardinality(request[c].list) \in Nat
  BY <1>1, ListTypes
<1> QED
  BY <1>1, <1>2, <1>3

LEMMA TurnsAreTaken ==
  ASSUME BalancerInv
  PROVE  TakesTurns
<1> SUFFICES ASSUME NEW c \in Client \ crossed, request[c].at = "moved",
                    round.list = request[c].list
             PROVE  Choice(c) \notin round.chosen
  BY DEF TakesTurns
<1> DEFINE L == request[c].list
           n == Cardinality(L)
<1>1. n \in Nat \ {0} /\ rrIndex \in Nat
  BY ListTypes
<1>2. PICK last \in Nat : rrIndex = Advanced(last, n) /\ Turned(last)
  BY AloneAtIndex
<1>3. CASE round.chosen = {}
  BY <1>3
<1>4. CASE round.chosen # {}
  <2>1. last \in 0..(n - 1)
    BY <1>2, <1>4 DEF Turned
  <2>2. PICK k \in 1..(n - 1) : \A i \in 0..(n - 1) :
          At(L, i) \in round.chosen <=> Distance(last, i, n) < k
    BY <1>2, <1>4 DEF Turned
  <2>3. rrIndex = Advanced(last, n)
    BY <1>2
  <2> HIDE DEF n
  <2>4. rrIndex \in 0..(n - 1) /\ Distance(last, rrIndex, n) = n - 1
    BY <1>1, <2>1, <2>3, DistanceGrows
  <2>5. ~(n - 1 < k)
    BY <1>1, <2>2
  <2>6. At(L, rrIndex) \notin round.chosen
    BY <2>2, <2>4, <2>5
  <2> QED
    BY <2>6 DEF Choice
<1> QED
  BY <1>3, <1>4
=============================================================================
