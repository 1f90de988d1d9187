-------------------------- MODULE MapReduceProofs --------------------------
(***************************************************************************)
(* Proofs about the map-reduce, for any files, words and assignment of     *)
(* words to reducers, and any number of mappers, reducers and runs.        *)
(***************************************************************************)
EXTENDS MapReduce, DataLemmas, TLAPS

\* Where the calls of a job are in the list of tasks.
Base(job)        == IF job = "index" THEN 0 ELSE NumMappers + NumReducers
MapAt(job, m)    == Base(job) + m
ReduceAt(job, i) == Base(job) + NumMappers + i
StopAt(i)        == 2 * NumMappers + 2 * NumReducers + i

MapTask    == [job : Job, kind : {"map"}, i : Mapper]
ReduceTask == [job : Job, kind : {"reduce"}, i : Reducer]
Task       == [job : Job \cup {"none"}, kind : {"map", "reduce", "stop"}, i : Nat]

Handler == [state : {"idle", "busy", "done"}, proc : 0..MaxRuns, task : MapTask \cup ReduceTask,
            pos : Nat \ {0}, seen : [Mapper -> [Word -> Nat]]]

Typed ==
  /\ run \in 0..MaxRuns /\ masterUp \in BOOLEAN /\ finished \in BOOLEAN
  /\ next \in 1..(Len(Tasks) + 1) /\ calling \in BOOLEAN
  /\ process \in [Run -> {"unborn", "runs", "stopping", "gone"}]
  /\ stage \in [Run -> [Worker -> {"new", "registered", "listening"}]]
  /\ lines \in [Job -> [Mapper -> [Word -> Nat]]]
  /\ handler \in [Run -> Handler]

\* No worker registers twice.
RegisteredOnce ==
  /\ conns \in Seq(Run \X Worker)
  /\ \A i \in 1..Len(conns) : stage[conns[i][1]][conns[i][2]] # "new"
  /\ \A i, j \in 1..Len(conns) : conns[i] = conns[j] => i = j

(***************************************************************************)
(* The files only have words that are in the input.  Once a map task is    *)
(* done they have all of them, and keep them: whoever adds to them later,  *)
(* changes nothing for a reducer, which looks at whether a word is there.  *)
(***************************************************************************)
OnlyInput == \A j \in Job, m \in Mapper, w \in Word :
               lines[j][m][w] > 0 => Contains(Input[m], w)

Mapped(j, m)  == \A w \in Word : Contains(Input[m], w) => lines[j][m][w] > 0
Reduced(j, i) == \A w \in Word : Part[w] = i /\ FilesWith(w) # {} =>
                   \E o \in ToSet(out[j]) : w \in DOMAIN o

HandlerMaps(r) ==
  LET h == handler[r]
  IN  h.task.kind = "map" =>
        /\ h.state = "busy" => \A p \in 1..Len(Input[h.task.i]) : p < h.pos =>
             lines[h.task.job][h.task.i][Input[h.task.i][p]] > 0
        /\ h.state = "done" => Mapped(h.task.job, h.task.i)

HandlerReduces(r) ==
  LET h == handler[r]
  IN  h.task.kind = "reduce" =>
        /\ h.state = "busy" =>
             /\ \A m \in Mapper : Mapped(h.task.job, m)
             /\ \A m \in Mapper, w \in Word :
                  h.seen[m][w] > 0 <=> m < h.pos /\ InPart(w, h.task.i) /\ Contains(Input[m], w)
        /\ h.state = "done" => Reduced(h.task.job, h.task.i)

Handlers == \A r \in Run : HandlerMaps(r) /\ HandlerReduces(r)

MasterIsAt ==
  /\ masterUp => run \in Run
  /\ calling => /\ masterUp /\ next <= Len(Tasks)
                /\ handler[run].task = Tasks[next] /\ handler[run].state # "idle"
  /\ finished => ~masterUp /\ next = Len(Tasks) + 1

PhasesAreDone ==
  /\ \A j \in Job, m \in Mapper : MapAt(j, m) < next => Mapped(j, m)
  /\ \A j \in Job, i \in Reducer : ReduceAt(j, i) < next => Reduced(j, i)

\* Every output is a sequence of something.
Outputs == \E S : out \in [Job -> Seq(S)]

MapReduceInv == /\ Typed /\ RegisteredOnce /\ OnlyInput /\ Handlers /\ MasterIsAt /\ PhasesAreDone
                /\ Outputs /\ IndexIsExact

(***************************************************************************)
(* The counts.  Once a map task is done, the files have a line for each    *)
(* place of a word in the input, and more after a repeated run; until then *)
(* they have those for the places it has passed.  A reducer of the job     *)
(* finds at least as many.                                                 *)
(***************************************************************************)
Passed(m, w, n) == Cardinality({p \in 1..Len(Input[m]) : p < n /\ Input[m][p] = w})

Enough(j, m) == \A w \in Word : lines[j][m][w] >= Times(m, w)

MapperCounts(r) ==
  LET h == handler[r]
  IN  h.task.kind = "map" =>
        /\ h.state = "busy" => \A w \in Word :
             lines[h.task.job][h.task.i][w] >= Passed(h.task.i, w, h.pos)
        /\ h.state = "done" => Enough(h.task.job, h.task.i)

ReducerCounts(r) ==
  LET h == handler[r]
  IN  h.task.kind = "reduce" /\ h.state = "busy" =>
        /\ \A m \in Mapper : Enough(h.task.job, m)
        /\ \A m \in Mapper, w \in Word :
             m < h.pos /\ InPart(w, h.task.i) => h.seen[m][w] >= Times(m, w)

EnoughLines ==
  /\ \A j \in Job, m \in Mapper : MapAt(j, m) < next => Enough(j, m)
  /\ \A r \in Run : MapperCounts(r) /\ ReducerCounts(r)

(***************************************************************************)
(* In the first run the files have nothing else: each map task has left    *)
(* as many lines as it has passed places, and is given out only once.      *)
(***************************************************************************)
Place(task) == IF task.kind = "map" THEN MapAt(task.job, task.i) ELSE ReduceAt(task.job, task.i)

AtMap(h, j, m) == h.state # "idle" /\ h.task = [job |-> j, kind |-> "map", i |-> m]

MasterIsFirst ==
  LET h == handler[1]
  IN  /\ run = 0 => ~masterUp /\ next = 1 /\ h.state = "idle"
      /\ \A r \in Run \ {1} : handler[r].state = "idle"
      /\ h.state # "idle" => /\ Place(h.task) <= next
                             /\ masterUp /\ ~calling => Place(h.task) < next
                             /\ Place(h.task) < next => h.state = "done"

ExactLines ==
  LET h == handler[1]
  IN  \A j \in Job, m \in Mapper, w \in Word :
        lines[j][m][w] = IF AtMap(h, j, m) THEN Passed(m, w, h.pos)
                         ELSE IF MapAt(j, m) < next THEN Times(m, w) ELSE 0

ExactTasks ==
  LET h == handler[1]
  IN  /\ h.task.kind = "map" /\ h.state = "done" => h.pos > Len(Input[h.task.i])
      /\ h.task.kind = "reduce" /\ h.state = "busy" => \A m \in Mapper, w \in Word :
           h.seen[m][w] = IF m < h.pos /\ InPart(w, h.task.i) THEN Times(m, w) ELSE 0

FirstRun == run <= 1 => MasterIsFirst /\ ExactLines /\ ExactTasks

OutputCounts == \A o \in ToSet(out["count"]) : \A w \in DOMAIN o :
                  /\ o[w] >= Occurs(w)
                  /\ run <= 1 => o[w] = Occurs(w)

CountsInv == EnoughLines /\ FirstRun /\ OutputCounts

-----------------------------------------------------------------------------
LEMMA Numbers ==
  /\ NumMappers \in Nat \ {0} /\ NumReducers \in Nat \ {0} /\ NumWorkers \in Nat \ {0}
  /\ MaxRuns \in Nat \ {0}
BY MapReduceAssumption DEF NumWorkers

LEMMA CallsType ==
  ASSUME NEW job \in Job \cup {"none"}, NEW kind \in {"map", "reduce", "stop"}, NEW n \in Nat,
         NEW calls, calls = Calls(job, kind, n)
  PROVE  /\ calls \in Seq(Task) /\ Len(calls) = n
         /\ \A i \in 1..n : calls[i] = [job |-> job, kind |-> kind, i |-> i]
<1>1. \A i \in 1..n : [job |-> job, kind |-> kind, i |-> i] \in Task
  BY DEF Task
<1> QED
  BY <1>1 DEF Calls

\* The list of tasks, entry by entry.
LEMMA TasksAt ==
  /\ Len(Tasks) = 2 * NumMappers + 2 * NumReducers + NumWorkers
  /\ \A j \in Job, m \in Mapper : Tasks[MapAt(j, m)] = [job |-> j, kind |-> "map", i |-> m]
  /\ \A j \in Job, i \in Reducer : Tasks[ReduceAt(j, i)] = [job |-> j, kind |-> "reduce", i |-> i]
  /\ \A i \in Worker : Tasks[StopAt(i)] = [job |-> "none", kind |-> "stop", i |-> i]
<1> DEFINE M == NumMappers
           R == NumReducers
           W == NumWorkers
           a == Calls("index", "map", M)
           b == Calls("index", "reduce", R)
           c == Calls("count", "map", M)
           d == Calls("count", "reduce", R)
           e == Calls("none", "stop", W)
<1>0. M \in Nat /\ R \in Nat /\ W \in Nat
  BY Numbers
<1>17. "index" \in Job \cup {"none"} /\ "count" \in Job \cup {"none"} /\ "none" \in Job \cup {"none"}
  BY DEF Job
<1>18. /\ "map" \in {"map", "reduce", "stop"} /\ "reduce" \in {"map", "reduce", "stop"}
       /\ "stop" \in {"map", "reduce", "stop"}
  OBVIOUS
<1> HIDE DEF a, b, c, d, e
<1>1. /\ a \in Seq(Task) /\ Len(a) = M
      /\ \A i \in 1..M : a[i] = [job |-> "index", kind |-> "map", i |-> i]
  BY <1>0, <1>17, <1>18, CallsType DEF a
<1>2. /\ b \in Seq(Task) /\ Len(b) = R
      /\ \A i \in 1..R : b[i] = [job |-> "index", kind |-> "reduce", i |-> i]
  BY <1>0, <1>17, <1>18, CallsType DEF b
<1>3. /\ c \in Seq(Task) /\ Len(c) = M
      /\ \A i \in 1..M : c[i] = [job |-> "count", kind |-> "map", i |-> i]
  BY <1>0, <1>17, <1>18, CallsType DEF c
<1>4. /\ d \in Seq(Task) /\ Len(d) = R
      /\ \A i \in 1..R : d[i] = [job |-> "count", kind |-> "reduce", i |-> i]
  BY <1>0, <1>17, <1>18, CallsType DEF d
<1>15. /\ e \in Seq(Task) /\ Len(e) = W
       /\ \A i \in 1..W : e[i] = [job |-> "none", kind |-> "stop", i |-> i]
  <2>1. \A i \in 1..W : [job |-> "none", kind |-> "stop", i |-> i] \in Task
    BY <1>0 DEF Task
  <2> QED
    BY <1>0, <2>1 DEF Calls, e
<1>19. a \in Seq(Task) /\ b \in Seq(Task) /\ c \in Seq(Task) /\ d \in Seq(Task) /\ e \in Seq(Task)
  BY <1>1, <1>2, <1>3, <1>4, <1>15
<1> DEFINE ab == a \o b
<1>51. /\ ab \in Seq(Task) /\ Len(ab) = Len(a) + Len(b)
       /\ \A i \in 1..Len(a) : ab[i] = a[i]
       /\ \A i \in 1..Len(b) : ab[Len(a) + i] = b[i]
  BY <1>19
<1>52. ab = a \o b
  OBVIOUS
<1> HIDE DEF ab
<1>5. /\ ab \in Seq(Task) /\ Len(ab) = M + R
      /\ \A i \in 1..(M) : ab[i] = a[i]
      /\ \A i \in 1..R : ab[M + i] = b[i]
  BY <1>0, <1>1, <1>2, <1>51
<1> DEFINE abc == ab \o c
<1>61. /\ abc \in Seq(Task) /\ Len(abc) = Len(ab) + Len(c)
       /\ \A i \in 1..Len(ab) : abc[i] = ab[i]
       /\ \A i \in 1..Len(c) : abc[Len(ab) + i] = c[i]
  <2>1. ab \in Seq(Task)
    BY <1>5
  <2> QED
    BY <1>19, <2>1
<1>62. abc = ab \o c
  OBVIOUS
<1> HIDE DEF abc
<1>6. /\ abc \in Seq(Task) /\ Len(abc) = M + R + M
      /\ \A i \in 1..(M + R) : abc[i] = ab[i]
      /\ \A i \in 1..M : abc[M + R + i] = c[i]
  BY <1>0, <1>5, <1>3, <1>61
<1> DEFINE abcd == abc \o d
<1>71. /\ abcd \in Seq(Task) /\ Len(abcd) = Len(abc) + Len(d)
       /\ \A i \in 1..Len(abc) : abcd[i] = abc[i]
       /\ \A i \in 1..Len(d) : abcd[Len(abc) + i] = d[i]
  <2>1. abc \in Seq(Task)
    BY <1>6
  <2> QED
    BY <1>19, <2>1
<1>72. abcd = abc \o d
  OBVIOUS
<1> HIDE DEF abcd
<1>7. /\ abcd \in Seq(Task) /\ Len(abcd) = M + R + M + R
      /\ \A i \in 1..(M + R + M) : abcd[i] = abc[i]
      /\ \A i \in 1..R : abcd[M + R + M + i] = d[i]
  BY <1>0, <1>6, <1>4, <1>71
<1> DEFINE all == abcd \o e
<1>81. /\ all \in Seq(Task) /\ Len(all) = Len(abcd) + Len(e)
       /\ \A i \in 1..Len(abcd) : all[i] = abcd[i]
       /\ \A i \in 1..Len(e) : all[Len(abcd) + i] = e[i]
  <2>1. abcd \in Seq(Task)
    BY <1>7
  <2> QED
    BY <1>19, <2>1
<1>82. all = abcd \o e
  OBVIOUS
<1> HIDE DEF all
<1>8. /\ all \in Seq(Task) /\ Len(all) = M + R + M + R + W
      /\ \A i \in 1..(M + R + M + R) : all[i] = abcd[i]
      /\ \A i \in 1..W : all[M + R + M + R + i] = e[i]
  BY <1>0, <1>7, <1>15, <1>81
<1>16. Tasks = all
  BY <1>52, <1>62, <1>72, <1>82 DEF Tasks, a, b, c, d, e
<1>9. \A m \in Mapper : all[m] = a[m] /\ all[M + R + m] = c[m]
  <2> TAKE m \in Mapper
  <2>1. /\ m \in 1..M /\ m \in 1..(M + R) /\ m \in 1..(M + R + M) /\ m \in 1..(M + R + M + R)
        /\ M + R + m \in 1..(M + R + M) /\ M + R + m \in 1..(M + R + M + R)
    BY <1>0 DEF Mapper
  <2> QED
    BY <1>5, <1>6, <1>7, <1>8, <2>1
<1>10. \A i \in Reducer : all[M + i] = b[i] /\ all[M + R + M + i] = d[i]
  <2> TAKE i \in Reducer
  <2>1. /\ i \in 1..R /\ M + i \in 1..(M + R) /\ M + i \in 1..(M + R + M)
        /\ M + i \in 1..(M + R + M + R) /\ M + R + M + i \in 1..(M + R + M + R)
    BY <1>0 DEF Reducer
  <2> QED
    BY <1>5, <1>6, <1>7, <1>8, <2>1
<1>11. Len(all) = 2 * M + 2 * R + W /\ M + R + M + R = 2 * M + 2 * R
  BY <1>0, <1>8
<1>12. \A j \in Job, m \in Mapper : all[MapAt(j, m)] = [job |-> j, kind |-> "map", i |-> m]
  <2> TAKE j \in Job, m \in Mapper
  <2>1. CASE j = "index"
    <3>1. MapAt(j, m) = m
      BY <2>1 DEF MapAt, Base, Mapper
    <3> QED
      BY <1>1, <1>9, <2>1, <3>1 DEF Mapper
  <2>2. CASE j = "count"
    <3>1. MapAt(j, m) = M + R + m
      BY <2>2 DEF MapAt, Base
    <3> QED
      BY <1>3, <1>9, <2>2, <3>1 DEF Mapper
  <2> QED
    BY <2>1, <2>2 DEF Job
<1>13. \A j \in Job, i \in Reducer : all[ReduceAt(j, i)] = [job |-> j, kind |-> "reduce", i |-> i]
  <2> TAKE j \in Job, i \in Reducer
  <2>1. CASE j = "index"
    <3>1. ReduceAt(j, i) = M + i
      BY <1>0, <2>1 DEF ReduceAt, Base, Reducer
    <3> QED
      BY <1>2, <1>10, <2>1, <3>1 DEF Reducer
  <2>2. CASE j = "count"
    <3>1. ReduceAt(j, i) = M + R + M + i
      BY <2>2 DEF ReduceAt, Base
    <3> QED
      BY <1>4, <1>10, <2>2, <3>1 DEF Reducer
  <2> QED
    BY <2>1, <2>2 DEF Job
<1>14. \A i \in Worker : all[StopAt(i)] = [job |-> "none", kind |-> "stop", i |-> i]
  BY <1>8, <1>11, <1>15 DEF Worker, StopAt
<1> QED
  BY <1>11, <1>16, <1>12, <1>13, <1>14

\* Each task is a map, a reduce or a stop task.
LEMMA TaskCases ==
  ASSUME NEW n \in 1..Len(Tasks)
  PROVE  \/ \E j \in Job, m \in Mapper : n = MapAt(j, m)
         \/ \E j \in Job, i \in Reducer : n = ReduceAt(j, i)
         \/ \E i \in Worker : n = StopAt(i)
<1> DEFINE M == NumMappers
           R == NumReducers
           W == NumWorkers
<1>1. M \in Nat /\ R \in Nat /\ W \in Nat /\ n \in 1..(2 * M + 2 * R + W)
  BY Numbers, TasksAt
<1>2. /\ \A m \in Mapper : MapAt("index", m) = m /\ MapAt("count", m) = M + R + m
      /\ \A i \in Reducer : ReduceAt("index", i) = M + i /\ ReduceAt("count", i) = M + R + M + i
  BY <1>1 DEF MapAt, ReduceAt, Base, Mapper, Reducer
<1>3. CASE n \in 1..M
  BY <1>2, <1>3 DEF Mapper, Job
<1>4. CASE n \in (M + 1)..(M + R)
  <2>1. n - M \in Reducer /\ n = M + (n - M)
    BY <1>1, <1>4 DEF Reducer
  <2> QED
    BY <1>2, <2>1 DEF Job
<1>5. CASE n \in (M + R + 1)..(M + R + M)
  <2>1. n - M - R \in Mapper /\ n = M + R + (n - M - R)
    BY <1>1, <1>5 DEF Mapper
  <2> QED
    BY <1>2, <2>1 DEF Job
<1>6. CASE n \in (M + R + M + 1)..(M + R + M + R)
  <2>1. n - M - R - M \in Reducer /\ n = M + R + M + (n - M - R - M)
    BY <1>1, <1>6 DEF Reducer
  <2> QED
    BY <1>2, <2>1 DEF Job
<1>7. CASE n \in (2 * M + 2 * R + 1)..(2 * M + 2 * R + W)
  <2>1. n - (2 * M + 2 * R) \in Worker /\ n = 2 * M + 2 * R + (n - (2 * M + 2 * R))
    BY <1>1, <1>7 DEF Worker
  <2> QED
    BY <2>1 DEF StopAt
<1> QED
  BY <1>1, <1>3, <1>4, <1>5, <1>6, <1>7

\* The places of the tasks: a job's reduce tasks follow all its map tasks.
LEMMA Places ==
  /\ Len(Tasks) \in Nat \ {0}
  /\ \A j \in Job, m \in Mapper : MapAt(j, m) \in 1..Len(Tasks)
  /\ \A j \in Job, i \in Reducer : ReduceAt(j, i) \in 1..Len(Tasks)
  /\ \A j \in Job, m \in Mapper, i \in Reducer : MapAt(j, m) < ReduceAt(j, i)
<1> DEFINE M == NumMappers
           R == NumReducers
           W == NumWorkers
           n == Len(Tasks)
<1>1. M \in Nat \ {0} /\ R \in Nat \ {0} /\ W \in Nat \ {0} /\ n = 2 * M + 2 * R + W
  BY Numbers, TasksAt
<1>2. /\ \A m \in Mapper : MapAt("index", m) = m /\ MapAt("count", m) = M + R + m
      /\ \A i \in Reducer : ReduceAt("index", i) = M + i /\ ReduceAt("count", i) = M + R + M + i
  BY <1>1 DEF MapAt, ReduceAt, Base, Mapper, Reducer
<1>3. Mapper = 1..M /\ Reducer = 1..R
  BY DEF Mapper, Reducer
<1> HIDE DEF M, R, W, n
<1>4. n \in Nat \ {0}
  BY <1>1
<1>5. \A j \in Job, m \in Mapper : MapAt(j, m) \in 1..n
  BY <1>1, <1>2, <1>3 DEF Job
<1>6. \A j \in Job, i \in Reducer : ReduceAt(j, i) \in 1..n
  BY <1>1, <1>2, <1>3 DEF Job
<1>7. \A j \in Job, m \in Mapper, i \in Reducer : MapAt(j, m) < ReduceAt(j, i)
  BY <1>1, <1>2, <1>3 DEF Job
<1> QED
  BY <1>4, <1>5, <1>6, <1>7 DEF n

LEMMA TaskTypes ==
  /\ \A j \in Job, m \in Mapper : Tasks[MapAt(j, m)] \in MapTask
  /\ \A j \in Job, i \in Reducer : Tasks[ReduceAt(j, i)] \in ReduceTask
<1>1. ASSUME NEW j \in Job, NEW m \in Mapper PROVE Tasks[MapAt(j, m)] \in MapTask
  <2>1. Tasks[MapAt(j, m)] = [job |-> j, kind |-> "map", i |-> m]
    BY TasksAt
  <2> QED
    BY <2>1 DEF MapTask
<1>2. ASSUME NEW j \in Job, NEW i \in Reducer PROVE Tasks[ReduceAt(j, i)] \in ReduceTask
  <2>1. Tasks[ReduceAt(j, i)] = [job |-> j, kind |-> "reduce", i |-> i]
    BY TasksAt
  <2> QED
    BY <2>1 DEF ReduceTask
<1> QED
  BY <1>1, <1>2

LEMMA TaskKinds ==
  /\ \A j \in Job, m \in Mapper : Tasks[MapAt(j, m)].kind = "map" /\ Tasks[MapAt(j, m)].job = j
  /\ \A j \in Job, i \in Reducer :
       Tasks[ReduceAt(j, i)].kind = "reduce" /\ Tasks[ReduceAt(j, i)].job = j
  /\ \A i \in Worker : Tasks[StopAt(i)].kind = "stop"
<1>1. \A j \in Job, m \in Mapper : Tasks[MapAt(j, m)].kind = "map" /\ Tasks[MapAt(j, m)].job = j
  <2> TAKE j \in Job, m \in Mapper
  <2>1. Tasks[MapAt(j, m)] = [job |-> j, kind |-> "map", i |-> m]
    BY TasksAt
  <2> QED
    BY <2>1
<1>2. \A j \in Job, i \in Reducer :
        Tasks[ReduceAt(j, i)].kind = "reduce" /\ Tasks[ReduceAt(j, i)].job = j
  <2> TAKE j \in Job, i \in Reducer
  <2>1. Tasks[ReduceAt(j, i)] = [job |-> j, kind |-> "reduce", i |-> i]
    BY TasksAt
  <2> QED
    BY <2>1
<1>3. \A i \in Worker : Tasks[StopAt(i)].kind = "stop"
  <2> TAKE i \in Worker
  <2>1. Tasks[StopAt(i)] = [job |-> "none", kind |-> "stop", i |-> i]
    BY TasksAt
  <2> QED
    BY <2>1
<1> QED
  BY <1>1, <1>2, <1>3

LEMMA IdleType ==
  /\ Idle \in Handler /\ Idle.state = "idle" /\ Idle.pos = 1
  /\ Idle.seen = [m \in Mapper |-> NoLines]
<1>1. "index" \in Job /\ 1 \in Mapper /\ MapAt("index", 1) = 1
  BY Numbers DEF Job, Mapper, MapAt, Base
<1>2. Tasks[1] \in MapTask
  BY <1>1, TaskTypes
<1>3. [m \in Mapper |-> NoLines] \in [Mapper -> [Word -> Nat]] /\ 0 \in 0..MaxRuns /\ 1 \in Nat \ {0}
  BY Numbers DEF NoLines
<1> HIDE DEF NoLines
<1> QED
  BY <1>2, <1>3 DEF Idle, Handler

-----------------------------------------------------------------------------
\* Nothing is registered, given out, read or written at first.
LEMMA Initially == Init => MapReduceInv
<1> SUFFICES ASSUME Init PROVE MapReduceInv
  OBVIOUS
<1>1. Typed
  <2>1. run \in 0..MaxRuns /\ next \in 1..(Len(Tasks) + 1)
    BY Numbers, Places DEF Init
  <2>2. /\ process \in [Run -> {"unborn", "runs", "stopping", "gone"}]
        /\ stage \in [Run -> [Worker -> {"new", "registered", "listening"}]]
    BY DEF Init
  <2>3. lines \in [Job -> [Mapper -> [Word -> Nat]]]
    BY DEF Init, NoLines
  <2>4. handler \in [Run -> Handler]
    BY IdleType DEF Init
  <2> QED
    BY <2>1, <2>2, <2>3, <2>4 DEF Init, Typed
<1>2. RegisteredOnce
  BY DEF Init, RegisteredOnce
<1>3. OnlyInput
  BY DEF Init, OnlyInput, NoLines
<1>4. Handlers
  BY IdleType DEF Init, Handlers, HandlerMaps, HandlerReduces
<1>5. MasterIsAt
  BY DEF Init, MasterIsAt
<1>6. PhasesAreDone
  BY Places DEF Init, PhasesAreDone
<1>7. Outputs
  <2>1. out \in [Job -> Seq({})]
    BY DEF Init
  <2> QED
    BY <2>1 DEF Outputs
<1>8. IndexIsExact
  <2>1. out["index"] = <<>>
    BY DEF Init, Job
  <2>2. ToSet(<<>>) = {}
    BY DEF ToSet
  <2> QED
    BY <2>1, <2>2 DEF IndexIsExact
<1> QED
  BY <1>1, <1>2, <1>3, <1>4, <1>5, <1>6, <1>7, <1>8 DEF MapReduceInv

-----------------------------------------------------------------------------
(***************************************************************************)
(* What a step keeps that leaves certain variables alone.                  *)
(***************************************************************************)
LEMMA FilesKept ==
  ASSUME OnlyInput, Outputs, IndexIsExact, UNCHANGED fileVars
  PROVE  OnlyInput' /\ Outputs' /\ IndexIsExact'
BY DEF fileVars, OnlyInput, Outputs, IndexIsExact

LEMMA HandlersKept ==
  ASSUME Handlers, UNCHANGED <<handler, fileVars>>
  PROVE  Handlers'
<1>1. \A r \in Run : HandlerMaps(r)' = HandlerMaps(r) /\ HandlerReduces(r)' = HandlerReduces(r)
  BY DEF HandlerMaps, HandlerReduces, Mapped, Reduced, fileVars
<1> QED
  BY <1>1 DEF Handlers

LEMMA PhasesKept ==
  ASSUME PhasesAreDone, UNCHANGED <<next, fileVars>>
  PROVE  PhasesAreDone'
BY DEF PhasesAreDone, Mapped, Reduced, fileVars

LEMMA RegisteredKept ==
  ASSUME RegisteredOnce, UNCHANGED <<conns, stage>>
  PROVE  RegisteredOnce'
BY DEF RegisteredOnce

-----------------------------------------------------------------------------
\* A new run begins at the first task, with nobody registered.
LEMMA RunStarts ==
  ASSUME MapReduceInv, StartRun
  PROVE  MapReduceInv'
<1>1. Typed'
  <2>1. run' \in 0..MaxRuns /\ next' \in 1..(Len(Tasks) + 1)
    BY Numbers, Places DEF MapReduceInv, Typed, StartRun
  <2>2. process' \in [Run -> {"unborn", "runs", "stopping", "gone"}]
    BY DEF MapReduceInv, Typed, StartRun
  <2> QED
    BY <2>1, <2>2 DEF MapReduceInv, Typed, StartRun, fileVars
<1>2. RegisteredOnce'
  BY DEF StartRun, RegisteredOnce
<1>3. Handlers'
  BY HandlersKept DEF MapReduceInv, StartRun
<1>4. MasterIsAt'
  BY Numbers DEF MapReduceInv, Typed, MasterIsAt, StartRun, Run
<1>5. PhasesAreDone'
  BY Places DEF PhasesAreDone, StartRun
<1> QED
  BY <1>1, <1>2, <1>3, <1>4, <1>5, FilesKept DEF MapReduceInv, StartRun

LEMMA WorkerRegisters ==
  ASSUME MapReduceInv, NEW r \in Run, NEW w \in Worker, RegisterWorker(r, w)
  PROVE  MapReduceInv'
<1>0. stage' = [stage EXCEPT ![r][w] = "registered"] /\ stage[r][w] = "new"
  BY DEF RegisterWorker, Unregistered
<1>1. Typed'
  <2>1. stage' \in [Run -> [Worker -> {"new", "registered", "listening"}]]
    BY <1>0 DEF MapReduceInv, Typed
  <2> QED
    BY <2>1 DEF MapReduceInv, Typed, RegisterWorker, fileVars
<1>2. RegisteredOnce'
  <2> DEFINE c == <<r, w>>
             n == Len(conns)
             more == Append(conns, c)
  <2>1. /\ more \in Seq(Run \X Worker) /\ Len(more) = n + 1 /\ n \in Nat /\ more[n + 1] = c
        /\ \A i \in 1..n : more[i] = conns[i]
    BY DEF MapReduceInv, RegisteredOnce
  <2>2. conns' = more /\ c[1] = r /\ c[2] = w
    BY DEF RegisterWorker
  <2>3. /\ \A i \in 1..n : conns[i] \in Run \X Worker /\ stage[conns[i][1]][conns[i][2]] # "new"
        /\ \A i, j \in 1..n : conns[i] = conns[j] => i = j
    BY DEF MapReduceInv, RegisteredOnce
  <2> HIDE DEF c, n, more
  <2>4. \A i \in 1..n : conns[i] # c
    BY <1>0, <2>2, <2>3
  <2>5. \A q \in Run, v \in Worker : stage[q][v] # "new" => stage'[q][v] # "new"
    BY <1>0 DEF MapReduceInv, Typed
  <2>6. stage'[r][w] # "new"
    BY <1>0 DEF MapReduceInv, Typed
  <2>7. \A i \in 1..n : stage'[conns[i][1]][conns[i][2]] # "new"
    BY <2>3, <2>5
  <2>8. \A i \in 1..(n + 1) : stage'[more[i][1]][more[i][2]] # "new"
    <3> TAKE i \in 1..(n + 1)
    <3>1. CASE i = n + 1
      BY <2>1, <2>2, <2>6, <3>1
    <3>2. CASE i # n + 1
      <4>1. i \in 1..n
        BY <2>1, <3>2
      <4> QED
        BY <2>1, <2>7, <4>1
    <3> QED
      BY <3>1, <3>2
  <2>9. \A i, j \in 1..(n + 1) : more[i] = more[j] => i = j
    <3>1. \A i \in 1..(n + 1) : i = n + 1 \/ i \in 1..n
      BY <2>1
    <3> QED
      BY <2>1, <2>3, <2>4, <3>1
  <2> QED
    BY <2>1, <2>2, <2>8, <2>9 DEF RegisteredOnce
<1>3. Handlers' /\ PhasesAreDone'
  BY HandlersKept, PhasesKept DEF MapReduceInv, RegisterWorker
<1>4. MasterIsAt'
  BY DEF MapReduceInv, MasterIsAt, RegisterWorker
<1> QED
  BY <1>1, <1>2, <1>3, <1>4, FilesKept DEF MapReduceInv, RegisterWorker

LEMMA WorkerListens ==
  ASSUME MapReduceInv, NEW r \in Run, NEW w \in Worker, Listen(r, w)
  PROVE  MapReduceInv'
<1>0. /\ stage' = [stage EXCEPT ![r][w] = "listening"] /\ UNCHANGED conns
      /\ \A q \in Run, v \in Worker : stage[q][v] # "new" => stage'[q][v] # "new"
  BY DEF MapReduceInv, Typed, Listen, masterVars
<1>1. Typed'
  <2>1. stage' \in [Run -> [Worker -> {"new", "registered", "listening"}]]
    BY <1>0 DEF MapReduceInv, Typed
  <2> QED
    BY <2>1 DEF MapReduceInv, Typed, Listen, masterVars, fileVars
<1>2. RegisteredOnce'
  <2>1. \A i \in 1..Len(conns) : conns[i] \in Run \X Worker
    BY DEF MapReduceInv, RegisteredOnce
  <2> QED
    BY <1>0, <2>1 DEF MapReduceInv, RegisteredOnce
<1>3. Handlers' /\ PhasesAreDone'
  BY HandlersKept, PhasesKept DEF MapReduceInv, Listen, masterVars
<1>4. MasterIsAt'
  BY DEF MapReduceInv, MasterIsAt, Listen, masterVars
<1> QED
  BY <1>1, <1>2, <1>3, <1>4, FilesKept DEF MapReduceInv, Listen

\* Also when it is told to stop, or finds no master.
LEMMA ProcessEnds ==
  ASSUME MapReduceInv, NEW r \in Run, ProcessDies(r)
  PROVE  MapReduceInv'
<1>1. Typed'
  <2>1. process' \in [Run -> {"unborn", "runs", "stopping", "gone"}]
    BY DEF MapReduceInv, Typed, ProcessDies
  <2> QED
    BY <2>1 DEF MapReduceInv, Typed, ProcessDies, masterVars, fileVars
<1>2. RegisteredOnce'
  BY RegisteredKept DEF MapReduceInv, ProcessDies, masterVars
<1>3. Handlers' /\ PhasesAreDone'
  BY HandlersKept, PhasesKept DEF MapReduceInv, ProcessDies, masterVars
<1>4. MasterIsAt'
  BY DEF MapReduceInv, MasterIsAt, ProcessDies, masterVars
<1> QED
  BY <1>1, <1>2, <1>3, <1>4, FilesKept DEF MapReduceInv, ProcessDies

LEMMA MasterEndsEarly ==
  ASSUME MapReduceInv, MasterDies
  PROVE  MapReduceInv'
<1>1. Typed'
  BY DEF MapReduceInv, Typed, MasterDies, workerVars, fileVars
<1>2. RegisteredOnce'
  BY RegisteredKept DEF MapReduceInv, MasterDies, workerVars
<1>3. Handlers' /\ PhasesAreDone'
  BY HandlersKept, PhasesKept DEF MapReduceInv, MasterDies, workerVars
<1>4. MasterIsAt'
  BY DEF MapReduceInv, MasterIsAt, MasterDies
<1> QED
  BY <1>1, <1>2, <1>3, <1>4, FilesKept DEF MapReduceInv, MasterDies

-----------------------------------------------------------------------------
\* A stop task takes the master on, and completes no map or reduce task.
LEMMA StopCall ==
  ASSUME MapReduceInv, Call, Current.kind = "stop"
  PROVE  MapReduceInv'
<1> DEFINE r == conns[Current.i][1]
<1>0. /\ masterUp /\ ~calling /\ next \in 1..Len(Tasks) /\ next' = next + 1
      /\ process' = [process EXCEPT ![r] = "stopping"]
      /\ UNCHANGED <<run, masterUp, finished, conns, calling, handler, stage, fileVars>>
  BY Places DEF MapReduceInv, Typed, Call, AtCall
<1>1. Typed'
  <2>1. process' \in [Run -> {"unborn", "runs", "stopping", "gone"}]
    BY <1>0 DEF MapReduceInv, Typed
  <2>2. next' \in 1..(Len(Tasks) + 1)
    BY <1>0, Places
  <2> QED
    BY <1>0, <2>1, <2>2 DEF MapReduceInv, Typed, fileVars
<1>2. RegisteredOnce' /\ Handlers'
  BY <1>0, RegisteredKept, HandlersKept DEF MapReduceInv
<1>3. MasterIsAt'
  BY <1>0 DEF MapReduceInv, MasterIsAt
<1>4. PhasesAreDone'
  <2>1. /\ \A j \in Job, m \in Mapper : MapAt(j, m) # next
        /\ \A j \in Job, i \in Reducer : ReduceAt(j, i) # next
    BY TaskKinds DEF Current
  <2>2. \A n \in 1..Len(Tasks) : n < next + 1 /\ n # next => n < next
    BY <1>0, Places
  <2>3. /\ \A j \in Job, m \in Mapper : MapAt(j, m) < next' => MapAt(j, m) < next
        /\ \A j \in Job, i \in Reducer : ReduceAt(j, i) < next' => ReduceAt(j, i) < next
    BY <1>0, <2>1, <2>2, Places
  <2> QED
    BY <1>0, <2>3 DEF MapReduceInv, PhasesAreDone, Mapped, Reduced, fileVars
<1> QED
  BY <1>0, <1>1, <1>2, <1>3, <1>4, FilesKept DEF MapReduceInv

(***************************************************************************)
(* The worker begins from nothing.  When it is given a reduce task the     *)
(* master is past all map tasks of the job, so the files have every word.  *)
(***************************************************************************)
LEMMA WorkCall ==
  ASSUME MapReduceInv, Call, Current.kind # "stop"
  PROVE  MapReduceInv'
<1> DEFINE r == conns[Current.i][1]
           h == [Idle EXCEPT !.state = "busy", !.proc = r, !.task = Current]
<1>0. /\ masterUp /\ ~calling /\ next \in 1..Len(Tasks) /\ Current.i <= Len(conns)
      /\ handler' = [handler EXCEPT ![run] = h] /\ calling' = TRUE
      /\ UNCHANGED <<run, masterUp, finished, next, conns, process, stage, fileVars>>
  BY Places DEF MapReduceInv, Typed, Call, AtCall, Connected
<1>1. run \in Run /\ handler \in [Run -> Handler]
  BY <1>0 DEF MapReduceInv, Typed, MasterIsAt
<1>2. \/ \E j \in Job, m \in Mapper : next = MapAt(j, m)
      \/ \E j \in Job, i \in Reducer : next = ReduceAt(j, i)
  <2>1. \A i \in Worker : next # StopAt(i)
    BY TaskKinds DEF Current
  <2> QED
    BY <1>0, <2>1, TaskCases
<1>3. Current \in MapTask \cup ReduceTask
  BY <1>2, TaskTypes DEF Current
<1>4. r \in 0..MaxRuns
  <2>1. Current.i \in 1..Len(conns)
    BY <1>0, <1>3 DEF MapTask, ReduceTask, Mapper, Reducer
  <2>2. conns[Current.i] \in Run \X Worker
    BY <2>1 DEF MapReduceInv, RegisteredOnce
  <2> QED
    BY <2>2, Numbers DEF Run
<1>5. /\ h \in Handler /\ h.state = "busy" /\ h.task = Current /\ h.pos = 1
      /\ h.seen = [m \in Mapper |-> NoLines]
  <2> HIDE DEF r
  <2> QED
    BY <1>3, <1>4, IdleType DEF Handler
<1> HIDE DEF r, h
<1>6. handler'[run] = h /\ \A q \in Run : q # run => handler'[q] = handler[q]
  BY <1>0, <1>1
<1>7. Typed'
  BY <1>0, <1>1, <1>5 DEF MapReduceInv, Typed, fileVars
<1>8. RegisteredOnce' /\ PhasesAreDone'
  BY <1>0, RegisteredKept, PhasesKept DEF MapReduceInv
<1>9. MasterIsAt'
  BY <1>0, <1>1, <1>5, <1>6 DEF MapReduceInv, MasterIsAt, Current
<1>10. Handlers'
  <2> SUFFICES ASSUME NEW q \in Run PROVE HandlerMaps(q)' /\ HandlerReduces(q)'
    BY DEF Handlers
  <2>1. CASE q # run
    BY <1>0, <1>6, <2>1 DEF MapReduceInv, Handlers, HandlerMaps, HandlerReduces, Mapped, Reduced,
                            fileVars
  <2>2. CASE q = run
    <3>1. HandlerMaps(q)'
      <4>1. ASSUME Current.kind = "map" PROVE Input[Current.i] \in Seq(Word)
        BY <1>3, <4>1, MapReduceAssumption DEF MapTask, ReduceTask
      <4>2. \A p \in 1..Len(Input[Current.i]) : Current.kind = "map" => ~(p < h.pos)
        BY <1>5, <4>1
      <4>3. handler'[q] = h
        BY <1>6, <2>2
      <4> QED
        BY <1>5, <4>2, <4>3 DEF HandlerMaps
    <3>2. ASSUME Current.kind = "reduce", NEW m \in Mapper PROVE Mapped(Current.job, m)
      <4>1. PICK j \in Job, i \in Reducer : next = ReduceAt(j, i)
        BY <1>2, <3>2, TaskKinds DEF Current
      <4>2. Current.job = j
        BY <4>1, TaskKinds DEF Current
      <4>3. MapAt(j, m) < next
        BY <4>1, Places
      <4> QED
        BY <4>2, <4>3 DEF MapReduceInv, PhasesAreDone
    <3>3. \A m \in Mapper, w \in Word : ~(h.seen[m][w] > 0) /\ ~(m < h.pos)
      BY <1>5 DEF NoLines, Mapper
    <3>4. HandlerReduces(q)'
      BY <1>0, <1>5, <1>6, <2>2, <3>2, <3>3 DEF HandlerReduces, Mapped, fileVars
    <3> QED
      BY <3>1, <3>4
  <2> QED
    BY <2>1, <2>2
<1> QED
  BY <1>0, <1>7, <1>8, <1>9, <1>10, FilesKept DEF MapReduceInv

\* The master goes on when the worker is done, with what its task was for.
LEMMA WorkerAnswers ==
  ASSUME MapReduceInv, Returns
  PROVE  MapReduceInv'
<1>0. /\ masterUp /\ calling /\ handler[run].state = "done" /\ next' = next + 1 /\ calling' = FALSE
      /\ UNCHANGED <<run, masterUp, finished, conns, process, stage, handler, fileVars>>
  BY DEF Returns, workerVars
<1>1. run \in Run /\ next \in 1..Len(Tasks) /\ handler[run].task = Tasks[next]
  BY <1>0, Places DEF MapReduceInv, Typed, MasterIsAt
<1>2. Typed'
  <2>1. next' \in 1..(Len(Tasks) + 1)
    BY <1>0, <1>1, Places
  <2> QED
    BY <1>0, <2>1 DEF MapReduceInv, Typed, fileVars
<1>3. RegisteredOnce' /\ Handlers'
  BY <1>0, RegisteredKept, HandlersKept DEF MapReduceInv
<1>4. MasterIsAt'
  BY <1>0 DEF MapReduceInv, MasterIsAt
<1>5. PhasesAreDone'
  <2>0. /\ \A j \in Job, m \in Mapper : Mapped(j, m)' = Mapped(j, m)
        /\ \A j \in Job, i \in Reducer : Reduced(j, i)' = Reduced(j, i)
    BY <1>0 DEF Mapped, Reduced, fileVars
  <2>1. \A n \in 1..Len(Tasks) : n < next' => n < next \/ n = next
    BY <1>0, <1>1, Places
  <2>2. HandlerMaps(run) /\ HandlerReduces(run)
    BY <1>1 DEF MapReduceInv, Handlers
  <2>3. ASSUME NEW j \in Job, NEW m \in Mapper, MapAt(j, m) = next PROVE Mapped(j, m)
    <3>1. handler[run].task = [job |-> j, kind |-> "map", i |-> m]
      BY <1>1, <2>3, TasksAt
    <3> QED
      BY <1>0, <2>2, <3>1 DEF HandlerMaps
  <2>4. ASSUME NEW j \in Job, NEW i \in Reducer, ReduceAt(j, i) = next PROVE Reduced(j, i)
    <3>1. handler[run].task = [job |-> j, kind |-> "reduce", i |-> i]
      BY <1>1, <2>4, TasksAt
    <3> QED
      BY <1>0, <2>2, <3>1 DEF HandlerReduces
  <2>5. ASSUME NEW j \in Job, NEW m \in Mapper, MapAt(j, m) < next' PROVE Mapped(j, m)'
    BY <2>0, <2>1, <2>3, <2>5, Places DEF MapReduceInv, PhasesAreDone
  <2>6. ASSUME NEW j \in Job, NEW i \in Reducer, ReduceAt(j, i) < next' PROVE Reduced(j, i)'
    BY <2>0, <2>1, <2>4, <2>6, Places DEF MapReduceInv, PhasesAreDone
  <2> QED
    BY <2>5, <2>6 DEF PhasesAreDone
<1> QED
  BY <1>0, <1>2, <1>3, <1>4, <1>5, FilesKept DEF MapReduceInv

LEMMA MasterFinishes ==
  ASSUME MapReduceInv, Finish
  PROVE  MapReduceInv'
<1>1. Typed'
  BY DEF MapReduceInv, Typed, Finish, workerVars, fileVars
<1>2. RegisteredOnce' /\ Handlers' /\ PhasesAreDone'
  BY RegisteredKept, HandlersKept, PhasesKept DEF MapReduceInv, Finish, workerVars
<1>3. MasterIsAt'
  BY Places DEF MapReduceInv, Typed, MasterIsAt, Finish
<1> QED
  BY <1>1, <1>2, <1>3, FilesKept DEF MapReduceInv, Finish

-----------------------------------------------------------------------------
\* A worker takes one step in its task.
LEMMA HandlerSteps ==
  ASSUME NEW h \in Handler
  PROVE  LET g == [h EXCEPT !.pos = @ + 1]
         IN  /\ g \in Handler /\ g.pos = h.pos + 1
             /\ g.state = h.state /\ g.task = h.task /\ g.seen = h.seen
BY DEF Handler

\* One more line for one word of one file.
LEMMA OneMoreLine ==
  ASSUME NEW f \in [Job -> [Mapper -> [Word -> Nat]]], NEW j \in Job, NEW m \in Mapper,
         NEW x \in Word, NEW g, g = [f EXCEPT ![j][m][x] = @ + 1]
  PROVE  /\ g \in [Job -> [Mapper -> [Word -> Nat]]]
         /\ f[j][m][x] \in Nat /\ g[j][m][x] = f[j][m][x] + 1
         /\ \A k \in Job, n \in Mapper, w \in Word :
              ~(k = j /\ n = m /\ w = x) => g[k][n][w] = f[k][n][w]
<1>1. f[j][m][x] \in Nat /\ f[j][m] \in [Word -> Nat]
  OBVIOUS
<1> DEFINE row == [f[j][m] EXCEPT ![x] = @ + 1]
<1>2. /\ row \in [Word -> Nat] /\ row[x] = f[j][m][x] + 1
      /\ \A w \in Word : w # x => row[w] = f[j][m][w]
  BY <1>1
<1>3. g = [f EXCEPT ![j] = [f[j] EXCEPT ![m] = row]]
  OBVIOUS
<1> HIDE DEF row
<1>4. /\ g \in [Job -> [Mapper -> [Word -> Nat]]] /\ g[j][m] = row
      /\ \A k \in Job, n \in Mapper : g[k][n] = f[k][n] \/ (k = j /\ n = m)
  BY <1>2, <1>3
<1> QED
  BY <1>1, <1>2, <1>4

\* The job, the file and the word a mapper is at.
JobOf(r)  == handler[r].task.job
FileOf(r) == handler[r].task.i
WordAt(r) == Input[handler[r].task.i][handler[r].pos]

\* A mapper appends one line, with the next word of its input.
LEMMA OneLine ==
  ASSUME MapReduceInv, NEW r \in Run, MapWord(r)
  PROVE  /\ handler[r].state = "busy" /\ handler[r].task.kind = "map"
         /\ handler[r].pos \in 1..Len(Input[FileOf(r)]) /\ handler[r].pos \in Nat \ {0}
         /\ JobOf(r) \in Job /\ FileOf(r) \in Mapper /\ Input[FileOf(r)] \in Seq(Word)
         /\ WordAt(r) \in Word /\ Contains(Input[FileOf(r)], WordAt(r))
         /\ handler' \in [Run -> Handler]
         /\ \A q \in Run : /\ handler'[q].state = handler[q].state
                           /\ handler'[q].task = handler[q].task
                           /\ handler'[q].seen = handler[q].seen
         /\ handler'[r].pos = handler[r].pos + 1
         /\ \A q \in Run : q # r => handler'[q] = handler[q]
         /\ lines' \in [Job -> [Mapper -> [Word -> Nat]]]
         /\ lines[JobOf(r)][FileOf(r)][WordAt(r)] \in Nat
         /\ lines'[JobOf(r)][FileOf(r)][WordAt(r)] = lines[JobOf(r)][FileOf(r)][WordAt(r)] + 1
         /\ \A k \in Job, n \in Mapper, w \in Word :
              ~(k = JobOf(r) /\ n = FileOf(r) /\ w = WordAt(r)) => lines'[k][n][w] = lines[k][n][w]
         /\ UNCHANGED <<run, masterUp, finished, next, calling, conns, process, stage, out>>
<1> DEFINE h == handler[r]
           j == JobOf(r)
           m == FileOf(r)
           x == WordAt(r)
<1>0. /\ h.state = "busy" /\ h.task.kind = "map" /\ h.pos <= Len(Input[m])
      /\ lines' = [lines EXCEPT ![j][m][x] = @ + 1]
      /\ UNCHANGED <<run, masterUp, finished, next, calling, conns, process, stage, out>>
  BY DEF MapWord, Busy, Step, masterVars, JobOf, FileOf, WordAt
<1>00. handler' = [handler EXCEPT ![r].pos = @ + 1]
  BY DEF MapWord, Step
<1>1. /\ handler \in [Run -> Handler] /\ h \in Handler
      /\ lines \in [Job -> [Mapper -> [Word -> Nat]]]
  BY DEF MapReduceInv, Typed
<1>2. j \in Job /\ m \in Mapper /\ h.pos \in Nat \ {0}
  BY <1>0, <1>1 DEF Handler, MapTask, ReduceTask, JobOf, FileOf
<1>3. Input[m] \in Seq(Word) /\ x = Input[m][h.pos]
  BY <1>2, MapReduceAssumption DEF WordAt, FileOf
<1>4. x \in Word /\ h.pos \in 1..Len(Input[m]) /\ Contains(Input[m], x)
  <2>1. ASSUME NEW s \in Seq(Word), NEW p \in Nat \ {0}, p <= Len(s)
        PROVE  s[p] \in Word /\ p \in 1..Len(s) /\ Contains(s, s[p])
    BY <2>1 DEF Contains
  <2> HIDE DEF h, m, x
  <2> QED
    BY <1>0, <1>2, <1>3, <2>1
<1>5. /\ handler' \in [Run -> Handler]
      /\ \A q \in Run : handler'[q].state = handler[q].state /\ handler'[q].task = handler[q].task
      /\ \A q \in Run : handler'[q].seen = handler[q].seen
      /\ handler'[r].pos = h.pos + 1 /\ \A q \in Run : q # r => handler'[q] = handler[q]
  <2> DEFINE g == [h EXCEPT !.pos = @ + 1]
  <2>1. handler'[r] = g
    BY <1>00, <1>1
  <2>2. g \in Handler /\ g.pos = h.pos + 1 /\ g.state = h.state /\ g.task = h.task /\ g.seen = h.seen
    BY <1>1, HandlerSteps
  <2> HIDE DEF g
  <2>3. \A q \in Run : q # r => handler'[q] = handler[q]
    BY <1>00, <1>1
  <2>4. handler' \in [Run -> Handler]
    <3>1. handler' = [q \in Run |-> handler'[q]]
      BY <1>00, <1>1
    <3> QED
      BY <1>1, <2>1, <2>2, <2>3, <3>1
  <2> QED
    BY <2>1, <2>2, <2>3, <2>4
<1>6. /\ lines' \in [Job -> [Mapper -> [Word -> Nat]]]
      /\ lines[j][m][x] \in Nat /\ lines'[j][m][x] = lines[j][m][x] + 1
      /\ \A k \in Job, n \in Mapper, w \in Word :
           ~(k = j /\ n = m /\ w = x) => lines'[k][n][w] = lines[k][n][w]
  BY <1>0, <1>1, <1>2, <1>4, OneMoreLine
<1> QED
  BY <1>0, <1>2, <1>3, <1>4, <1>5, <1>6

\* A line more in the files is a line of the input, and takes none away.
LEMMA WordIsMapped ==
  ASSUME MapReduceInv, NEW r \in Run, MapWord(r)
  PROVE  MapReduceInv'
<1> DEFINE h == handler[r]
           j == JobOf(r)
           m == FileOf(r)
           x == WordAt(r)
<1>0. /\ h.state = "busy" /\ h.task.kind = "map" /\ h.pos \in 1..Len(Input[m])
      /\ UNCHANGED <<run, masterUp, finished, next, calling, conns, process, stage, out>>
  BY OneLine
<1>1. /\ handler \in [Run -> Handler] /\ h \in Handler
      /\ lines \in [Job -> [Mapper -> [Word -> Nat]]]
  BY DEF MapReduceInv, Typed
<1>2. j \in Job /\ m \in Mapper /\ h.pos \in Nat \ {0}
  BY OneLine
<1>3. Input[m] \in Seq(Word)
  BY OneLine
<1>4. x \in Word /\ Contains(Input[m], x)
  BY OneLine
<1>5. /\ handler' \in [Run -> Handler]
      /\ \A q \in Run : handler'[q].state = handler[q].state /\ handler'[q].task = handler[q].task
      /\ \A q \in Run : handler'[q].seen = handler[q].seen
      /\ handler'[r].pos = h.pos + 1 /\ \A q \in Run : q # r => handler'[q] = handler[q]
  BY OneLine
<1>6. /\ lines' \in [Job -> [Mapper -> [Word -> Nat]]]
      /\ lines'[j][m][x] > 0
      /\ \A k \in Job, n \in Mapper, w \in Word :
           lines'[k][n][w] = lines[k][n][w] \/ (k = j /\ n = m /\ w = x)
  BY OneLine
<1> HIDE DEF h, j, m, x
<1>7. \A k \in Job, n \in Mapper, w \in Word : lines[k][n][w] > 0 => lines'[k][n][w] > 0
  BY <1>6
<1>8. \A k \in Job, n \in Mapper : Mapped(k, n) => Mapped(k, n)'
  BY <1>7 DEF Mapped
<1>9. \A k \in Job, i \in Reducer : Reduced(k, i)' = Reduced(k, i)
  BY <1>0 DEF Reduced
<1>10. Typed'
  BY <1>0, <1>5, <1>6 DEF MapReduceInv, Typed
<1>11. RegisteredOnce'
  BY <1>0, RegisteredKept DEF MapReduceInv
<1>12. OnlyInput'
  <2>1. ASSUME NEW k \in Job, NEW n \in Mapper, NEW w \in Word, lines'[k][n][w] > 0
        PROVE  Contains(Input[n], w)
    <3>1. CASE lines'[k][n][w] = lines[k][n][w]
      BY <2>1, <3>1 DEF MapReduceInv, OnlyInput
    <3>2. CASE k = j /\ n = m /\ w = x
      BY <1>4, <3>2
    <3> QED
      BY <1>6, <3>1, <3>2
  <2> QED
    BY <2>1 DEF OnlyInput
<1>13. MasterIsAt'
  BY <1>0, <1>5 DEF MapReduceInv, MasterIsAt
<1>14. PhasesAreDone'
  BY <1>0, <1>8, <1>9 DEF MapReduceInv, PhasesAreDone
<1>15. Outputs' /\ IndexIsExact'
  BY <1>0 DEF MapReduceInv, Outputs, IndexIsExact
<1>16. ASSUME NEW q \in Run PROVE HandlerMaps(q)'
  <2>0. HandlerMaps(q)
    BY DEF MapReduceInv, Handlers
  <2>1. ASSUME handler[q].task.kind = "map"
        PROVE  /\ handler[q].task.job \in Job /\ handler[q].task.i \in Mapper
               /\ Input[handler[q].task.i] \in Seq(Word)
    BY <1>1, <2>1, MapReduceAssumption DEF Handler, MapTask, ReduceTask
  <2>2. CASE q # r
    <3>1. handler'[q] = handler[q]
      BY <1>5, <2>2
    <3> DEFINE k == handler[q].task.job
               n == handler[q].task.i
    <3>2. ASSUME handler[q].task.kind = "map", handler[q].state = "busy",
                 NEW p \in 1..Len(Input[n]), p < handler[q].pos
          PROVE  lines'[k][n][Input[n][p]] > 0
      <4>1. lines[k][n][Input[n][p]] > 0
        BY <2>0, <3>2 DEF HandlerMaps
      <4>2. k \in Job /\ n \in Mapper /\ Input[n][p] \in Word
        BY <2>1, <3>2
      <4> HIDE DEF k, n
      <4> QED
        BY <1>7, <4>1, <4>2
    <3>3. ASSUME handler[q].task.kind = "map", handler[q].state = "done"
          PROVE  Mapped(k, n)'
      <4>1. Mapped(k, n) /\ k \in Job /\ n \in Mapper
        BY <2>0, <2>1, <3>3 DEF HandlerMaps
      <4> QED
        BY <1>5, <1>8, <2>2, <3>1, <4>1 DEF Mapped
    <3> QED
      BY <3>1, <3>2, <3>3 DEF HandlerMaps
  <2>3. CASE q = r
    <3>1. \A p \in 1..Len(Input[m]) : p < h.pos + 1 => p < h.pos \/ p = h.pos
      BY <1>2, <1>3
    <3>2. \A p \in 1..Len(Input[m]) : p < h.pos => lines[j][m][Input[m][p]] > 0
      BY <1>0, <2>0, <2>3 DEF HandlerMaps, h, j, m, JobOf, FileOf
    <3>3. \A p \in 1..Len(Input[m]) : p < h.pos + 1 => lines'[j][m][Input[m][p]] > 0
      <4> TAKE p \in 1..Len(Input[m])
      <4> HAVE p < h.pos + 1
      <4>1. Input[m][p] \in Word
        BY <1>3
      <4>2. CASE p < h.pos
        BY <1>2, <1>7, <3>2, <4>1, <4>2
      <4>3. CASE p = h.pos
        BY <1>6, <4>3 DEF x, h, m, WordAt, FileOf
      <4> QED
        BY <3>1, <4>2, <4>3
    <3>4. /\ handler'[q].task.job = j /\ handler'[q].task.i = m /\ handler'[q].pos = h.pos + 1
          /\ handler'[q].state = "busy"
      BY <1>0, <1>5, <2>3 DEF h, j, m, JobOf, FileOf
    <3> QED
      BY <3>3, <3>4 DEF HandlerMaps
  <2> QED
    BY <2>2, <2>3
<1>17. ASSUME NEW q \in Run PROVE HandlerReduces(q)'
  <2>0. HandlerReduces(q)
    BY DEF MapReduceInv, Handlers
  <2>1. CASE handler[q].task.kind = "reduce"
    <3>1. handler[q].task.job \in Job /\ handler[q].task.i \in Reducer
      BY <1>1, <2>1 DEF Handler, MapTask, ReduceTask
    <3>2. q # r
      BY <1>0, <2>1 DEF h
    <3>3. handler'[q] = handler[q]
      BY <1>5, <3>2
    <3> QED
      BY <1>8, <1>9, <2>0, <2>1, <3>1, <3>3 DEF HandlerReduces
  <2>2. CASE handler[q].task.kind # "reduce"
    BY <1>5, <2>2 DEF HandlerReduces
  <2> QED
    BY <2>1, <2>2
<1> QED
  BY <1>10, <1>11, <1>12, <1>13, <1>14, <1>15, <1>16, <1>17 DEF MapReduceInv, Handlers

\* At the end of the input all its words are in the files.
LEMMA MapIsDone ==
  ASSUME MapReduceInv, NEW r \in Run, MapDone(r)
  PROVE  MapReduceInv'
<1> DEFINE h == handler[r]
           j == h.task.job
           m == h.task.i
<1>0. /\ h.state = "busy" /\ h.task.kind = "map" /\ h.pos > Len(Input[m])
      /\ handler' = [handler EXCEPT ![r].state = "done"]
      /\ UNCHANGED <<run, masterUp, finished, next, calling, conns, process, stage, fileVars>>
  BY DEF MapDone, Busy, Done, masterVars
<1>1. handler \in [Run -> Handler] /\ h \in Handler
  BY DEF MapReduceInv, Typed
<1>2. j \in Job /\ m \in Mapper /\ h.pos \in Nat \ {0} /\ Input[m] \in Seq(Word)
  BY <1>0, <1>1, MapReduceAssumption DEF Handler, MapTask, ReduceTask
<1>3. /\ handler' \in [Run -> Handler]
      /\ \A q \in Run : handler'[q].task = handler[q].task
      /\ handler'[r].state = "done" /\ \A q \in Run : q # r => handler'[q] = handler[q]
  BY <1>0, <1>1, <1>2 DEF Handler
<1>4. Mapped(j, m)
  <2>1. \A p \in 1..Len(Input[m]) : p < h.pos => lines[j][m][Input[m][p]] > 0
    BY <1>0 DEF MapReduceInv, Handlers, HandlerMaps
  <2>2. \A p \in 1..Len(Input[m]) : p < h.pos
    BY <1>0, <1>2
  <2> QED
    BY <2>1, <2>2 DEF Mapped, Contains
<1>5. ASSUME NEW q \in Run PROVE HandlerMaps(q)' /\ HandlerReduces(q)'
  <2>0. HandlerMaps(q) /\ HandlerReduces(q)
    BY DEF MapReduceInv, Handlers
  <2>1. CASE q # r
    BY <1>0, <1>3, <2>0, <2>1 DEF HandlerMaps, HandlerReduces, Mapped, Reduced, fileVars
  <2>2. CASE q = r
    <3>1. handler'[q].task = h.task /\ handler'[q].state = "done"
      BY <1>3, <2>2
    <3>2. \A w \in Word : Contains(Input[m], w) => lines'[j][m][w] > 0
      BY <1>0, <1>4 DEF Mapped, fileVars
    <3> QED
      BY <1>0, <3>1, <3>2 DEF HandlerMaps, HandlerReduces, Mapped
  <2> QED
    BY <2>1, <2>2
<1>6. Typed'
  BY <1>0, <1>3 DEF MapReduceInv, Typed, fileVars
<1>7. RegisteredOnce' /\ PhasesAreDone'
  BY <1>0, RegisteredKept, PhasesKept DEF MapReduceInv
<1>8. MasterIsAt'
  BY <1>0, <1>3 DEF MapReduceInv, MasterIsAt
<1> QED
  BY <1>0, <1>5, <1>6, <1>7, <1>8, FilesKept DEF MapReduceInv, Handlers

\* A reducer reads the file of one mapper, and takes the words of its part.
LEMMA OneFile ==
  ASSUME MapReduceInv, NEW r \in Run, ReduceRead(r)
  PROVE  /\ handler[r].state = "busy" /\ handler[r].task.kind = "reduce"
         /\ JobOf(r) \in Job /\ FileOf(r) \in Reducer /\ handler[r].pos \in Mapper
         /\ handler' \in [Run -> Handler]
         /\ handler'[r].state = "busy" /\ handler'[r].task = handler[r].task
         /\ handler'[r].pos = handler[r].pos + 1
         /\ \A m \in Mapper, w \in Word :
              handler'[r].seen[m][w] = IF m # handler[r].pos THEN handler[r].seen[m][w]
                                       ELSE IF InPart(w, FileOf(r)) THEN lines[JobOf(r)][m][w] ELSE 0
         /\ \A q \in Run : q # r => handler'[q] = handler[q]
         /\ UNCHANGED <<run, masterUp, finished, next, calling, conns, process, stage, fileVars>>
<1> DEFINE h == handler[r]
           j == JobOf(r)
           i == FileOf(r)
           k == h.pos
           read == [w \in Word |-> IF InPart(w, i) THEN lines[j][k][w] ELSE 0]
           more == [h.seen EXCEPT ![k] = read]
           g == handler'[r]
<1>0. /\ h.state = "busy" /\ h.task.kind = "reduce" /\ k <= NumMappers
      /\ UNCHANGED <<run, masterUp, finished, next, calling, conns, process, stage, fileVars>>
  BY DEF ReduceRead, Busy, masterVars
<1>1. handler' = [handler EXCEPT ![r].pos = @ + 1, ![r].seen = more]
  BY DEF ReduceRead, Collect, JobOf, FileOf
<1>2. handler \in [Run -> Handler] /\ h \in Handler /\ lines \in [Job -> [Mapper -> [Word -> Nat]]]
  BY DEF MapReduceInv, Typed
<1>3. j \in Job /\ i \in Reducer /\ k \in Mapper /\ h.seen \in [Mapper -> [Word -> Nat]]
  BY <1>0, <1>2 DEF Handler, MapTask, ReduceTask, Mapper, JobOf, FileOf
<1>4. read \in [Word -> Nat] /\ more \in [Mapper -> [Word -> Nat]]
  <2>1. lines[j][k] \in [Word -> Nat]
    BY <1>2, <1>3
  <2>2. read \in [Word -> Nat]
    BY <2>1
  <2> HIDE DEF read
  <2> QED
    BY <1>3, <2>2
<1>5. \A m \in Mapper, w \in Word :
        more[m][w] = IF m # k THEN h.seen[m][w] ELSE IF InPart(w, i) THEN lines[j][m][w] ELSE 0
  BY <1>3
<1> HIDE DEF read, more
<1>6. g = [[h EXCEPT !.pos = @ + 1] EXCEPT !.seen = more] /\ \A q \in Run : q # r => handler'[q] = handler[q]
  BY <1>1, <1>2
<1>7. g \in Handler /\ g.pos = k + 1 /\ g.state = h.state /\ g.task = h.task /\ g.seen = more
  <2> DEFINE f == [h EXCEPT !.pos = @ + 1]
  <2>1. f \in Handler /\ f.pos = k + 1 /\ f.state = h.state /\ f.task = h.task
    BY <1>2, HandlerSteps
  <2>2. g = [f EXCEPT !.seen = more]
    BY <1>6
  <2> HIDE DEF f, g
  <2> QED
    BY <1>4, <2>1, <2>2 DEF Handler
<1>8. handler' \in [Run -> Handler]
  <2>1. handler' = [q \in Run |-> handler'[q]]
    BY <1>1, <1>2
  <2> HIDE DEF g, h
  <2> QED
    BY <1>2, <1>6, <1>7, <2>1 DEF g
<1> HIDE DEF j, i
<1> QED
  BY <1>0, <1>3, <1>5, <1>6, <1>7, <1>8 DEF j, i

(***************************************************************************)
(* It finds exactly the words of that mapper's input that are in its part: *)
(* all of them were mapped, and no others are in the files.                *)
(***************************************************************************)
LEMMA FileIsRead ==
  ASSUME MapReduceInv, NEW r \in Run, ReduceRead(r)
  PROVE  MapReduceInv'
<1> DEFINE h == handler[r]
           j == JobOf(r)
           i == FileOf(r)
           k == h.pos
           g == handler'[r]
           more == g.seen
<1>0. /\ h.state = "busy" /\ h.task.kind = "reduce"
      /\ UNCHANGED <<run, masterUp, finished, next, calling, conns, process, stage, fileVars>>
  BY OneFile
<1>3. j \in Job /\ i \in Reducer /\ k \in Mapper
  BY OneFile
<1>4. \A m \in Mapper, w \in Word :
        more[m][w] = IF m # k THEN h.seen[m][w] ELSE IF InPart(w, i) THEN lines[j][m][w] ELSE 0
  BY OneFile
<1>5. \A q \in Run : q # r => handler'[q] = handler[q]
  BY OneFile
<1>6. g.pos = k + 1 /\ g.state = h.state /\ g.task = h.task
  BY OneFile
<1>7. handler' \in [Run -> Handler]
  BY OneFile
<1>71. h.task.job = j /\ h.task.i = i
  BY DEF JobOf, FileOf
<1> HIDE DEF h, j, i, k, g, more
<1>8. \A m \in Mapper, w \in Word :
        more[m][w] > 0 <=> m < k + 1 /\ InPart(w, i) /\ Contains(Input[m], w)
  <2>0. /\ \A m \in Mapper : Mapped(j, m)
        /\ \A m \in Mapper, w \in Word :
             h.seen[m][w] > 0 <=> m < k /\ InPart(w, i) /\ Contains(Input[m], w)
    BY <1>0, <1>71 DEF MapReduceInv, Handlers, HandlerReduces, h, k
  <2> TAKE m \in Mapper, w \in Word
  <2>1. CASE m = k
    <3>1. more[m][w] = IF InPart(w, i) THEN lines[j][k][w] ELSE 0
      BY <1>3, <1>4, <2>1
    <3>2. lines[j][k][w] > 0 <=> Contains(Input[k], w)
      BY <1>3, <2>0 DEF MapReduceInv, OnlyInput, Mapped
    <3>3. m < k + 1
      BY <1>3, <2>1 DEF Mapper
    <3> QED
      BY <2>1, <3>1, <3>2, <3>3
  <2>2. CASE m # k
    <3>1. more[m][w] = h.seen[m][w]
      BY <1>4, <2>2
    <3>2. m < k + 1 <=> m < k
      BY <1>3, <2>2 DEF Mapper
    <3> QED
      BY <2>0, <3>1, <3>2
  <2> QED
    BY <2>1, <2>2
<1>9. ASSUME NEW q \in Run PROVE HandlerMaps(q)' /\ HandlerReduces(q)'
  <2>0. HandlerMaps(q) /\ HandlerReduces(q)
    BY DEF MapReduceInv, Handlers
  <2>1. CASE q # r
    BY <1>0, <1>5, <2>0, <2>1 DEF HandlerMaps, HandlerReduces, Mapped, Reduced, fileVars
  <2>2. CASE q = r
    <3>1. /\ handler'[q].task = h.task /\ handler'[q].state = "busy" /\ handler'[q].pos = k + 1
          /\ handler'[q].seen = more
      BY <1>0, <1>6, <2>2 DEF g, more
    <3>2. \A m \in Mapper, w \in Word : Contains(Input[m], w) => lines'[j][m][w] > 0
      BY <1>0, <1>71, <2>0, <2>2 DEF HandlerReduces, Mapped, fileVars, h
    <3>3. HandlerMaps(q)'
      BY <1>0, <3>1 DEF HandlerMaps
    <3>4. HandlerReduces(q)'
      BY <1>8, <1>71, <3>1, <3>2 DEF HandlerReduces, Mapped
    <3> QED
      BY <3>3, <3>4
  <2> QED
    BY <2>1, <2>2
<1>10. Typed'
  BY <1>0, <1>7 DEF MapReduceInv, Typed, fileVars
<1>11. RegisteredOnce' /\ PhasesAreDone'
  BY <1>0, RegisteredKept, PhasesKept DEF MapReduceInv
<1>12. MasterIsAt'
  <2>1. \A q \in Run : handler'[q].task = handler[q].task /\ handler'[q].state = handler[q].state
    BY <1>5, <1>6 DEF g, h
  <2> QED
    BY <1>0, <2>1 DEF MapReduceInv, MasterIsAt
<1> QED
  BY <1>0, <1>9, <1>10, <1>11, <1>12, FilesKept DEF MapReduceInv, Handlers

\* What a reducer writes: the words it found, each with its files or its count.
Found(r)  == {w \in Word : FilesOf(handler[r].seen, w) # {}}
Output(r) == [w \in Found(r) |-> IF JobOf(r) = "index" THEN FilesOf(handler[r].seen, w)
                                                       ELSE CountOf(handler[r].seen, w)]

LEMMA OneOutput ==
  ASSUME MapReduceInv, NEW r \in Run, ReduceWrite(r)
  PROVE  /\ handler[r].state = "busy" /\ handler[r].task.kind = "reduce"
         /\ JobOf(r) \in Job /\ FileOf(r) \in Reducer
         /\ handler[r].pos \in Nat \ {0} /\ handler[r].pos > NumMappers
         /\ handler' \in [Run -> Handler]
         /\ \A q \in Run : handler'[q].task = handler[q].task
         /\ handler'[r].state = "done" /\ \A q \in Run : q # r => handler'[q] = handler[q]
         /\ Outputs'
         /\ ToSet(out'[JobOf(r)]) = ToSet(out[JobOf(r)]) \cup {Output(r)}
         /\ \A k \in Job : /\ k # JobOf(r) => out'[k] = out[k]
                           /\ ToSet(out[k]) \subseteq ToSet(out'[k])
         /\ UNCHANGED <<run, masterUp, finished, next, calling, conns, process, stage, lines>>
<1> DEFINE h == handler[r]
           j == JobOf(r)
           i == FileOf(r)
           o == Output(r)
<1>0. /\ h.state = "busy" /\ h.task.kind = "reduce" /\ h.pos > NumMappers
      /\ handler' = [handler EXCEPT ![r].state = "done"]
      /\ out' = [out EXCEPT ![j] = Append(@, o)]
      /\ UNCHANGED <<run, masterUp, finished, next, calling, conns, process, stage, lines>>
  BY DEF ReduceWrite, Busy, Done, masterVars, Output, Found, JobOf
<1>1. handler \in [Run -> Handler] /\ h \in Handler
  BY DEF MapReduceInv, Typed
<1>2. j \in Job /\ i \in Reducer /\ h.pos \in Nat \ {0}
  BY <1>0, <1>1 DEF Handler, MapTask, ReduceTask, JobOf, FileOf
<1>3. /\ handler' \in [Run -> Handler]
      /\ \A q \in Run : handler'[q].task = handler[q].task
      /\ handler'[r].state = "done" /\ \A q \in Run : q # r => handler'[q] = handler[q]
  BY <1>0, <1>1 DEF Handler
<1>4. PICK S : out \in [Job -> Seq(S)]
  BY DEF MapReduceInv, Outputs
<1> DEFINE T == S \cup {o}
<1> HIDE DEF h, o, i, j
<1>5. out \in [Job -> Seq(T)] /\ o \in T
  BY <1>4, SeqOfMore
<1>6. /\ out' \in [Job -> Seq(T)]
      /\ out'[j] = Append(out[j], o) /\ \A k \in Job : k # j => out'[k] = out[k]
  BY <1>0, <1>2, <1>5
<1>7. /\ ToSet(out'[j]) = ToSet(out[j]) \cup {o}
      /\ \A k \in Job : ToSet(out[k]) \subseteq ToSet(out'[k])
  <2>1. ToSet(Append(out[j], o)) = ToSet(out[j]) \cup {o}
    BY <1>2, <1>5, ElementsOfSeq
  <2> QED
    BY <1>2, <1>6, <2>1
<1>8. Outputs'
  BY <1>6 DEF Outputs
<1> QED
  BY <1>0, <1>2, <1>3, <1>6, <1>7, <1>8 DEF h, o, i, j

(***************************************************************************)
(* Having read all files, a reducer of the index writes each word of its   *)
(* part with the files it is in.                                           *)
(***************************************************************************)
LEMMA OutputIsWritten ==
  ASSUME MapReduceInv, NEW r \in Run, ReduceWrite(r)
  PROVE  MapReduceInv'
<1> DEFINE h == handler[r]
           j == JobOf(r)
           i == FileOf(r)
           o == Output(r)
<1>0. /\ h.state = "busy" /\ h.task.kind = "reduce"
      /\ UNCHANGED <<run, masterUp, finished, next, calling, conns, process, stage, lines>>
  BY OneOutput
<1>1. handler \in [Run -> Handler] /\ h \in Handler
  BY DEF MapReduceInv, Typed
<1>2. j \in Job /\ i \in Reducer /\ h.pos \in Nat \ {0} /\ h.pos > NumMappers
  BY OneOutput
<1>3. /\ handler' \in [Run -> Handler]
      /\ \A q \in Run : handler'[q].task = handler[q].task
      /\ handler'[r].state = "done" /\ \A q \in Run : q # r => handler'[q] = handler[q]
  BY OneOutput
<1>4. h.task.job = j /\ h.task.i = i
  BY DEF JobOf, FileOf
<1> HIDE DEF i, j, o
<1>5. /\ \A w \in Word : Part[w] = i /\ FilesWith(w) # {} => w \in DOMAIN o
      /\ j = "index" => \A w \in DOMAIN o : o[w] = FilesWith(w)
  <2>1. \A m \in Mapper, w \in Word :
          h.seen[m][w] > 0 <=> m < h.pos /\ InPart(w, i) /\ Contains(Input[m], w)
    BY <1>0, <1>4 DEF MapReduceInv, Handlers, HandlerReduces
  <2>2. \A m \in Mapper : m < h.pos
    BY <1>2, Numbers DEF Mapper
  <2>3. o = [w \in {v \in Word : FilesOf(h.seen, v) # {}} |->
               IF j = "index" THEN FilesOf(h.seen, w) ELSE CountOf(h.seen, w)]
    BY DEF o, j, Output, Found
  <2> HIDE DEF h
  <2>4. \A w \in Word : FilesOf(h.seen, w) = IF Part[w] = i THEN FilesWith(w) ELSE {}
    BY <2>1, <2>2 DEF FilesOf, FilesWith, InPart
  <2> QED
    BY <2>3, <2>4
<1>8. \A k \in Job : k # j => out'[k] = out[k]
  BY OneOutput DEF j
<1>9. /\ ToSet(out'[j]) = ToSet(out[j]) \cup {o}
      /\ \A k \in Job : ToSet(out[k]) \subseteq ToSet(out'[k])
  BY OneOutput DEF j, o
<1>10. /\ \A k \in Job, m \in Mapper : Mapped(k, m)' = Mapped(k, m)
       /\ \A k \in Job, n \in Reducer : Reduced(k, n) => Reduced(k, n)'
  BY <1>0, <1>9 DEF Mapped, Reduced
<1>11. \A w \in Word : Part[w] = i /\ FilesWith(w) # {} => \E e \in ToSet(out'[j]) : w \in DOMAIN e
  BY <1>5, <1>9
<1>12. ASSUME NEW q \in Run PROVE HandlerMaps(q)' /\ HandlerReduces(q)'
  <2>0. HandlerMaps(q) /\ HandlerReduces(q)
    BY DEF MapReduceInv, Handlers
  <2>1. CASE q # r
    <3>1. handler'[q] = handler[q]
      BY <1>3, <2>1
    <3>2. HandlerMaps(q)'
      BY <1>0, <2>0, <3>1 DEF HandlerMaps, Mapped
    <3>3. HandlerReduces(q)'
      <4>1. CASE handler[q].task.kind = "reduce"
        <5>1. handler[q].task.job \in Job /\ handler[q].task.i \in Reducer
          BY <1>1, <4>1 DEF Handler, MapTask, ReduceTask
        <5> QED
          BY <1>10, <2>0, <3>1, <5>1 DEF HandlerReduces
      <4>2. CASE handler[q].task.kind # "reduce"
        BY <3>1, <4>2 DEF HandlerReduces
      <4> QED
        BY <4>1, <4>2
    <3> QED
      BY <3>2, <3>3
  <2>2. CASE q = r
    <3>1. handler'[q].task = h.task /\ handler'[q].state = "done"
      BY <1>3, <2>2
    <3> QED
      BY <1>0, <1>4, <1>11, <3>1 DEF HandlerMaps, HandlerReduces, Reduced, FilesWith
  <2> QED
    BY <2>1, <2>2
<1>13. Typed'
  BY <1>0, <1>3 DEF MapReduceInv, Typed
<1>14. RegisteredOnce'
  BY <1>0, RegisteredKept DEF MapReduceInv
<1>15. PhasesAreDone'
  BY <1>0, <1>10 DEF MapReduceInv, PhasesAreDone
<1>16. OnlyInput' /\ Outputs'
  BY <1>0, OneOutput DEF MapReduceInv, OnlyInput
<1>17. MasterIsAt'
  BY <1>0, <1>3 DEF MapReduceInv, MasterIsAt
<1>18. IndexIsExact'
  <2>1. ASSUME NEW e \in ToSet(out'["index"]), NEW w \in DOMAIN e PROVE e[w] = FilesWith(w)
    <3>1. CASE e \in ToSet(out["index"])
      BY <3>1 DEF MapReduceInv, IndexIsExact
    <3>2. CASE e \notin ToSet(out["index"])
      <4>1. j = "index" /\ e = o
        BY <1>8, <1>9, <3>2 DEF Job
      <4> QED
        BY <1>5, <4>1
    <3> QED
      BY <3>1, <3>2
  <2> QED
    BY <2>1 DEF IndexIsExact, FilesWith
<1> QED
  BY <1>12, <1>13, <1>14, <1>15, <1>16, <1>17, <1>18 DEF MapReduceInv, Handlers

-----------------------------------------------------------------------------
LEMMA NothingHappens ==
  ASSUME MapReduceInv, UNCHANGED vars
  PROVE  MapReduceInv'
<1>1. Typed' /\ MasterIsAt'
  BY DEF MapReduceInv, Typed, MasterIsAt, vars, masterVars, workerVars, fileVars
<1>2. RegisteredOnce' /\ Handlers' /\ PhasesAreDone'
  BY RegisteredKept, HandlersKept, PhasesKept DEF MapReduceInv, vars, masterVars, workerVars
<1> QED
  BY <1>1, <1>2, FilesKept DEF MapReduceInv, vars

LEMMA MasterKeeps ==
  ASSUME MapReduceInv, MasterGoesOn
  PROVE  MapReduceInv'
<1>1. CASE Call
  BY <1>1, StopCall, WorkCall
<1>2. CASE CallFails
  BY <1>2, MasterEndsEarly DEF CallFails
<1> QED
  BY <1>1, <1>2, WorkerAnswers, MasterFinishes DEF MasterGoesOn

LEMMA WorkersKeep ==
  ASSUME MapReduceInv, NEW r \in Run, WorkerGoesOn(r) \/ ProcessGoesOn(r) \/ ProcessDies(r)
  PROVE  MapReduceInv'
<1>1. CASE WorkerGoesOn(r)
  BY <1>1, WordIsMapped, MapIsDone, FileIsRead, OutputIsWritten DEF WorkerGoesOn
<1>2. CASE ProcessGoesOn(r)
  BY <1>2, ProcessEnds, WorkerRegisters, WorkerListens DEF ProcessGoesOn, RegistrationFails, Stops
<1>3. CASE ProcessDies(r)
  BY <1>3, ProcessEnds
<1> QED
  BY <1>1, <1>2, <1>3

LEMMA EveryStepKeeps ==
  ASSUME MapReduceInv, [Next]_vars
  PROVE  MapReduceInv'
BY NothingHappens, RunStarts, MasterKeeps, MasterEndsEarly, WorkersKeep DEF Next

LEMMA Invariance == Spec => []MapReduceInv
<1>1. Init => MapReduceInv
  BY Initially
<1>2. MapReduceInv /\ [Next]_vars => MapReduceInv'
  BY EveryStepKeeps
<1> QED
  BY <1>1, <1>2, PTL DEF Spec

(***************************************************************************)
(* Everything is well typed; and no worker of any run registers twice      *)
(* (client/main.go:328), so that each connection of the master is another  *)
(* worker's.                                                               *)
(***************************************************************************)
THEOREM TypeCorrect == Spec => []TypeOK
<1>1. MapReduceInv => TypeOK
  <2> SUFFICES ASSUME MapReduceInv PROVE TypeOK
    OBVIOUS
  <2>1. Len(conns) <= MaxRuns * NumWorkers
    <3> DEFINE S == Run \X Worker
    <3>1. /\ IsFiniteSet(Run) /\ Cardinality(Run) = MaxRuns
          /\ IsFiniteSet(Worker) /\ Cardinality(Worker) = NumWorkers
      BY Numbers, FS_Interval DEF Run, Worker
    <3>2. IsFiniteSet(S) /\ Cardinality(S) = MaxRuns * NumWorkers
      BY <3>1, FS_Product
    <3>3. conns \in Seq(S) /\ \A i, j \in 1..Len(conns) : conns[i] = conns[j] => i = j
      BY DEF MapReduceInv, RegisteredOnce
    <3> HIDE DEF S
    <3>4. Len(conns) <= Cardinality(S)
      BY <3>2, <3>3, DistinctIsShort
    <3> QED
      BY <3>2, <3>4
  <2>2. \A r \in Run : handler[r].state \in {"idle", "busy", "done"}
    <3>1. handler \in [Run -> Handler]
      BY DEF MapReduceInv, Typed
    <3> QED
      BY <3>1 DEF Handler
  <2> QED
    BY <2>1, <2>2 DEF MapReduceInv, Typed, TypeOK
<1> QED
  BY <1>1, Invariance, PTL

(***************************************************************************)
(* Every line of the inverted index names exactly the files with the word: *)
(* whichever process dies, however many runs are made over the same        *)
(* intermediate files, and although workers of earlier runs still write    *)
(* (client/main.go:103-131).                                               *)
(***************************************************************************)
THEOREM IndexExact == Spec => []IndexIsExact
<1>1. MapReduceInv => IndexIsExact
  BY DEF MapReduceInv
<1> QED
  BY <1>1, Invariance, PTL

(***************************************************************************)
(* When a master comes to its end, every word of the input is in both      *)
(* outputs (server/main.go: the order of the four phases).                 *)
(***************************************************************************)
THEOREM FinishedComplete == Spec => []FinishedIsComplete
<1>1. MapReduceInv => FinishedIsComplete
  <2> SUFFICES ASSUME MapReduceInv, finished, NEW j \in Job, NEW w \in Word, FilesWith(w) # {}
               PROVE  \E o \in ToSet(out[j]) : w \in DOMAIN o
    BY DEF FinishedIsComplete
  <2>1. Part[w] \in Reducer
    BY MapReduceAssumption
  <2>2. next = Len(Tasks) + 1
    BY DEF MapReduceInv, MasterIsAt
  <2>3. ReduceAt(j, Part[w]) < next
    BY <2>1, <2>2, Places
  <2>4. Reduced(j, Part[w])
    BY <2>1, <2>3 DEF MapReduceInv, PhasesAreDone
  <2> QED
    BY <2>4 DEF Reduced
<1> QED
  BY <1>1, Invariance, PTL

-----------------------------------------------------------------------------
(***************************************************************************)
(* The counts.  How many places of a word a mapper has passed.             *)
(***************************************************************************)
LEMMA Passing ==
  ASSUME NEW m \in Mapper, NEW w \in Word, NEW n \in Nat \ {0}
  PROVE  /\ Passed(m, w, n) \in Nat /\ Times(m, w) \in Nat
         /\ Passed(m, w, 1) = 0
         /\ n > Len(Input[m]) => Passed(m, w, n) = Times(m, w)
         /\ n <= Len(Input[m]) => Passed(m, w, n + 1) =
              IF Input[m][n] = w THEN Passed(m, w, n) + 1 ELSE Passed(m, w, n)
<1> DEFINE s == Input[m]
           all == 1..Len(s)
           At(k) == {p \in all : p < k /\ s[p] = w}
           every == {p \in all : s[p] = w}
<1>0. s \in Seq(Word) /\ Len(s) \in Nat
  BY MapReduceAssumption
<1> HIDE DEF s
<1>1. IsFiniteSet(all)
  BY <1>0, FS_Interval
<1>2. every \in SUBSET all /\ \A k : At(k) \in SUBSET all
  OBVIOUS
<1> HIDE DEF all
<1>3. IsFiniteSet(every) /\ \A k : IsFiniteSet(At(k))
  BY <1>1, <1>2, FS_Subset
<1>4. Cardinality(every) \in Nat /\ \A k : Cardinality(At(k)) \in Nat
  BY <1>3, FS_CardinalityType
<1>5. At(1) = {}
  BY <1>0 DEF all
<1>6. n > Len(s) => At(n) = every
  BY <1>0 DEF all
<1>7. ASSUME n <= Len(s)
      PROVE  At(n + 1) = (IF s[n] = w THEN At(n) \cup {n} ELSE At(n)) /\ n \notin At(n)
  <2>1. n \in all /\ ~(n < n) /\ \A p \in all : p < n + 1 <=> p < n \/ p = n
    BY <1>0, <1>7 DEF all
  <2>2. CASE s[n] = w
    BY <2>1, <2>2
  <2>3. CASE s[n] # w
    BY <2>1, <2>3
  <2> QED
    BY <2>1, <2>2, <2>3
<1>8. ASSUME n <= Len(s)
      PROVE  Cardinality(At(n + 1)) = IF s[n] = w THEN Cardinality(At(n)) + 1 ELSE Cardinality(At(n))
  <2> HIDE DEF At
  <2> QED
    BY <1>3, <1>7, <1>8, FS_AddElement
<1>9. Cardinality(At(1)) = 0
  BY <1>5, FS_EmptySet
<1>10. /\ Times(m, w) = Cardinality(every) /\ Passed(m, w, n) = Cardinality(At(n))
       /\ Passed(m, w, 1) = Cardinality(At(1)) /\ Passed(m, w, n + 1) = Cardinality(At(n + 1))
  BY DEF Times, Passed, all, s
<1> HIDE DEF At, every
<1>11. n > Len(s) => Passed(m, w, n) = Times(m, w)
  BY <1>6, <1>10
<1>12. n <= Len(s) => Passed(m, w, n + 1) = IF s[n] = w THEN Passed(m, w, n) + 1 ELSE Passed(m, w, n)
  BY <1>8, <1>10
<1> QED
  BY <1>4, <1>9, <1>10, <1>11, <1>12 DEF s

\* Where a task is in the list.
LEMMA PlaceOf ==
  /\ \A j \in Job, m \in Mapper : Place(Tasks[MapAt(j, m)]) = MapAt(j, m)
  /\ \A j \in Job, i \in Reducer : Place(Tasks[ReduceAt(j, i)]) = ReduceAt(j, i)
<1>1. ASSUME NEW j \in Job, NEW m \in Mapper PROVE Place(Tasks[MapAt(j, m)]) = MapAt(j, m)
  <2>1. Tasks[MapAt(j, m)] = [job |-> j, kind |-> "map", i |-> m]
    BY TasksAt
  <2> QED
    BY <2>1 DEF Place
<1>2. ASSUME NEW j \in Job, NEW i \in Reducer PROVE Place(Tasks[ReduceAt(j, i)]) = ReduceAt(j, i)
  <2>1. Tasks[ReduceAt(j, i)] = [job |-> j, kind |-> "reduce", i |-> i]
    BY TasksAt
  <2> QED
    BY <2>1 DEF Place
<1> QED
  BY <1>1, <1>2

LEMMA FirstIsARun == 1 \in Run
BY Numbers DEF Run

LEMMA CountsInitially == Init => CountsInv
<1> SUFFICES ASSUME Init PROVE CountsInv
  OBVIOUS
<1>1. run = 0 /\ next = 1 /\ ~masterUp /\ \A r \in Run : handler[r] = Idle
  BY DEF Init
<1>2. Idle.state = "idle" /\ 1 \in Run
  BY IdleType, FirstIsARun
<1>3. \A j \in Job, m \in Mapper : ~(MapAt(j, m) < 1)
  BY Places
<1>4. EnoughLines
  BY <1>1, <1>2, <1>3 DEF EnoughLines, MapperCounts, ReducerCounts
<1>5. MasterIsFirst
  BY <1>1, <1>2 DEF MasterIsFirst
<1>6. ExactLines
  BY <1>1, <1>2, <1>3 DEF ExactLines, AtMap, Init, NoLines
<1>7. ExactTasks
  BY <1>1, <1>2 DEF ExactTasks
<1>8. OutputCounts
  <2>1. out["count"] = <<>>
    BY DEF Init, Job
  <2>2. ToSet(<<>>) = {}
    BY DEF ToSet
  <2> QED
    BY <2>1, <2>2 DEF OutputCounts
<1> QED
  BY <1>4, <1>5, <1>6, <1>7, <1>8 DEF CountsInv, FirstRun

\* What a step keeps that leaves the files and the tasks alone.
LEMMA CountsKept ==
  ASSUME CountsInv, UNCHANGED <<run, next, handler, fileVars>>,
         masterUp' => masterUp /\ calling' = calling
  PROVE  CountsInv'
<1>1. EnoughLines'
  BY DEF CountsInv, EnoughLines, MapperCounts, ReducerCounts, Enough, fileVars
<1>2. FirstRun'
  BY DEF CountsInv, FirstRun, MasterIsFirst, ExactLines, ExactTasks, AtMap, fileVars
<1>3. OutputCounts'
  BY DEF CountsInv, OutputCounts, fileVars
<1> QED
  BY <1>1, <1>2, <1>3 DEF CountsInv

\* The next run counts on what this one has left.
LEMMA CountsAtStart ==
  ASSUME MapReduceInv, CountsInv, StartRun
  PROVE  CountsInv'
<1>0. /\ run' = run + 1 /\ next' = 1 /\ masterUp' /\ ~calling' /\ run \in Nat
      /\ UNCHANGED <<handler, fileVars>>
  BY Numbers DEF StartRun, MapReduceInv, Typed
<1>1. EnoughLines'
  <2>1. \A j \in Job, m \in Mapper : ~(MapAt(j, m) < next')
    BY <1>0, Places
  <2> QED
    BY <1>0, <2>1 DEF CountsInv, EnoughLines, MapperCounts, ReducerCounts, Enough, fileVars
<1>2. FirstRun'
  <2> SUFFICES ASSUME run = 0 PROVE (MasterIsFirst /\ ExactLines /\ ExactTasks)'
    BY <1>0 DEF FirstRun
  <2>1. MasterIsFirst /\ ExactLines /\ ExactTasks /\ next = 1 /\ handler[1].state = "idle"
    BY DEF CountsInv, FirstRun, MasterIsFirst
  <2> QED
    BY <1>0, <2>1 DEF MasterIsFirst, ExactLines, ExactTasks, AtMap, fileVars
<1>3. OutputCounts'
  BY <1>0 DEF CountsInv, OutputCounts, fileVars
<1> QED
  BY <1>1, <1>2, <1>3 DEF CountsInv

LEMMA CountsAtStop ==
  ASSUME MapReduceInv, CountsInv, Call, Current.kind = "stop"
  PROVE  CountsInv'
<1>0. /\ masterUp /\ ~calling /\ next \in 1..Len(Tasks) /\ next' = next + 1
      /\ UNCHANGED <<run, masterUp, calling, handler, fileVars>>
  BY Places DEF MapReduceInv, Typed, Call, AtCall
<1>1. \A j \in Job, m \in Mapper : MapAt(j, m) < next' <=> MapAt(j, m) < next
  <2>1. \A j \in Job, m \in Mapper : MapAt(j, m) # next
    BY TaskKinds DEF Current
  <2>2. \A n \in 1..Len(Tasks) : n # next => (n < next + 1 <=> n < next)
    BY <1>0, Places
  <2> QED
    BY <1>0, <2>1, <2>2, Places
<1>2. EnoughLines'
  BY <1>0, <1>1 DEF CountsInv, EnoughLines, MapperCounts, ReducerCounts, Enough, fileVars
<1>3. ASSUME run <= 1 PROVE (MasterIsFirst /\ ExactLines /\ ExactTasks)'
  <2>1. MasterIsFirst /\ ExactLines /\ ExactTasks
    BY <1>3 DEF CountsInv, FirstRun
  <2>2. ExactLines' /\ ExactTasks'
    BY <1>0, <1>1, <2>1 DEF ExactLines, ExactTasks, AtMap, fileVars
  <2>3. MasterIsFirst'
    <3> DEFINE h == handler[1]
               k == Place(h.task)
    <3>1. ASSUME h.state # "idle" PROVE k <= next' /\ k < next' /\ h.state = "done"
      <4>1. k < next /\ h.state = "done"
        BY <1>0, <2>1, <3>1 DEF MasterIsFirst
      <4>2. k \in Int
        <5>1. h \in Handler
          BY FirstIsARun DEF MapReduceInv, Typed
        <5>2. h.task \in MapTask \cup ReduceTask
          BY <5>1 DEF Handler
        <5> QED
          BY <5>2, Places DEF Place, MapTask, ReduceTask
      <4> QED
        BY <1>0, <4>1, <4>2
    <3> HIDE DEF k
    <3> QED
      BY <1>0, <2>1, <3>1 DEF MasterIsFirst, k
  <2> QED
    BY <2>2, <2>3
<1>4. OutputCounts'
  BY <1>0 DEF CountsInv, OutputCounts, fileVars
<1> QED
  BY <1>0, <1>2, <1>3, <1>4 DEF CountsInv, FirstRun

LEMMA PlaceIsATask ==
  ASSUME NEW h \in Handler
  PROVE  /\ Place(h.task) \in 1..Len(Tasks)
         /\ \A j, m : AtMap(h, j, m) => Place(h.task) = MapAt(j, m)
<1>1. h.task \in MapTask \cup ReduceTask
  BY DEF Handler
<1>2. Place(h.task) \in 1..Len(Tasks)
  BY <1>1, Places DEF Place, MapTask, ReduceTask
<1>3. ASSUME NEW j, NEW m, AtMap(h, j, m) PROVE Place(h.task) = MapAt(j, m)
  BY <1>3 DEF Place, AtMap
<1> QED
  BY <1>2, <1>3

(***************************************************************************)
(* A worker begins from nothing.  In the first run no other task was given *)
(* the same file of the job, and the one before is done.                   *)
(***************************************************************************)
LEMMA CountsAtCall ==
  ASSUME MapReduceInv, CountsInv, Call, Current.kind # "stop"
  PROVE  CountsInv'
<1> DEFINE r == conns[Current.i][1]
           h == [Idle EXCEPT !.state = "busy", !.proc = r, !.task = Current]
<1>0. /\ masterUp /\ ~calling /\ next \in 1..Len(Tasks)
      /\ handler' = [handler EXCEPT ![run] = h] /\ calling'
      /\ UNCHANGED <<run, masterUp, next, fileVars>>
  BY Places DEF MapReduceInv, Typed, Call, AtCall
<1>1. run \in Run /\ handler \in [Run -> Handler] /\ lines \in [Job -> [Mapper -> [Word -> Nat]]]
  BY <1>0 DEF MapReduceInv, Typed, MasterIsAt
<1>2. \/ \E j \in Job, m \in Mapper : next = MapAt(j, m)
      \/ \E j \in Job, i \in Reducer : next = ReduceAt(j, i)
  <2>1. \A i \in Worker : next # StopAt(i)
    BY TaskKinds DEF Current
  <2> QED
    BY <1>0, <2>1, TaskCases
<1>3. Current \in MapTask \cup ReduceTask /\ Place(Current) = next
  BY <1>2, TaskTypes, PlaceOf DEF Current
<1>4. /\ h.state = "busy" /\ h.task = Current /\ h.pos = 1
      /\ h.seen = [m \in Mapper |-> NoLines]
  <2> HIDE DEF r
  <2> QED
    BY IdleType DEF Idle
<1>5. handler'[run] = h /\ \A q \in Run : q # run => handler'[q] = handler[q]
  BY <1>0, <1>1
<1> HIDE DEF r, h
<1>6. EnoughLines'
  <2>1. \A j \in Job, m \in Mapper : MapAt(j, m) < next' => Enough(j, m)'
    BY <1>0 DEF CountsInv, EnoughLines, Enough, fileVars
  <2>2. ASSUME NEW q \in Run, q # run PROVE MapperCounts(q)' /\ ReducerCounts(q)'
    <3>1. MapperCounts(q) /\ ReducerCounts(q) /\ handler'[q] = handler[q]
      BY <1>5, <2>2 DEF CountsInv, EnoughLines
    <3> QED
      BY <1>0, <3>1 DEF MapperCounts, ReducerCounts, Enough, fileVars
  <2>3. MapperCounts(run)'
    <3>1. ASSUME Current.kind = "map", NEW w \in Word
          PROVE  lines[Current.job][Current.i][w] >= Passed(Current.i, w, h.pos)
      <4>1. Current.job \in Job /\ Current.i \in Mapper
        BY <1>3, <3>1 DEF MapTask, ReduceTask
      <4>2. Passed(Current.i, w, 1) = 0 /\ lines[Current.job][Current.i][w] \in Nat
        BY <1>1, <4>1, Passing
      <4> QED
        BY <1>4, <4>2
    <3> QED
      BY <1>0, <1>1, <1>4, <1>5, <3>1 DEF MapperCounts, fileVars
  <2>4. ReducerCounts(run)'
    <3>1. ASSUME Current.kind = "reduce", NEW m \in Mapper PROVE Enough(Current.job, m)
      <4>1. PICK j \in Job, i \in Reducer : next = ReduceAt(j, i)
        BY <1>2, <3>1, TaskKinds DEF Current
      <4>2. Current.job = j /\ MapAt(j, m) < next
        BY <4>1, TaskKinds, Places DEF Current
      <4> QED
        BY <4>2 DEF CountsInv, EnoughLines
    <3>2. \A m \in Mapper : ~(m < h.pos)
      BY <1>4 DEF Mapper
    <3> QED
      BY <1>0, <1>1, <1>4, <1>5, <3>1, <3>2 DEF ReducerCounts, Enough, fileVars
  <2> QED
    BY <1>0, <1>1, <2>1, <2>2, <2>3, <2>4 DEF EnoughLines
<1>7. ASSUME run <= 1 PROVE (MasterIsFirst /\ ExactLines /\ ExactTasks)'
  <2>1. MasterIsFirst /\ ExactLines /\ ExactTasks
    BY <1>7 DEF CountsInv, FirstRun
  <2>2. run = 1
    BY <1>1, <1>7 DEF Run
  <2> DEFINE g == handler[1]
  <2>3. g \in Handler /\ Place(g.task) \in 1..Len(Tasks)
    BY <1>1, <2>2, PlaceIsATask
  <2>4. handler'[1] = h /\ \A q \in Run \ {1} : handler'[q].state = "idle"
    BY <1>5, <2>1, <2>2 DEF MasterIsFirst
  <2>5. MasterIsFirst'
    <3>1. Place(handler'[1].task) = next' /\ ~(next' < next') /\ next' <= next'
      BY <1>0, <1>3, <1>4, <2>4, Places
    <3> QED
      BY <1>0, <2>2, <2>4, <3>1 DEF MasterIsFirst
  <2>6. ASSUME NEW j \in Job, NEW m \in Mapper, NEW w \in Word
        PROVE  lines'[j][m][w] = IF AtMap(h, j, m) THEN Passed(m, w, h.pos)
                                 ELSE IF MapAt(j, m) < next' THEN Times(m, w) ELSE 0
    <3>1. lines[j][m][w] = IF AtMap(g, j, m) THEN Passed(m, w, g.pos)
                           ELSE IF MapAt(j, m) < next THEN Times(m, w) ELSE 0
      BY <2>1 DEF ExactLines
    <3>2. lines'[j][m][w] = lines[j][m][w] /\ next' = next
      BY <1>0 DEF fileVars
    <3>3. ASSUME AtMap(g, j, m)
          PROVE  MapAt(j, m) < next /\ Passed(m, w, g.pos) = Times(m, w)
      <4>1. Place(g.task) = MapAt(j, m) /\ g.state # "idle" /\ g.task = [job |-> j, kind |-> "map", i |-> m]
        BY <2>3, <3>3, PlaceIsATask DEF AtMap
      <4>2. MapAt(j, m) < next /\ g.state = "done"
        BY <1>0, <2>1, <4>1 DEF MasterIsFirst
      <4>3. g.pos > Len(Input[m])
        BY <2>1, <4>1, <4>2 DEF ExactTasks
      <4>4. g.pos \in Nat \ {0}
        BY <2>3 DEF Handler
      <4> HIDE DEF g
      <4> QED
        BY <4>2, <4>3, <4>4, Passing
    <3>4. lines[j][m][w] = IF MapAt(j, m) < next THEN Times(m, w) ELSE 0
      BY <3>1, <3>3
    <3>5. CASE AtMap(h, j, m)
      <4>1. MapAt(j, m) = next
        BY <1>3, <1>4, <3>5 DEF AtMap, Place
      <4>2. ~(MapAt(j, m) < next)
        BY <1>0, <4>1, Places
      <4>3. Passed(m, w, h.pos) = 0
        BY <1>4, Passing
      <4> QED
        BY <3>2, <3>4, <3>5, <4>2, <4>3
    <3>6. CASE ~AtMap(h, j, m)
      BY <3>2, <3>4, <3>6
    <3> QED
      BY <3>5, <3>6
  <2>7. ExactLines'
    BY <2>4, <2>6 DEF ExactLines, AtMap
  <2>8. ExactTasks'
    <3>1. \A m \in Mapper, w \in Word : h.seen[m][w] = 0 /\ ~(m < h.pos)
      BY <1>4 DEF NoLines, Mapper
    <3> QED
      BY <1>4, <2>4, <3>1 DEF ExactTasks
  <2> QED
    BY <2>5, <2>7, <2>8
<1>8. OutputCounts'
  BY <1>0 DEF CountsInv, OutputCounts, fileVars
<1> QED
  BY <1>0, <1>6, <1>7, <1>8 DEF CountsInv, FirstRun

\* The worker is done, and so are the counts of its task.
LEMMA CountsAtAnswer ==
  ASSUME MapReduceInv, CountsInv, Returns
  PROVE  CountsInv'
<1>0. /\ masterUp /\ calling /\ handler[run].state = "done" /\ next' = next + 1 /\ ~calling'
      /\ UNCHANGED <<run, masterUp, handler, fileVars>>
  BY DEF Returns, workerVars, MapReduceInv, Typed
<1>1. run \in Run /\ next \in 1..Len(Tasks) /\ handler[run].task = Tasks[next]
  BY <1>0, Places DEF MapReduceInv, Typed, MasterIsAt
<1>2. \A n \in 1..Len(Tasks) : n < next' <=> n < next \/ n = next
  BY <1>0, <1>1, Places
<1>3. ASSUME NEW j \in Job, NEW m \in Mapper, MapAt(j, m) = next
      PROVE  handler[run].task = [job |-> j, kind |-> "map", i |-> m]
  BY <1>1, <1>3, TasksAt
<1>4. EnoughLines'
  <2>1. ASSUME NEW j \in Job, NEW m \in Mapper, MapAt(j, m) < next' PROVE Enough(j, m)
    <3>1. CASE MapAt(j, m) < next
      BY <3>1 DEF CountsInv, EnoughLines
    <3>2. CASE MapAt(j, m) = next
      <4>1. MapperCounts(run)
        BY <1>1 DEF CountsInv, EnoughLines
      <4>2. handler[run].task = [job |-> j, kind |-> "map", i |-> m]
        BY <1>3, <3>2
      <4>3. handler[run].task.kind = "map" /\ handler[run].task.job = j /\ handler[run].task.i = m
        BY <4>2
      <4> QED
        BY <1>0, <4>1, <4>3 DEF MapperCounts
    <3> QED
      BY <1>2, <2>1, <3>1, <3>2, Places
  <2> QED
    BY <1>0, <2>1 DEF CountsInv, EnoughLines, MapperCounts, ReducerCounts, Enough, fileVars
<1>5. ASSUME run <= 1 PROVE (MasterIsFirst /\ ExactLines /\ ExactTasks)'
  <2>1. MasterIsFirst /\ ExactLines /\ ExactTasks
    BY <1>5 DEF CountsInv, FirstRun
  <2>2. run = 1
    BY <1>1, <1>5 DEF Run
  <2> DEFINE h == handler[1]
  <2>3. h \in Handler
    BY <1>1, <2>2 DEF MapReduceInv, Typed
  <2>4. h.state = "done" /\ h.task = Tasks[next]
    BY <1>0, <1>1, <2>2
  <2>5. MasterIsFirst'
    <3>1. Place(h.task) \in 1..Len(Tasks) /\ Place(h.task) <= next
      BY <2>1, <2>3, <2>4, PlaceIsATask DEF MasterIsFirst
    <3>2. Place(h.task) < next' /\ Place(h.task) <= next'
      BY <1>0, <1>1, <3>1, Places
    <3> QED
      BY <1>0, <2>1, <2>2, <2>4, <3>2 DEF MasterIsFirst
  <2>6. ASSUME NEW j \in Job, NEW m \in Mapper, ~AtMap(h, j, m)
        PROVE  MapAt(j, m) < next' <=> MapAt(j, m) < next
    <3>1. MapAt(j, m) # next
      BY <1>3, <2>2, <2>4, <2>6 DEF AtMap
    <3> QED
      BY <1>2, <3>1, Places
  <2>7. ExactLines' /\ ExactTasks'
    BY <1>0, <2>1, <2>6 DEF ExactLines, ExactTasks, AtMap, fileVars
  <2> QED
    BY <2>5, <2>7
<1>6. OutputCounts'
  BY <1>0 DEF CountsInv, OutputCounts, fileVars
<1> QED
  BY <1>0, <1>4, <1>5, <1>6 DEF CountsInv, FirstRun

-----------------------------------------------------------------------------
\* Only in the first run the handler of its master has anything to do.
LEMMA FirstHandler ==
  ASSUME CountsInv, NEW r \in Run, handler[r].state # "idle", run <= 1
  PROVE  r = 1 /\ run # 0 /\ MasterIsFirst /\ ExactLines /\ ExactTasks
BY DEF CountsInv, FirstRun, MasterIsFirst

\* A line more, and a place passed.
LEMMA CountsAtWord ==
  ASSUME MapReduceInv, CountsInv, NEW r \in Run, MapWord(r)
  PROVE  CountsInv'
<1> DEFINE h == handler[r]
           j == JobOf(r)
           m == FileOf(r)
           x == WordAt(r)
<1>0. /\ h.state = "busy" /\ h.task.kind = "map" /\ h.pos \in 1..Len(Input[m]) /\ h.pos \in Nat \ {0}
      /\ UNCHANGED <<run, masterUp, next, calling, out>>
  BY OneLine
<1>1. /\ j \in Job /\ m \in Mapper /\ x \in Word /\ Input[m] \in Seq(Word)
      /\ handler \in [Run -> Handler] /\ lines \in [Job -> [Mapper -> [Word -> Nat]]]
  BY OneLine DEF MapReduceInv, Typed
<1>2. /\ \A q \in Run : /\ handler'[q].state = handler[q].state
                        /\ handler'[q].task = handler[q].task
                        /\ handler'[q].seen = handler[q].seen
      /\ handler'[r].pos = h.pos + 1 /\ \A q \in Run : q # r => handler'[q] = handler[q]
  BY OneLine
<1>3. /\ lines' \in [Job -> [Mapper -> [Word -> Nat]]]
      /\ lines'[j][m][x] = lines[j][m][x] + 1
      /\ \A k \in Job, n \in Mapper, w \in Word :
           ~(k = j /\ n = m /\ w = x) => lines'[k][n][w] = lines[k][n][w]
  BY OneLine
<1>4. h.task.job = j /\ h.task.i = m /\ x = Input[m][h.pos]
  BY DEF JobOf, FileOf, WordAt
<1> HIDE DEF h, j, m, x
<1>5. \A k \in Job, n \in Mapper, w \in Word : /\ lines[k][n][w] \in Nat /\ lines'[k][n][w] \in Nat
                                               /\ lines'[k][n][w] >= lines[k][n][w]
  <2> TAKE k \in Job, n \in Mapper, w \in Word
  <2>1. lines[k][n][w] \in Nat /\ lines'[k][n][w] \in Nat
    BY <1>1, <1>3
  <2>2. lines'[k][n][w] = lines[k][n][w] \/ lines'[k][n][w] = lines[k][n][w] + 1
    BY <1>3
  <2> QED
    BY <2>1, <2>2
<1>6. \A k \in Job, n \in Mapper : Enough(k, n) => Enough(k, n)'
  <2> SUFFICES ASSUME NEW k \in Job, NEW n \in Mapper, NEW w \in Word, lines[k][n][w] >= Times(n, w)
               PROVE  lines'[k][n][w] >= Times(n, w)
    BY DEF Enough
  <2>1. Times(n, w) \in Nat
    BY Passing
  <2> QED
    BY <1>5, <2>1
<1>7. \A w \in Word : /\ Passed(m, w, h.pos) \in Nat
                      /\ Passed(m, w, h.pos + 1) = IF w = x THEN Passed(m, w, h.pos) + 1
                                                   ELSE Passed(m, w, h.pos)
  <2> TAKE w \in Word
  <2>1. h.pos <= Len(Input[m])
    BY <1>0, <1>1
  <2>2. Passed(m, w, h.pos) \in Nat
    BY <1>0, <1>1, Passing
  <2>3. Passed(m, w, h.pos + 1) = IF Input[m][h.pos] = w THEN Passed(m, w, h.pos) + 1
                                  ELSE Passed(m, w, h.pos)
    BY <1>0, <1>1, <2>1, Passing
  <2> QED
    BY <1>4, <2>2, <2>3
<1>8. \A w \in Word : lines'[j][m][w] = lines[j][m][w] + (IF w = x THEN 1 ELSE 0)
  <2> TAKE w \in Word
  <2>1. CASE w = x
    BY <1>3, <2>1
  <2>2. CASE w # x
    <3>1. lines'[j][m][w] = lines[j][m][w]
      BY <1>1, <1>3, <2>2
    <3>2. lines[j][m][w] \in Nat
      BY <1>1, <1>5
    <3> QED
      BY <2>2, <3>1, <3>2
  <2> QED
    BY <2>1, <2>2
<1>9. EnoughLines'
  <2>1. \A k \in Job, n \in Mapper : MapAt(k, n) < next' => Enough(k, n)'
    BY <1>0, <1>6 DEF CountsInv, EnoughLines
  <2>2. ASSUME NEW q \in Run PROVE MapperCounts(q)'
    <3>0. MapperCounts(q)
      BY DEF CountsInv, EnoughLines
    <3>1. CASE q # r
      <4>1. handler'[q] = handler[q]
        BY <1>2, <3>1
      <4> DEFINE k == handler[q].task.job
                 n == handler[q].task.i
      <4>2. ASSUME handler[q].task.kind = "map" PROVE k \in Job /\ n \in Mapper /\ handler[q].pos \in Nat \ {0}
        BY <1>1, <4>2 DEF Handler, MapTask, ReduceTask
      <4>3. ASSUME handler[q].task.kind = "map", handler[q].state = "busy", NEW w \in Word
            PROVE  lines'[k][n][w] >= Passed(n, w, handler[q].pos)
        <5>1. lines[k][n][w] >= Passed(n, w, handler[q].pos)
          BY <3>0, <4>3 DEF MapperCounts
        <5>2. Passed(n, w, handler[q].pos) \in Nat
          BY <4>2, <4>3, Passing
        <5> HIDE DEF k, n
        <5> QED
          BY <1>5, <4>2, <4>3, <5>1, <5>2
      <4>4. ASSUME handler[q].task.kind = "map", handler[q].state = "done" PROVE Enough(k, n)'
        <5>1. Enough(k, n)
          BY <3>0, <4>4 DEF MapperCounts
        <5>2. k \in Job /\ n \in Mapper /\ k' = k /\ n' = n
          BY <4>1, <4>2, <4>4
        <5> HIDE DEF k, n
        <5> QED
          BY <1>6, <5>1, <5>2 DEF Enough
      <4> QED
        BY <4>1, <4>3, <4>4 DEF MapperCounts
    <3>2. CASE q = r
      <4>1. \A w \in Word : lines[j][m][w] >= Passed(m, w, h.pos)
        BY <1>0, <1>4, <3>0, <3>2 DEF MapperCounts, h
      <4>2. \A w \in Word : lines'[j][m][w] >= Passed(m, w, h.pos + 1)
        BY <1>1, <1>5, <1>7, <1>8, <4>1
      <4>3. /\ handler'[q].task.job = j /\ handler'[q].task.i = m /\ handler'[q].pos = h.pos + 1
            /\ handler'[q].state = "busy"
        BY <1>0, <1>2, <1>4, <3>2 DEF h
      <4> QED
        BY <4>2, <4>3 DEF MapperCounts
    <3> QED
      BY <3>1, <3>2
  <2>3. ASSUME NEW q \in Run PROVE ReducerCounts(q)'
    <3>0. ReducerCounts(q)
      BY DEF CountsInv, EnoughLines
    <3>1. CASE handler[q].task.kind = "reduce"
      <4>1. handler[q].task.job \in Job /\ handler'[q] = handler[q]
        BY <1>0, <1>1, <1>2, <3>1 DEF Handler, MapTask, ReduceTask, h
      <4> QED
        BY <1>6, <3>0, <4>1 DEF ReducerCounts
    <3>2. CASE handler[q].task.kind # "reduce"
      BY <1>2, <3>2 DEF ReducerCounts
    <3> QED
      BY <3>1, <3>2
  <2> QED
    BY <2>1, <2>2, <2>3 DEF EnoughLines
<1>10. ASSUME run <= 1 PROVE (MasterIsFirst /\ ExactLines /\ ExactTasks)'
  <2>1. r = 1 /\ run # 0 /\ MasterIsFirst /\ ExactLines /\ ExactTasks
    BY <1>0, <1>10, FirstHandler DEF h
  <2>2. MasterIsFirst'
    BY <1>0, <1>2, <2>1, FirstIsARun DEF MasterIsFirst
  <2>3. handler[1] = h /\ handler'[1].state = h.state /\ handler'[1].task = h.task /\ handler'[1].pos = h.pos + 1
    BY <1>2, <2>1 DEF h
  <2>4. \A k, n : /\ AtMap(h, k, n) => k = j /\ n = m
                  /\ AtMap(handler'[1], k, n) <=> AtMap(h, k, n)
    BY <1>4, <2>3 DEF AtMap
  <2>5. AtMap(h, j, m)
    <3>1. h.task = [job |-> j, kind |-> "map", i |-> m]
      <4>1. h.task \in MapTask
        BY <1>0, <1>1 DEF Handler, ReduceTask, h
      <4> QED
        BY <1>0, <1>4, <4>1 DEF MapTask
    <3> QED
      BY <1>0, <3>1 DEF AtMap
  <2>6. ASSUME NEW k \in Job, NEW n \in Mapper, NEW w \in Word
        PROVE  lines'[k][n][w] = IF AtMap(handler'[1], k, n) THEN Passed(n, w, handler'[1].pos)
                                 ELSE IF MapAt(k, n) < next' THEN Times(n, w) ELSE 0
    <3>1. lines[k][n][w] = IF AtMap(h, k, n) THEN Passed(n, w, h.pos)
                           ELSE IF MapAt(k, n) < next THEN Times(n, w) ELSE 0
      BY <2>1, <2>3 DEF ExactLines
    <3>2. CASE k = j /\ n = m
      <4>1. lines[j][m][w] = Passed(m, w, h.pos)
        BY <2>5, <3>1, <3>2
      <4>2. lines'[j][m][w] = Passed(m, w, h.pos + 1)
        BY <1>7, <1>8, <4>1
      <4> QED
        BY <2>3, <2>4, <2>5, <3>2, <4>2
    <3>3. CASE ~(k = j /\ n = m)
      <4>1. ~AtMap(h, k, n) /\ ~AtMap(handler'[1], k, n)
        BY <2>4, <3>3
      <4>2. lines'[k][n][w] = lines[k][n][w] /\ next' = next
        BY <1>0, <1>3, <3>3
      <4> QED
        BY <3>1, <4>1, <4>2
    <3> QED
      BY <3>2, <3>3
  <2>7. ExactLines'
    BY <2>6 DEF ExactLines, AtMap
  <2>8. ExactTasks'
    BY <1>0, <2>3 DEF ExactTasks
  <2> QED
    BY <2>2, <2>7, <2>8
<1>11. OutputCounts'
  BY <1>0 DEF CountsInv, OutputCounts
<1> QED
  BY <1>0, <1>9, <1>10, <1>11 DEF CountsInv, FirstRun

\* All places are passed.
LEMMA CountsAtMapEnd ==
  ASSUME MapReduceInv, CountsInv, NEW r \in Run, MapDone(r)
  PROVE  CountsInv'
<1> DEFINE h == handler[r]
           j == h.task.job
           m == h.task.i
<1>0. /\ h.state = "busy" /\ h.task.kind = "map" /\ h.pos > Len(Input[m])
      /\ handler' = [handler EXCEPT ![r].state = "done"]
      /\ UNCHANGED <<run, masterUp, next, calling, fileVars>>
  BY DEF MapDone, Busy, Done, masterVars
<1>1. handler \in [Run -> Handler] /\ h \in Handler
  BY DEF MapReduceInv, Typed
<1>2. j \in Job /\ m \in Mapper /\ h.pos \in Nat \ {0}
  BY <1>0, <1>1 DEF Handler, MapTask, ReduceTask
<1>3. /\ \A q \in Run : handler'[q].task = handler[q].task
      /\ handler'[r].state = "done" /\ handler'[r].pos = h.pos
      /\ \A q \in Run : q # r => handler'[q] = handler[q]
  BY <1>0, <1>1 DEF Handler
<1>4. Enough(j, m)
  <2>1. MapperCounts(r)
    BY DEF CountsInv, EnoughLines
  <2>2. \A w \in Word : lines[j][m][w] >= Passed(m, w, h.pos)
    BY <1>0, <2>1 DEF MapperCounts
  <2> QED
    BY <1>0, <1>2, <2>2, Passing DEF Enough
<1>5. EnoughLines'
  <2>1. \A k \in Job, n \in Mapper : MapAt(k, n) < next' => Enough(k, n)'
    BY <1>0 DEF CountsInv, EnoughLines, Enough, fileVars
  <2>2. ASSUME NEW q \in Run, q # r PROVE MapperCounts(q)' /\ ReducerCounts(q)'
    <3>1. MapperCounts(q) /\ ReducerCounts(q) /\ handler'[q] = handler[q]
      BY <1>3, <2>2 DEF CountsInv, EnoughLines
    <3> QED
      BY <1>0, <3>1 DEF MapperCounts, ReducerCounts, Enough, fileVars
  <2>3. MapperCounts(r)' /\ ReducerCounts(r)'
    BY <1>0, <1>3, <1>4 DEF MapperCounts, ReducerCounts, Enough, fileVars
  <2> QED
    BY <2>1, <2>2, <2>3 DEF EnoughLines
<1> HIDE DEF j, m
<1>6. ASSUME run <= 1 PROVE (MasterIsFirst /\ ExactLines /\ ExactTasks)'
  <2>1. r = 1 /\ run # 0 /\ MasterIsFirst /\ ExactLines /\ ExactTasks
    BY <1>0, <1>6, FirstHandler
  <2>2. /\ handler'[1].task = h.task /\ handler'[1].pos = h.pos /\ handler'[1].state = "done"
        /\ handler[1] = h
    BY <1>3, <2>1
  <2>3. MasterIsFirst'
    <3>1. \A q \in Run \ {1} : handler'[q].state = "idle"
      BY <1>3, <2>1 DEF MasterIsFirst
    <3>2. Place(h.task) <= next /\ (masterUp /\ ~calling => Place(h.task) < next)
      BY <1>0, <2>1, <2>2 DEF MasterIsFirst
    <3> QED
      BY <1>0, <2>1, <2>2, <3>1, <3>2 DEF MasterIsFirst
  <2>4. \A k, n : AtMap(handler'[1], k, n) <=> AtMap(h, k, n)
    BY <1>0, <2>2 DEF AtMap
  <2>5. ExactLines'
    <3>1. \A k \in Job, n \in Mapper, w \in Word :
            lines[k][n][w] = IF AtMap(h, k, n) THEN Passed(n, w, h.pos)
                             ELSE IF MapAt(k, n) < next THEN Times(n, w) ELSE 0
      BY <2>1, <2>2 DEF ExactLines
    <3>2. lines' = lines /\ next' = next
      BY <1>0 DEF fileVars
    <3> HIDE DEF h
    <3>3. \A k \in Job, n \in Mapper, w \in Word :
            lines'[k][n][w] = IF AtMap(handler'[1], k, n) THEN Passed(n, w, handler'[1].pos)
                              ELSE IF MapAt(k, n) < next' THEN Times(n, w) ELSE 0
      BY <2>2, <2>4, <3>1, <3>2
    <3> QED
      BY <3>3 DEF ExactLines, AtMap
  <2>6. ExactTasks'
    BY <1>0, <2>2 DEF ExactTasks, m
  <2> QED
    BY <2>3, <2>5, <2>6
<1>7. OutputCounts'
  BY <1>0 DEF CountsInv, OutputCounts, fileVars
<1> QED
  BY <1>0, <1>5, <1>6, <1>7 DEF CountsInv, FirstRun

\* While the first handler reduces, the files of the first run stay as they are.
LEMMA ExactlyKept ==
  ASSUME ExactLines, UNCHANGED <<next, lines>>,
         \A j, m : ~AtMap(handler[1], j, m) /\ ~AtMap(handler'[1], j, m)
  PROVE  ExactLines'
<1>1. \A j \in Job, m \in Mapper, w \in Word :
        lines[j][m][w] = IF MapAt(j, m) < next THEN Times(m, w) ELSE 0
  BY DEF ExactLines
<1>2. \A j \in Job, m \in Mapper, w \in Word :
        lines'[j][m][w] = IF AtMap(handler'[1], j, m) THEN Passed(m, w, handler'[1].pos)
                          ELSE IF MapAt(j, m) < next' THEN Times(m, w) ELSE 0
  BY <1>1
<1> QED
  BY <1>2 DEF ExactLines, AtMap

\* The reducer has read one file more, and all its lines.
LEMMA CountsAtRead ==
  ASSUME MapReduceInv, CountsInv, NEW r \in Run, ReduceRead(r)
  PROVE  CountsInv'
<1> DEFINE h == handler[r]
           j == JobOf(r)
           i == FileOf(r)
           k == h.pos
           g == handler'[r]
<1>0. /\ h.state = "busy" /\ h.task.kind = "reduce"
      /\ UNCHANGED <<run, masterUp, next, calling, fileVars>>
  BY OneFile
<1>1. j \in Job /\ i \in Reducer /\ k \in Mapper
  BY OneFile
<1>2. \A m \in Mapper, w \in Word :
        g.seen[m][w] = IF m # k THEN h.seen[m][w] ELSE IF InPart(w, i) THEN lines[j][m][w] ELSE 0
  BY OneFile
<1>3. g.pos = k + 1 /\ g.state = "busy" /\ g.task = h.task
  BY OneFile
<1>4. \A q \in Run : q # r => handler'[q] = handler[q]
  BY OneFile
<1>5. h.task.job = j /\ h.task.i = i
  BY DEF JobOf, FileOf
<1>6. \A m \in Mapper : m < k + 1 <=> m < k \/ m = k
  BY <1>1 DEF Mapper
<1>7. h \in Handler
  BY DEF MapReduceInv, Typed
<1> HIDE DEF h, j, i, k, g
<1>8. EnoughLines'
  <2>1. \A l \in Job, m \in Mapper : MapAt(l, m) < next' => Enough(l, m)'
    BY <1>0 DEF CountsInv, EnoughLines, Enough, fileVars
  <2>2. ASSUME NEW q \in Run, q # r PROVE MapperCounts(q)' /\ ReducerCounts(q)'
    <3>1. MapperCounts(q) /\ ReducerCounts(q) /\ handler'[q] = handler[q]
      BY <1>4, <2>2 DEF CountsInv, EnoughLines
    <3> QED
      BY <1>0, <3>1 DEF MapperCounts, ReducerCounts, Enough, fileVars
  <2>3. /\ \A m \in Mapper : Enough(j, m)
        /\ \A m \in Mapper, w \in Word : m < k /\ InPart(w, i) => h.seen[m][w] >= Times(m, w)
    <3>1. ReducerCounts(r)
      BY DEF CountsInv, EnoughLines
    <3> QED
      BY <1>0, <1>5, <3>1 DEF ReducerCounts, h, k
  <2>4. \A m \in Mapper, w \in Word : m < k + 1 /\ InPart(w, i) => g.seen[m][w] >= Times(m, w)
    BY <1>2, <1>6, <2>3 DEF Enough
  <2>5. handler'[r].task.kind = "reduce" /\ handler'[r].task.job = j /\ handler'[r].task.i = i
    BY <1>0, <1>3, <1>5 DEF g
  <2>6. \A m \in Mapper, w \in Word : lines'[j][m][w] >= Times(m, w)
    BY <1>0, <2>3 DEF Enough, fileVars
  <2>7. ReducerCounts(r)'
    BY <1>3, <2>4, <2>5, <2>6 DEF ReducerCounts, g, Enough
  <2>8. MapperCounts(r)'
    BY <2>5 DEF MapperCounts
  <2> QED
    BY <2>1, <2>2, <2>7, <2>8 DEF EnoughLines
<1>9. ASSUME run <= 1 PROVE (MasterIsFirst /\ ExactLines /\ ExactTasks)'
  <2>1. r = 1 /\ run # 0 /\ MasterIsFirst /\ ExactLines /\ ExactTasks
    BY <1>0, <1>9, FirstHandler DEF h
  <2>2. handler[1] = h /\ handler'[1] = g
    BY <2>1 DEF g, h
  <2>3. MasterIsFirst'
    BY <1>0, <1>3, <1>4, <2>1, <2>2 DEF MasterIsFirst
  <2>4. \A l, m : ~AtMap(h, l, m) /\ ~AtMap(g, l, m)
    BY <1>0, <1>3 DEF AtMap
  <2>5. ExactLines'
    BY <1>0, <2>1, <2>2, <2>4, ExactlyKept DEF fileVars
  <2>6. \A m \in Mapper, w \in Word : lines[j][m][w] = Times(m, w)
    <3> TAKE m \in Mapper, w \in Word
    <3>1. Place(h.task) = ReduceAt(j, i)
      BY <1>0, <1>5 DEF Place
    <3>2. Place(h.task) <= next
      BY <1>0, <2>1, <2>2 DEF MasterIsFirst
    <3>3. MapAt(j, m) < next
      <4>1. next \in Nat /\ MapAt(j, m) \in Nat /\ ReduceAt(j, i) \in Nat /\ MapAt(j, m) < ReduceAt(j, i)
        BY <1>1, Places DEF MapReduceInv, Typed
      <4> QED
        BY <3>1, <3>2, <4>1
    <3> QED
      BY <1>1, <2>1, <2>2, <2>4, <3>3 DEF ExactLines
  <2>7. \A m \in Mapper, w \in Word :
          g.seen[m][w] = IF m < k + 1 /\ InPart(w, i) THEN Times(m, w) ELSE 0
    <3>1. \A m \in Mapper, w \in Word :
            h.seen[m][w] = IF m < k /\ InPart(w, i) THEN Times(m, w) ELSE 0
      BY <1>0, <1>5, <2>1, <2>2 DEF ExactTasks, k
    <3> QED
      BY <1>2, <1>6, <2>6, <3>1
  <2>8. ExactTasks'
    <3>1. /\ handler'[1].task.kind = "reduce" /\ handler'[1].task.i = i /\ handler'[1].pos = k + 1
      BY <1>0, <1>3, <1>5, <2>2
    <3>2. \A m \in Mapper, w \in Word :
            handler'[1].seen[m][w] = IF m < k + 1 /\ InPart(w, i) THEN Times(m, w) ELSE 0
      BY <2>2, <2>7
    <3> QED
      BY <3>1, <3>2 DEF ExactTasks
  <2> QED
    BY <2>3, <2>5, <2>8
<1>10. OutputCounts'
  BY <1>0 DEF CountsInv, OutputCounts, fileVars
<1> QED
  BY <1>0, <1>8, <1>9, <1>10 DEF CountsInv, FirstRun

\* A count adds up what was read of a word.
LEMMA CountsCompare ==
  ASSUME NEW seen \in [Mapper -> [Word -> Nat]], NEW w \in Word
  PROVE  /\ (\A m \in Mapper : seen[m][w] >= Times(m, w)) => CountOf(seen, w) >= Occurs(w)
         /\ (\A m \in Mapper : seen[m][w] = Times(m, w)) => CountOf(seen, w) = Occurs(w)
<1> DEFINE f == [m \in Mapper |-> Times(m, w)]
           g == [m \in Mapper |-> seen[m][w]]
<1>1. IsFiniteSet(Mapper)
  BY Numbers, FS_Interval DEF Mapper
<1>2. \A m \in Mapper : Times(m, w) \in Nat
  <2>1. 1 \in Nat \ {0}
    OBVIOUS
  <2> QED
    BY <2>1, Passing
<1>3. f \in [Mapper -> Int] /\ g \in [Mapper -> Int]
  <2>1. \A m \in Mapper : Times(m, w) \in Int /\ seen[m][w] \in Int
    BY <1>2
  <2> QED
    BY <2>1
<1>4. /\ Occurs(w) = SumFunction(f) /\ CountOf(seen, w) = SumFunction(g)
      /\ \A m \in Mapper : f[m] = Times(m, w) /\ g[m] = seen[m][w]
  BY DEF Occurs, CountOf
<1>5. ASSUME \A m \in Mapper : seen[m][w] = Times(m, w) PROVE f = g
  BY <1>5
<1> HIDE DEF f, g
<1>6. ASSUME \A m \in Mapper : seen[m][w] >= Times(m, w) PROVE CountOf(seen, w) >= Occurs(w)
  <2>1. PICK i : IntSums(i, f, Mapper) /\ SumFunction(f) = i[Mapper]
    BY <1>1, <1>3, FunctionSum
  <2>2. PICK j : IntSums(j, g, Mapper) /\ SumFunction(g) = j[Mapper]
    BY <1>1, <1>3, FunctionSum
  <2>3. \A m \in Mapper : f[m] <= g[m]
    BY <1>2, <1>4, <1>6
  <2>4. i[Mapper] <= j[Mapper]
    BY <2>1, <2>2, <2>3, SumsOrdered
  <2>5. i[Mapper] \in Int /\ j[Mapper] \in Int
    BY <2>1, <2>2 DEF IntSums
  <2> QED
    BY <1>4, <2>1, <2>2, <2>4, <2>5
<1> QED
  BY <1>4, <1>5, <1>6

\* A reducer of the word count has read all lines of all files.
LEMMA CountsAtWrite ==
  ASSUME MapReduceInv, CountsInv, NEW r \in Run, ReduceWrite(r)
  PROVE  CountsInv'
<1> DEFINE h == handler[r]
           j == JobOf(r)
           i == FileOf(r)
           o == Output(r)
<1>0. /\ h.state = "busy" /\ h.task.kind = "reduce"
      /\ UNCHANGED <<run, masterUp, next, calling, lines>>
  BY OneOutput
<1>1. j \in Job /\ i \in Reducer /\ h.pos \in Nat \ {0} /\ h.pos > NumMappers
  BY OneOutput
<1>2. /\ \A q \in Run : handler'[q].task = handler[q].task
      /\ handler'[r].state = "done" /\ \A q \in Run : q # r => handler'[q] = handler[q]
  BY OneOutput
<1>3. h.task.job = j /\ h.task.i = i
  BY DEF JobOf, FileOf
<1>4. h \in Handler /\ h.seen \in [Mapper -> [Word -> Nat]]
  <2>1. h \in Handler
    BY DEF MapReduceInv, Typed
  <2> QED
    BY <2>1 DEF Handler
<1>5. \A m \in Mapper : m < h.pos
  BY <1>1, Numbers DEF Mapper
<1>6. EnoughLines'
  <2>1. \A l \in Job, m \in Mapper : MapAt(l, m) < next' => Enough(l, m)'
    BY <1>0 DEF CountsInv, EnoughLines, Enough
  <2>2. ASSUME NEW q \in Run, q # r PROVE MapperCounts(q)' /\ ReducerCounts(q)'
    <3>1. MapperCounts(q) /\ ReducerCounts(q) /\ handler'[q] = handler[q]
      BY <1>2, <2>2 DEF CountsInv, EnoughLines
    <3> QED
      BY <1>0, <3>1 DEF MapperCounts, ReducerCounts, Enough
  <2>3. MapperCounts(r)' /\ ReducerCounts(r)'
    BY <1>0, <1>2 DEF MapperCounts, ReducerCounts
  <2> QED
    BY <2>1, <2>2, <2>3 DEF EnoughLines
<1>7. ASSUME run <= 1 PROVE (MasterIsFirst /\ ExactLines /\ ExactTasks)'
  <2>1. r = 1 /\ run # 0 /\ MasterIsFirst /\ ExactLines /\ ExactTasks
    BY <1>0, <1>7, FirstHandler
  <2>2. /\ handler'[1].task = h.task /\ handler'[1].state = "done" /\ handler[1] = h
        /\ handler'[1].task.kind = "reduce"
    BY <1>0, <1>2, <2>1
  <2>3. MasterIsFirst'
    <3>1. \A q \in Run \ {1} : handler'[q].state = "idle"
      BY <1>2, <2>1 DEF MasterIsFirst
    <3>2. Place(h.task) <= next /\ (masterUp /\ ~calling => Place(h.task) < next)
      BY <1>0, <2>1, <2>2 DEF MasterIsFirst
    <3> QED
      BY <1>0, <2>1, <2>2, <3>1, <3>2 DEF MasterIsFirst
  <2>4. \A l, m : ~AtMap(handler[1], l, m) /\ ~AtMap(handler'[1], l, m)
    BY <1>0, <2>2 DEF AtMap
  <2>5. ExactLines'
    BY <1>0, <2>1, <2>4, ExactlyKept
  <2>6. ExactTasks'
    BY <2>2 DEF ExactTasks
  <2> QED
    BY <2>3, <2>5, <2>6
<1>8. ASSUME j = "count", NEW w \in DOMAIN o
      PROVE  o[w] >= Occurs(w) /\ (run <= 1 => o[w] = Occurs(w))
  <2>1. w \in Word /\ FilesOf(h.seen, w) # {} /\ o[w] = CountOf(h.seen, w)
    BY <1>8 DEF Output, Found
  <2>2. InPart(w, i)
    <3>1. PICK m \in Mapper : h.seen[m][w] > 0
      BY <2>1 DEF FilesOf
    <3> QED
      BY <1>0, <1>3, <2>1, <3>1 DEF MapReduceInv, Handlers, HandlerReduces
  <2>3. \A m \in Mapper : h.seen[m][w] >= Times(m, w)
    <3>1. ReducerCounts(r)
      BY DEF CountsInv, EnoughLines
    <3> QED
      BY <1>0, <1>3, <1>5, <2>1, <2>2, <3>1 DEF ReducerCounts
  <2>4. ASSUME run <= 1 PROVE \A m \in Mapper : h.seen[m][w] = Times(m, w)
    <3>1. r = 1 /\ ExactTasks
      BY <1>0, <2>4, FirstHandler
    <3> QED
      BY <1>0, <1>3, <1>5, <2>1, <2>2, <3>1 DEF ExactTasks
  <2> HIDE DEF o, h
  <2> QED
    BY <1>4, <2>1, <2>3, <2>4, CountsCompare
<1> HIDE DEF o, j
<1>9. OutputCounts'
  <2>1. ASSUME NEW e \in ToSet(out'["count"]), NEW w \in DOMAIN e
        PROVE  e[w] >= Occurs(w) /\ (run' <= 1 => e[w] = Occurs(w))
    <3>1. CASE e \in ToSet(out["count"])
      BY <1>0, <3>1 DEF CountsInv, OutputCounts
    <3>2. CASE e \notin ToSet(out["count"])
      <4>1. j = "count" /\ e = o
        <5>1. ToSet(out'[j]) = ToSet(out[j]) \cup {o} /\ \A k \in Job : k # j => out'[k] = out[k]
          BY OneOutput DEF j, o
        <5> QED
          BY <3>2, <5>1 DEF Job
      <4> QED
        BY <1>0, <1>8, <4>1
    <3> QED
      BY <3>1, <3>2
  <2> QED
    BY <2>1 DEF OutputCounts, Occurs, Times
<1> QED
  BY <1>0, <1>6, <1>7, <1>9 DEF CountsInv, FirstRun

-----------------------------------------------------------------------------
LEMMA MasterCounts ==
  ASSUME MapReduceInv, CountsInv, MasterGoesOn \/ MasterDies
  PROVE  CountsInv'
<1>1. CASE Call
  BY <1>1, CountsAtStop, CountsAtCall
<1>2. CASE MasterDies \/ CallFails
  <2>1. UNCHANGED <<run, next, handler, fileVars>> /\ ~masterUp'
    BY <1>2 DEF MasterDies, CallFails, workerVars
  <2> QED
    BY <2>1, CountsKept
<1>3. CASE Finish
  <2>1. UNCHANGED <<run, next, handler, fileVars>> /\ ~masterUp'
    BY <1>3 DEF Finish, workerVars
  <2> QED
    BY <2>1, CountsKept
<1> QED
  BY <1>1, <1>2, <1>3, CountsAtAnswer DEF MasterGoesOn

LEMMA WorkersCount ==
  ASSUME MapReduceInv, CountsInv, NEW r \in Run,
         WorkerGoesOn(r) \/ ProcessGoesOn(r) \/ ProcessDies(r)
  PROVE  CountsInv'
<1>1. CASE WorkerGoesOn(r)
  BY <1>1, CountsAtWord, CountsAtMapEnd, CountsAtRead, CountsAtWrite DEF WorkerGoesOn
<1>2. CASE ProcessGoesOn(r) \/ ProcessDies(r)
  <2>1. UNCHANGED <<run, next, masterUp, calling, handler, fileVars>>
    BY <1>2 DEF ProcessGoesOn, RegistrationFails, Stops, ProcessDies, RegisterWorker, Listen, masterVars
  <2> QED
    BY <2>1, CountsKept
<1> QED
  BY <1>1, <1>2

LEMMA EveryStepCounts ==
  ASSUME MapReduceInv, CountsInv, [Next]_vars
  PROVE  CountsInv'
<1>1. CASE UNCHANGED vars
  BY <1>1, CountsKept DEF vars, masterVars, workerVars
<1> QED
  BY <1>1, CountsAtStart, MasterCounts, WorkersCount DEF Next

(***************************************************************************)
(* No line of the word count is too low; and in the first run in a         *)
(* directory every line is right (client/main.go:168-261).                 *)
(***************************************************************************)
THEOREM CountsRight == Spec => []CountsHold
<1>1. Init => CountsInv
  BY CountsInitially
<1>2. MapReduceInv /\ CountsInv /\ [Next]_vars => CountsInv'
  BY EveryStepCounts
<1>3. CountsInv => CountsHold
  <2> SUFFICES ASSUME OutputCounts PROVE CountsHold
    BY DEF CountsInv
  <2>1. run = 1 => run <= 1
    OBVIOUS
  <2> QED
    BY <2>1 DEF OutputCounts, CountsHold
<1> QED
  BY <1>1, <1>2, <1>3, Invariance, PTL DEF Spec
=============================================================================
