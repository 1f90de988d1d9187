----------------------------- MODULE MapReduce -----------------------------
(***************************************************************************)
(* The map-reduce: the master, server/main.go, which gives one task after  *)
(* the other to the workers in the order in which they registered, and the *)
(* process that hosts all workers, client/main.go.                         *)
(*                                                                         *)
(* Nothing is ever removed: intermediate and output files are appended to, *)
(* also by the next run, which starts in the same directory, possibly      *)
(* while a worker process of the last run is still at a task.              *)
(***************************************************************************)
EXTENDS Integers, Sequences, SequencesExt

CONSTANTS NumMappers, NumReducers,
          Word,       \* the words of the input, none with a colon
          Input,      \* the words of the file of each mapper
          Part,       \* the reducer that sha256 assigns to each word
          MaxRuns     \* bound: how often master and workers are started

Mapper  == 1..NumMappers
Reducer == 1..NumReducers
NumWorkers == IF NumMappers > NumReducers THEN NumMappers ELSE NumReducers
Worker  == 1..NumWorkers
Run     == 1..MaxRuns

ASSUME MapReduceAssumption == /\ NumMappers \in Nat \ {0} /\ NumReducers \in Nat \ {0}
                              /\ Input \in [Mapper -> Seq(Word)]
                              /\ Part \in [Word -> Reducer]
                              /\ MaxRuns \in Nat \ {0}

VARIABLES
  run,        \* the last run
  masterUp,
  finished,   \* the master of this run came to its end
  next,       \* the task it is at
  calling,    \* it waits for a worker
  conns,      \* the workers, each with its process, in the order they registered
  process,    \* per run, the process of the workers
  stage,      \* how far each worker of each process has come
  handler,    \* per run, the task its master gave last, as the worker does it
  lines,      \* per job and mapper, how often each word is in its files
  out         \* per job, what the reducers appended to the output file

masterVars == <<run, masterUp, finished, next, calling, conns>>
workerVars == <<process, stage, handler>>
fileVars   == <<lines, out>>
vars       == <<masterVars, workerVars, fileVars>>

Job == {"index", "count"}

\* What DivideTaskToWorkers does, call by call.
Calls(job, kind, n) == [i \in 1..n |-> [job |-> job, kind |-> kind, i |-> i]]
Tasks == Calls("index", "map", NumMappers) \o Calls("index", "reduce", NumReducers)
         \o Calls("count", "map", NumMappers) \o Calls("count", "reduce", NumReducers)
         \o Calls("none", "stop", NumWorkers)

NoLines == [w \in Word |-> 0]
Idle    == [state |-> "idle", proc |-> 0, task |-> Tasks[1], pos |-> 1,
            seen |-> [m \in Mapper |-> NoLines]]

TypeOK == /\ run \in 0..MaxRuns /\ masterUp \in BOOLEAN /\ finished \in BOOLEAN
          /\ next \in 1..(Len(Tasks) + 1) /\ calling \in BOOLEAN
          /\ Len(conns) <= MaxRuns * NumWorkers
          /\ process \in [Run -> {"unborn", "runs", "stopping", "gone"}]
          /\ stage \in [Run -> [Worker -> {"new", "registered", "listening"}]]
          /\ lines \in [Job -> [Mapper -> [Word -> Nat]]]
          /\ \A r \in Run : handler[r].state \in {"idle", "busy", "done"}

Init == /\ run = 0
        /\ masterUp = FALSE /\ finished = FALSE
        /\ next = 1 /\ calling = FALSE
        /\ conns = <<>>
        /\ process = [r \in Run |-> "unborn"]
        /\ stage = [r \in Run |-> [w \in Worker |-> "new"]]
        /\ handler = [r \in Run |-> Idle]
        /\ lines = [j \in Job |-> [m \in Mapper |-> NoLines]]
        /\ out = [j \in Job |-> <<>>]

-----------------------------------------------------------------------------
Alive(r) == process[r] \in {"runs", "stopping"}

\* Both programs are started, when the last master is gone.
StartRun == /\ ~masterUp
            /\ run < MaxRuns
            /\ run' = run + 1
            /\ masterUp' = TRUE /\ finished' = FALSE
            /\ next' = 1 /\ calling' = FALSE
            /\ conns' = <<>>
            /\ process' = [process EXCEPT ![run'] = "runs"]
            /\ UNCHANGED <<stage, handler, fileVars>>

\* A worker registers once.  Faulty variant: it may try again.
TriesAgain(r, w)   == stage[r][w] \in {"new", "registered"}
Unregistered(r, w) == stage[r][w] = "new"

\* RegisterWorker, at the master that runs now.
RegisterWorker(r, w) ==
  /\ Alive(r) /\ masterUp
  /\ Unregistered(r, w)
  /\ stage' = [stage EXCEPT ![r][w] = "registered"]
  /\ conns' = Append(conns, <<r, w>>)
  /\ UNCHANGED <<run, masterUp, finished, next, calling, process, handler, fileVars>>

\* The worker listens after that.
Listen(r, w) ==
  /\ Alive(r)
  /\ stage[r][w] = "registered"
  /\ stage' = [stage EXCEPT ![r][w] = "listening"]
  /\ UNCHANGED <<masterVars, process, handler, fileVars>>

\* The process dies with all its workers: it finds no master, is stopped or crashes.
ProcessDies(r) ==
  /\ Alive(r)
  /\ process' = [process EXCEPT ![r] = "gone"]
  /\ UNCHANGED <<masterVars, stage, handler, fileVars>>

RegistrationFails(r) == /\ ~masterUp
                        /\ \E w \in Worker : stage[r][w] # "listening"
                        /\ ProcessDies(r)

Stops(r) == process[r] = "stopping" /\ ProcessDies(r)

MasterDies == /\ masterUp
              /\ masterUp' = FALSE
              /\ calling' = FALSE
              /\ UNCHANGED <<run, finished, next, conns, workerVars, fileVars>>

-----------------------------------------------------------------------------
\* There is an i-th connection.  Faulty variant: one more is waited for.
OneMore(i)   == i < Len(conns)
Connected(i) == i <= Len(conns)

Current == Tasks[next]
AtCall  == masterUp /\ ~calling /\ next <= Len(Tasks)
Answers(i) == LET c == conns[i] IN Alive(c[1]) /\ stage[c[1]][c[2]] = "listening"

\* The master calls the i-th worker.  A stop task is answered at once.
Call ==
  /\ AtCall /\ Connected(Current.i) /\ Answers(Current.i)
  /\ LET r == conns[Current.i][1]
     IN  IF Current.kind = "stop"
         THEN /\ process' = [process EXCEPT ![r] = "stopping"]
              /\ next' = next + 1
              /\ UNCHANGED <<calling, handler>>
         ELSE /\ handler' = [handler EXCEPT ![run] =
                               [Idle EXCEPT !.state = "busy", !.proc = r, !.task = Current]]
              /\ calling' = TRUE
              /\ UNCHANGED <<process, next>>
  /\ UNCHANGED <<run, masterUp, finished, conns, stage, fileVars>>

\* Only the first map phase waits for the worker to register; later a missing
\* one is an index out of range.  A worker that does not answer is fatal.
CallFails == /\ \/ /\ AtCall /\ ~Connected(Current.i)
                   /\ <<Current.job, Current.kind>> # <<"index", "map">>
                \/ AtCall /\ Connected(Current.i) /\ ~Answers(Current.i)
                \/ calling /\ ~Alive(handler[run].proc)
             /\ MasterDies

Returns == /\ masterUp /\ calling
           /\ handler[run].state = "done" /\ Alive(handler[run].proc)
           /\ calling' = FALSE
           /\ next' = next + 1
           /\ UNCHANGED <<run, masterUp, finished, conns, workerVars, fileVars>>

Finish == /\ masterUp /\ ~calling /\ next > Len(Tasks)
          /\ masterUp' = FALSE
          /\ finished' = TRUE
          /\ UNCHANGED <<run, next, calling, conns, workerVars, fileVars>>

-----------------------------------------------------------------------------
Busy(r, kind) == /\ handler[r].state = "busy" /\ handler[r].task.kind = kind
                 /\ Alive(handler[r].proc)

Step(r) == handler' = [handler EXCEPT ![r].pos = @ + 1]
Done(r) == handler' = [handler EXCEPT ![r].state = "done"]

\* A map task appends one line for each word of its input.
MapWord(r) ==
  LET h == handler[r]  m == h.task.i
  IN  /\ Busy(r, "map") /\ h.pos <= Len(Input[m])
      /\ lines' = [lines EXCEPT ![h.task.job][m][Input[m][h.pos]] = @ + 1]
      /\ Step(r)
      /\ UNCHANGED <<masterVars, process, stage, out>>

MapDone(r) == /\ Busy(r, "map") /\ handler[r].pos > Len(Input[handler[r].task.i])
              /\ Done(r)
              /\ UNCHANGED <<masterVars, process, stage, fileVars>>

\* The words in the files for reducer i.  Faulty variant: counted from zero.
PartFromZero(w, i) == Part[w] = i - 1
InPart(w, i)       == Part[w] = i

\* What a reducer has once it has read the file of mapper m, too.
\* Faulty variant: each file replaces what was read before.
LastOnly(seen, m, read) == [k \in Mapper |-> IF k = m THEN read ELSE NoLines]
Collect(seen, m, read)  == [seen EXCEPT ![m] = read]

\* A line is split at its colons (lines 126, 215), which gives the word and the rest
\* back as long as the word has none, as in all files of dataset/.
ReduceRead(r) ==
  LET h == handler[r]
      read == [w \in Word |-> IF InPart(w, h.task.i) THEN lines[h.task.job][h.pos][w] ELSE 0]
  IN  /\ Busy(r, "reduce") /\ h.pos <= NumMappers
      /\ handler' = [handler EXCEPT ![r].pos = @ + 1,
                                    ![r].seen = Collect(@, h.pos, read)]
      /\ UNCHANGED <<masterVars, process, stage, fileVars>>

\* The files a word was read from, and how often it was read.
FilesOf(seen, w) == {m \in Mapper : seen[m][w] > 0}
CountOf(seen, w) == SumFunction([m \in Mapper |-> seen[m][w]])

\* At last it appends a line for each word to the output, under mu1.
ReduceWrite(r) ==
  LET h == handler[r]  found == {w \in Word : FilesOf(h.seen, w) # {}}
  IN  /\ Busy(r, "reduce") /\ h.pos > NumMappers
      /\ out' = [out EXCEPT ![h.task.job] = Append(@,
                   [w \in found |-> IF h.task.job = "index" THEN FilesOf(h.seen, w)
                                                            ELSE CountOf(h.seen, w)])]
      /\ Done(r)
      /\ UNCHANGED <<masterVars, process, stage, lines>>

MasterGoesOn  == Call \/ CallFails \/ Returns \/ Finish
WorkerGoesOn(r) == \/ MapWord(r) \/ MapDone(r) \/ ReduceRead(r) \/ ReduceWrite(r)
ProcessGoesOn(r) == \/ RegistrationFails(r) \/ Stops(r)
                    \/ \E w \in Worker : RegisterWorker(r, w) \/ Listen(r, w)

Next == \/ StartRun \/ MasterGoesOn \/ MasterDies
        \/ \E r \in Run : WorkerGoesOn(r) \/ ProcessGoesOn(r) \/ ProcessDies(r)

Spec == Init /\ [][Next]_vars

\* Every process goes on as long as it can; nobody has to start a run.
Fairness == /\ WF_vars(MasterGoesOn)
            /\ \A r \in Run : WF_vars(WorkerGoesOn(r)) /\ WF_vars(ProcessGoesOn(r))
FairSpec == Spec /\ Fairness

-----------------------------------------------------------------------------
(* Every line of inverted_index_task.txt names exactly the files with the  *)
(* word, also when runs were broken off and repeated over the same         *)
(* intermediate files, and old workers still write (client/main.go:103-    *)
(* 131): a reducer starts after all mappers of its run, and what others    *)
(* add to the files is what is there already.                              *)
FilesWith(w) == {m \in Mapper : Contains(Input[m], w)}
IndexIsExact == \A o \in ToSet(out["index"]) : \A w \in DOMAIN o : o[w] = FilesWith(w)

(* No line of word_count_task.txt is too low, and in the first run in a    *)
(* directory none is too high; later runs count what is left of earlier    *)
(* ones again.                                                             *)
Times(m, w) == Cardinality({p \in 1..Len(Input[m]) : Input[m][p] = w})
Occurs(w)   == SumFunction([m \in Mapper |-> Times(m, w)])
CountsHold == \A o \in ToSet(out["count"]) : \A w \in DOMAIN o :
                /\ o[w] >= Occurs(w)
                /\ run = 1 => o[w] = Occurs(w)

(* A run that came to its end has put every word into both outputs.        *)
FinishedIsComplete ==
  finished => \A j \in Job : \A w \in Word :
                FilesWith(w) # {} => \E o \in ToSet(out[j]) : w \in DOMAIN o

(* A master does not wait for ever, unless the workers of its run died     *)
(* before they registered: it finishes or fails.                           *)
MasterEnds == masterUp ~> (~masterUp \/ process[run] = "gone")
=============================================================================
