------------------------------ MODULE Generals ------------------------------
(***************************************************************************)
(* The Byzantine generals: the commander, server/main.go, and the process  *)
(* that hosts all its generals, client/main.go.  A general is a server on  *)
(* a port of its own, but the order and the range of ports are globals of  *)
(* the process: all generals read and write one order_global.              *)
(*                                                                         *)
(* Nothing but sleeps keeps the generals in step.  A timely behaviour is   *)
(* one where each sleep outlasts what the others do meanwhile; properties  *)
(* that need it say so.                                                    *)
(***************************************************************************)
EXTENDS Integers, Sequences, FiniteSets, SequencesExt

CONSTANTS N,   \* the commander and N - 1 generals
          T    \* how many of them may be dishonest, and the rounds of votes

ASSUME GeneralsAssumption == N \in Nat \ {0} /\ T \in Nat

General == 1..(N - 1)   \* the ports, counted from the first
Command == {"Attack", "Retreat"}

VARIABLES
  dishonest,     \* the dishonest generals; 0 is the commander
  timely,        \* whether the sleeps are long enough
  conns, generals,      \* the commander's two lists
  minPort, maxPort,     \* the commander's range
  stage, seen,   \* how far RegisterGeneral is for each general, what it read
  command,       \* what the commander says
  commanderRuns,
  ordered,       \* how many generals were called
  process,       \* the process of the generals
  order_global, min_port, max_port,   \* its globals
  at,            \* where consensus is for each general
  mp,            \* the connections of each
  asking,        \* the port it asks next
  round,
  asked,         \* per answer the generals that gave it in this round
  decided,       \* what each printed as its final order
  fooled         \* history: a vote without a majority of honest answers

commander == <<conns, generals, minPort, maxPort, stage, seen, command, commanderRuns, ordered>>
globals   == <<order_global, min_port, max_port>>
voting    == <<at, mp, asking, round, asked, decided, fooled>>
fixed     == <<dishonest, timely>>
vars      == <<fixed, commander, process, globals, voting>>

\* Before a registration, the range is empty.  As int32 the first bound is -1.
NoMin == N
NoMax == -2
Int32(port) == IF port = NoMin THEN -1 ELSE port

Stage == {"new", "connected", "enlisted", "minRead", "minWritten", "maxRead",
          "maxWritten", "listening"}
At    == {"none", "ordered", "voting", "voted", "decided"}
NoAnswers == [a \in Command |-> {}]

TypeOK == /\ dishonest \subseteq 0..(N - 1) /\ timely \in BOOLEAN
          /\ conns \in Seq(General) /\ IsPrefix(generals, conns)
          /\ minPort \in General \cup {NoMin} /\ maxPort \in General \cup {NoMax}
          /\ stage \in [General -> Stage]
          /\ command \in Command /\ commanderRuns \in BOOLEAN
          /\ ordered \in 0..Len(generals)
          /\ process \in {"runs", "exited", "died"}
          /\ order_global \in Command \cup {"none"}
          /\ at \in [General -> At]
          /\ round \in [General -> 0..T]
          /\ asked \in [General -> [Command -> SUBSET General]]
          /\ decided \in [General -> Command \cup {"none"}]
          /\ fooled \in BOOLEAN

Init == /\ dishonest \in {D \in SUBSET (0..(N - 1)) : Cardinality(D) <= T}
        /\ timely \in BOOLEAN
        /\ conns = <<>> /\ generals = <<>>
        /\ minPort = NoMin /\ maxPort = NoMax
        /\ stage = [g \in General |-> "new"]
        /\ seen = [g \in General |-> 0]
        /\ command \in Command
        /\ commanderRuns = TRUE
        /\ ordered = 0
        /\ process = "runs"
        /\ order_global = "none" /\ min_port = 0 /\ max_port = 0
        /\ at = [g \in General |-> "none"]
        /\ mp = [g \in General |-> {}]
        /\ asking = [g \in General |-> 0]
        /\ round = [g \in General |-> 0]
        /\ asked = [g \in General |-> NoAnswers]
        /\ decided = [g \in General |-> "none"]
        /\ fooled = FALSE

-----------------------------------------------------------------------------
Smaller(a, b) == IF a < b THEN a ELSE b
Larger(a, b)  == IF a > b THEN a ELSE b

Registers(g, from, to) == /\ commanderRuns /\ process = "runs"
                          /\ stage[g] = from
                          /\ stage' = [stage EXCEPT ![g] = to]
                          /\ UNCHANGED <<fixed, command, commanderRuns, ordered,
                                         process, globals, voting>>

\* RegisterGeneral appends to the two lists under the mutex ...
Connect(g) == /\ Registers(g, "new", "connected")
              /\ \A h \in General : stage[h] # "connected"
              /\ conns' = Append(conns, g)
              /\ UNCHANGED <<generals, minPort, maxPort, seen>>

Enlist(g) == /\ Registers(g, "connected", "enlisted")
             /\ generals' = Append(generals, g)
             /\ UNCHANGED <<conns, minPort, maxPort, seen>>

\* ... and reads and writes the range without it.
ReadMin(g) == /\ Registers(g, "enlisted", "minRead")
              /\ seen' = [seen EXCEPT ![g] = minPort]
              /\ UNCHANGED <<conns, generals, minPort, maxPort>>

WriteMin(g) == /\ Registers(g, "minRead", "minWritten")
               /\ minPort' = Smaller(seen[g], g)
               /\ seen' = [seen EXCEPT ![g] = 0]
               /\ UNCHANGED <<conns, generals, maxPort>>

ReadMax(g) == /\ Registers(g, "minWritten", "maxRead")
              /\ seen' = [seen EXCEPT ![g] = maxPort]
              /\ UNCHANGED <<conns, generals, minPort, maxPort>>

WriteMax(g) == /\ Registers(g, "maxRead", "maxWritten")
               /\ maxPort' = Larger(seen[g], g)
               /\ seen' = [seen EXCEPT ![g] = 0]
               /\ UNCHANGED <<conns, generals, minPort>>

\* A general listens once its registration was answered, and dies without an answer.
Listen(g) == /\ process = "runs"
             /\ stage[g] = "maxWritten"
             /\ stage' = [stage EXCEPT ![g] = "listening"]
             /\ UNCHANGED <<fixed, conns, generals, minPort, maxPort, seen, command,
                            commanderRuns, ordered, process, globals, voting>>

RegistrationFails == /\ process = "runs" /\ ~commanderRuns
                     /\ \E g \in General : stage[g] # "listening"
                     /\ process' = "died"
                     /\ UNCHANGED <<fixed, commander, globals, voting>>

-----------------------------------------------------------------------------
\* OrderGenerals waits without the mutex until the first list is full.
Ordering == commanderRuns /\ Len(conns) = N - 1 /\ ordered < N - 1

\* CommanderBroadcast overwrites the globals and starts consensus.
Order == /\ Ordering
         /\ ordered < Len(generals)
         /\ LET g == generals[ordered + 1]
            IN  /\ process = "runs" /\ stage[g] = "listening"
                /\ at' = [at EXCEPT ![g] = "ordered"]
         /\ \/ 0 \in dishonest /\ command' \in Command
            \/ 0 \notin dishonest /\ UNCHANGED command
         /\ order_global' = command'
         /\ min_port' = Int32(minPort)
         /\ max_port' = maxPort
         /\ ordered' = ordered + 1
         /\ UNCHANGED <<fixed, conns, generals, minPort, maxPort, stage, seen,
                        commanderRuns, process, mp, asking, round, asked, decided, fooled>>

\* generals[i] is out of range, or nobody answers at the port, or all is done.
CommanderEnds ==
  /\ commanderRuns
  /\ \/ Ordering /\ ordered >= Len(generals)
     \/ Ordering /\ ordered < Len(generals) /\ stage[generals[ordered + 1]] # "listening"
     \/ Ordering /\ process # "runs"
     \/ ordered = N - 1
  /\ commanderRuns' = FALSE
  /\ UNCHANGED <<fixed, conns, generals, minPort, maxPort, stage, seen, command,
                 ordered, process, globals, voting>>

-----------------------------------------------------------------------------
\* A sleep: when it is long enough, it lasts until no general is at these stages.
\* Faulty variant: nobody sleeps.
NoSleep(stages)  == TRUE
AfterAll(stages) == timely => \A g \in General : at[g] \notin stages

StartVote(g) == /\ round' = [round EXCEPT ![g] = @ + 1]
                /\ asking' = [asking EXCEPT ![g] = min_port]
                /\ asked' = [asked EXCEPT ![g] = NoAnswers]

\* consensus, before the loop: the connections to the ports in the range.
WakeUp(g) ==
  /\ process = "runs"
  /\ at[g] = "ordered"
  /\ timely => ~Ordering
  /\ mp' = [mp EXCEPT ![g] = (min_port..max_port) \ {g}]
  /\ IF T = 0
     THEN at' = [at EXCEPT ![g] = "voted"] /\ UNCHANGED <<round, asking, asked>>
     ELSE at' = [at EXCEPT ![g] = "voting"] /\ StartVote(g)
  /\ UNCHANGED <<fixed, commander, process, globals, decided, fooled>>

\* The port g asks next: not its own.
Asks(g) == IF asking[g] = g THEN g + 1 ELSE asking[g]

\* CrossVerification: a dishonest general says anything.
Answers(i) == IF i \in dishonest THEN Command ELSE {order_global}

Ask(g) ==
  /\ process = "runs"
  /\ at[g] = "voting" /\ Asks(g) <= max_port
  /\ LET i == Asks(g)
     IN  \/ /\ i \in mp[g] /\ i \in General /\ stage[i] = "listening"
            /\ asking' = [asking EXCEPT ![g] = i + 1]
            /\ \E a \in Answers(i) : asked' = [asked EXCEPT ![g][a] = @ \cup {i}]
            /\ UNCHANGED process
         \/ /\ ~(i \in mp[g] /\ i \in General /\ stage[i] = "listening")
            /\ process' = "died"
            /\ UNCHANGED <<asking, asked>>
  /\ UNCHANGED <<fixed, commander, globals, at, mp, round, decided, fooled>>

\* Faulty variant: the vote goes to the minority.
MinorityOf(g) == IF Cardinality(asked[g]["Attack"]) >= Cardinality(asked[g]["Retreat"])
                 THEN "Retreat" ELSE "Attack"
\* A tie is an attack.
MajorityOf(g) == IF Cardinality(asked[g]["Attack"]) >= Cardinality(asked[g]["Retreat"])
                 THEN "Attack" ELSE "Retreat"

HonestMajority(g) == LET all == UNION {asked[g][a] : a \in Command}
                     IN  2 * Cardinality(all \cap dishonest) < Cardinality(all)

Vote(g) ==
  /\ process = "runs"
  /\ at[g] = "voting" /\ Asks(g) > max_port
  /\ order_global' = MajorityOf(g)
  /\ fooled' = (fooled \/ ~HonestMajority(g))
  /\ at' = [at EXCEPT ![g] = "voted"]
  /\ asking' = [asking EXCEPT ![g] = 0]
  /\ asked' = [asked EXCEPT ![g] = NoAnswers]
  /\ UNCHANGED <<fixed, commander, process, min_port, max_port, mp, round, decided>>

\* The loop runs T times.  Faulty variant: once more.
OneRoundMore(g) == round[g] <= T
MoreRounds(g)   == round[g] < T

VoteAgain(g) ==
  /\ process = "runs"
  /\ at[g] = "voted" /\ MoreRounds(g)
  /\ AfterAll({"ordered", "voting"}) \/ \E h \in General : round[h] > round[g]
  /\ at' = [at EXCEPT ![g] = "voting"]
  /\ StartVote(g)
  /\ UNCHANGED <<fixed, commander, process, globals, mp, decided, fooled>>

Decide(g) ==
  /\ process = "runs"
  /\ at[g] = "voted" /\ ~MoreRounds(g)
  /\ AfterAll({"ordered", "voting"})
  /\ timely => \A h \in General : at[h] = "voted" => ~MoreRounds(h)
  /\ decided' = [decided EXCEPT ![g] = order_global]
  /\ at' = [at EXCEPT ![g] = "decided"]
  /\ mp' = [mp EXCEPT ![g] = {}]
  /\ UNCHANGED <<fixed, commander, process, globals, asking, round, asked, fooled>>

\* The first general that is done ends the process for all.
\* Faulty variant: the process waits for all of them.
AllDone == \A g \in General : at[g] = "decided"
Done    == \E g \in General : at[g] = "decided"

Exit == /\ process = "runs"
        /\ Done
        /\ AfterAll({"ordered", "voting", "voted"})
        /\ process' = "exited"
        /\ UNCHANGED <<fixed, commander, globals, voting>>

Registration(g) == \/ Connect(g) \/ Enlist(g) \/ ReadMin(g) \/ WriteMin(g)
                   \/ ReadMax(g) \/ WriteMax(g) \/ Listen(g)
Consensus(g)    == WakeUp(g) \/ Ask(g) \/ Vote(g) \/ VoteAgain(g) \/ Decide(g)

Next == \/ \E g \in General : Registration(g) \/ Consensus(g)
        \/ RegistrationFails \/ Order \/ CommanderEnds \/ Exit

Spec == Init /\ [][Next]_vars

\* Somebody goes on as long as anybody can: every behaviour is finite, so that
\* this is all the scheduler has to give.
Fairness == WF_vars(Next)
FairSpec == Spec /\ Fairness

-----------------------------------------------------------------------------
(* README.md:96, as far as the code goes: with an honest commander every   *)
(* final order is his, however the generals interleave and whatever the    *)
(* registration made of the range, provided that in every vote more than   *)
(* half of the answers came from honest generals.                          *)
HonestOrderObeyed ==
  0 \notin dishonest /\ ~fooled => \A g \in General : decided[g] \in {"none", command}

(* When the sleeps are long enough, the generals print the same final      *)
(* order, also under a dishonest commander and whoever lies: what is       *)
(* printed is the shared order_global after the last vote of all.          *)
Agreement == timely => \A g, h \in General :
                         \/ "none" \in {decided[g], decided[h]}
                         \/ decided[g] = decided[h]

(* Once a general has an order, the voting does not go on for ever: the     *)
(* process of the generals ends, also when the commander dies before he    *)
(* has called all of them.                                                 *)
VotesEnd == (\E g \in General : at[g] = "ordered") ~> process # "runs"

(* README.md:74: N = 3T + 1 is enough to tolerate T dishonest generals.    *)
(* Stated for the best case: enough time, every general called, and each   *)
(* of them told the whole range.                                           *)
Tolerates ==
  timely /\ 0 \notin dishonest /\ N >= 3 * T + 1
  /\ ordered = N - 1 /\ min_port = 1 /\ max_port = N - 1
    => \A g \in General : decided[g] \in {"none", command}
=============================================================================
