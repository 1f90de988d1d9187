--------------------------- MODULE GeneralsProofs ---------------------------
(***************************************************************************)
(* Proofs about the generals, for every number of them and every T.        *)
(***************************************************************************)
EXTENDS Generals, FiniteSetTheorems, TLAPS

(***************************************************************************)
(* What TypeOK needs to be inductive.  The two lists of the commander      *)
(* differ by at most the general that holds the mutex, nobody is in them   *)
(* twice, and so nobody is ordered twice.                                  *)
(***************************************************************************)
Lists ==
  /\ generals \in Seq(General)
  /\ \/ conns = generals /\ \A g \in General : stage[g] # "connected"
     \/ \E g \in General : /\ conns = Append(generals, g)
                           /\ \A h \in General : stage[h] = "connected" <=> h = g
  /\ \A i \in 1..Len(generals) : stage[generals[i]] \notin {"new", "connected"}
  /\ \A i, j \in 1..Len(generals) : generals[i] = generals[j] => i = j

Called ==
  /\ \A g \in General : at[g] # "none" => \E i \in 1..ordered : generals[i] = g
  /\ \A g \in General : at[g] \in {"none", "ordered"} => round[g] = 0

Ranges ==
  /\ seen \in [General -> Int]
  /\ \A g \in General : /\ stage[g] = "minRead" => seen[g] \in General \cup {NoMin}
                        /\ stage[g] = "maxRead" => seen[g] \in General \cup {NoMax}
  /\ min_port \in Int /\ max_port \in Int
  /\ asking \in [General -> Int]
  /\ mp \in [General -> SUBSET Int]

TypeInv == TypeOK /\ Lists /\ Called /\ Ranges

-----------------------------------------------------------------------------
LEMMA InitTypeInv == Init => TypeInv
<1> SUFFICES ASSUME Init PROVE TypeInv
  OBVIOUS
<1>1. IsPrefix(generals, conns) /\ generals \in Seq(General) /\ Len(generals) = 0
  BY DEF Init, IsPrefix
<1>2. TypeOK
  <2>1. asked \in [General -> [Command -> SUBSET General]]
    BY DEF Init, NoAnswers
  <2>2. ordered \in 0..Len(generals) /\ round \in [General -> 0..T]
    BY <1>1, GeneralsAssumption DEF Init
  <2> QED
    BY <1>1, <2>1, <2>2 DEF Init, TypeOK, Stage, At
<1>3. Lists /\ Called
  BY <1>1 DEF Init, Lists, Called
<1>4. Ranges
  BY DEF Init, Ranges, General
<1> QED
  BY <1>2, <1>3, <1>4 DEF TypeInv

\* The second list begins the first.
LEMMA PrefixOfAppend ==
  ASSUME NEW s \in Seq(General), NEW g \in General
  PROVE  IsPrefix(s, s) /\ IsPrefix(s, Append(s, g))
BY DEF IsPrefix

LEMMA RegistrationType ==
  ASSUME TypeInv, NEW g \in General, Registration(g)
  PROVE  TypeInv'
<1> USE DEF TypeInv
<1>0. /\ UNCHANGED <<fixed, command, commanderRuns, ordered, process, globals, voting>>
      /\ N \in Nat \ {0} /\ T \in Nat
  BY GeneralsAssumption DEF Registration, Connect, Enlist, ReadMin, WriteMin, ReadMax, WriteMax,
       Listen, Registers
<1>1. stage' \in [General -> Stage]
  BY DEF TypeOK, Registration, Connect, Enlist, ReadMin, WriteMin, ReadMax, WriteMax,
       Listen, Registers, Stage
<1>2. minPort' \in General \cup {NoMin} /\ maxPort' \in General \cup {NoMax}
  <2>1. CASE WriteMin(g)
    BY <1>0, <2>1 DEF TypeOK, Ranges, WriteMin, Registers, Smaller
  <2>2. CASE WriteMax(g)
    BY <1>0, <2>2 DEF TypeOK, Ranges, WriteMax, Registers, Larger
  <2>3. CASE ~WriteMin(g) /\ ~WriteMax(g)
    <3>1. UNCHANGED <<minPort, maxPort>>
      BY <2>3 DEF Registration, Connect, Enlist, ReadMin, ReadMax, Listen
    <3> QED
      BY <3>1 DEF TypeOK
  <2> QED
    BY <2>1, <2>2, <2>3
<1>3. /\ seen' \in [General -> Int]
      /\ \A h \in General : /\ stage'[h] = "minRead" => seen'[h] \in General \cup {NoMin}
                            /\ stage'[h] = "maxRead" => seen'[h] \in General \cup {NoMax}
  <2>1. CASE ReadMin(g)
    <3>1. minPort \in Int
      BY <1>0 DEF TypeOK, General, NoMin
    <3> QED
      BY <2>1, <3>1 DEF ReadMin, Registers, TypeOK, Ranges
  <2>2. CASE ReadMax(g)
    <3>1. maxPort \in Int
      BY <1>0 DEF TypeOK, General, NoMax
    <3> QED
      BY <2>2, <3>1 DEF ReadMax, Registers, TypeOK, Ranges
  <2>3. CASE WriteMin(g) \/ WriteMax(g)
    <3>1. /\ seen' = [seen EXCEPT ![g] = 0]
          /\ \E s \in Stage \ {"minRead", "maxRead"} : stage' = [stage EXCEPT ![g] = s]
      BY <2>3 DEF WriteMin, WriteMax, Registers, Stage
    <3> QED
      BY <3>1 DEF TypeOK, Ranges
  <2>4. CASE Connect(g) \/ Enlist(g) \/ Listen(g)
    <3>1. /\ seen' = seen
          /\ \E s \in Stage \ {"minRead", "maxRead"} : stage' = [stage EXCEPT ![g] = s]
      BY <2>4 DEF Connect, Enlist, Listen, Registers, Stage
    <3> QED
      BY <3>1 DEF TypeOK, Ranges
  <2> QED
    BY <2>1, <2>2, <2>3, <2>4 DEF Registration
<1>4. Lists' /\ conns' \in Seq(General) /\ IsPrefix(generals', conns')
      /\ Len(generals') >= Len(generals)
      /\ \A i \in 1..Len(generals) : generals'[i] = generals[i]
  <2>1. CASE Connect(g)
    <3>1. conns = generals /\ conns' = Append(generals, g) /\ generals' = generals
          /\ stage' = [stage EXCEPT ![g] = "connected"]
      BY <2>1 DEF Connect, Registers, Lists
    <3>2. \A h \in General : stage'[h] = "connected" <=> h = g
      BY <2>1, <3>1 DEF Connect, TypeOK
    <3>3. stage[g] = "new"
      BY <2>1 DEF Connect, Registers
    <3>4. \A i \in 1..Len(generals) : stage'[generals[i]] \notin {"new", "connected"}
      BY <3>1, <3>3 DEF Lists, TypeOK
    <3> QED
      BY <3>1, <3>2, <3>4, PrefixOfAppend DEF Lists
  <2>2. CASE Enlist(g)
    <3>1. conns = Append(generals, g) /\ conns' = conns /\ generals' = Append(generals, g)
          /\ stage' = [stage EXCEPT ![g] = "enlisted"] /\ stage[g] = "connected"
      BY <2>2 DEF Enlist, Registers, Lists
    <3>2. \A h \in General : stage'[h] # "connected"
      BY <3>1 DEF Lists, TypeOK
    <3>3. \A i \in 1..Len(generals') : stage'[generals'[i]] \notin {"new", "connected"}
      BY <3>1 DEF Lists, TypeOK
    <3>4. \A i \in 1..Len(generals) : generals[i] # g
      BY <3>1 DEF Lists
    <3>5. \A i, j \in 1..Len(generals') : generals'[i] = generals'[j] => i = j
      <4>1. /\ Len(generals') = Len(generals) + 1 /\ generals'[Len(generals) + 1] = g
            /\ \A i \in 1..Len(generals) : generals'[i] = generals[i]
        BY <3>1 DEF Lists
      <4> QED
        BY <3>4, <4>1 DEF Lists
    <3>6. /\ generals' \in Seq(General) /\ conns' = generals'
          /\ Len(generals') >= Len(generals)
          /\ \A i \in 1..Len(generals) : generals'[i] = generals[i]
      BY <3>1 DEF Lists
    <3>7. IsPrefix(generals', generals')
      BY <3>6, PrefixOfAppend
    <3> QED
      BY <3>2, <3>3, <3>5, <3>6, <3>7 DEF Lists
  <2>3. CASE ~Connect(g) /\ ~Enlist(g)
    <3>1. /\ UNCHANGED <<conns, generals>>
          /\ stage[g] \notin {"new", "connected"}
          /\ \E s \in Stage \ {"new", "connected"} : stage' = [stage EXCEPT ![g] = s]
      BY <2>3 DEF Registration, ReadMin, WriteMin, ReadMax, WriteMax, Listen, Registers, Stage
    <3> QED
      BY <3>1 DEF Lists, TypeOK
  <2> QED
    BY <2>1, <2>2, <2>3
<1>5. Called'
  <2>1. UNCHANGED <<at, round, ordered>> /\ ordered \in 0..Len(generals)
    BY <1>0 DEF voting, TypeOK
  <2>2. ASSUME NEW h \in General, at[h] # "none"
        PROVE  \E i \in 1..ordered : generals'[i] = h
    <3>1. PICK i \in 1..ordered : generals[i] = h
      BY <2>2 DEF Called
    <3>2. i \in 1..Len(generals) /\ i \in 1..ordered'
      BY <2>1 DEF Lists
    <3>3. generals'[i] = h
      BY <1>4, <3>1, <3>2
    <3> QED
      BY <2>1, <3>2, <3>3
  <2> QED
    BY <2>1, <2>2 DEF Called
<1>6. TypeOK'
  BY <1>0, <1>1, <1>2, <1>4 DEF TypeOK, fixed, globals, voting
<1>7. Ranges'
  BY <1>0, <1>3 DEF Ranges, globals, voting
<1> QED
  BY <1>4, <1>5, <1>6, <1>7

\* Who is ordered now was never ordered before.
LEMMA OrderedOnce ==
  ASSUME TypeInv, Order
  PROVE  generals[ordered + 1] \in General /\ at[generals[ordered + 1]] = "none"
<1> DEFINE g == generals[ordered + 1]
<1>1. ordered \in Nat /\ Len(generals) \in Nat /\ ordered < Len(generals) /\ g \in General
  BY DEF Order, TypeInv, TypeOK, Lists
<1>2. \A i \in 1..ordered : generals[i] # g
  BY <1>1 DEF TypeInv, Lists
<1> QED
  BY <1>1, <1>2 DEF TypeInv, Called

LEMMA OrderType ==
  ASSUME TypeInv, Order
  PROVE  TypeInv'
<1> USE DEF TypeInv
<1> DEFINE g == generals[ordered + 1]
<1>0. /\ UNCHANGED <<fixed, conns, generals, minPort, maxPort, stage, seen,
                     commanderRuns, process, mp, asking, round, asked, decided, fooled>>
      /\ ordered < Len(generals) /\ ordered \in Nat
      /\ ordered' = ordered + 1
      /\ at' = [at EXCEPT ![g] = "ordered"]
  BY DEF Order, TypeOK
<1>1. g \in General /\ Len(generals) \in Nat
  BY <1>0 DEF Lists
<1>2. at[g] = "none"
  BY OrderedOnce
<1>3. TypeOK'
  <2>1. command' \in Command
    BY DEF Order, TypeOK
  <2>2. order_global' = command' /\ at' \in [General -> At]
    BY <1>0, <1>1 DEF Order, TypeOK, At
  <2> QED
    BY <1>0, <1>1, <2>1, <2>2 DEF TypeOK, fixed
<1>4. Lists'
  BY <1>0 DEF Lists
<1>5. Called'
  <2>1. ASSUME NEW h \in General, at'[h] # "none"
        PROVE  \E i \in 1..ordered' : generals'[i] = h
    <3>1. CASE h = g
      BY <1>0, <1>1, <3>1
    <3>2. CASE h # g
      BY <1>0, <1>1, <2>1, <3>2 DEF Called, TypeOK
    <3> QED
      BY <3>1, <3>2
  <2>2. \A h \in General : at'[h] \in {"none", "ordered"} => round'[h] = 0
    BY <1>0, <1>1, <1>2 DEF Called, TypeOK
  <2> QED
    BY <2>1, <2>2 DEF Called
<1>6. Ranges'
  <2>1. min_port' \in Int /\ max_port' \in Int
    BY GeneralsAssumption DEF Order, TypeOK, Int32, NoMin, NoMax, General
  <2> QED
    BY <1>0, <2>1 DEF Ranges
<1> QED
  BY <1>3, <1>4, <1>5, <1>6

\* What a vote leaves alone.
LEMMA ConsensusUnchanged ==
  ASSUME NEW g \in General, Consensus(g)
  PROVE  UNCHANGED <<fixed, commander, min_port, max_port>>
BY DEF Consensus, WakeUp, Ask, Vote, VoteAgain, Decide, globals

LEMMA ConsensusType ==
  ASSUME TypeInv, NEW g \in General, Consensus(g)
  PROVE  TypeInv'
<1> USE DEF TypeInv
<1>0. /\ UNCHANGED <<fixed, commander, min_port, max_port>>
      /\ T \in Nat
  BY ConsensusUnchanged, GeneralsAssumption
<1>1. Lists'
  BY <1>0 DEF Lists, commander
<1>2. at[g] # "none" /\ at' \in [General -> At] /\ \A h \in General : h # g => at'[h] = at[h]
  BY DEF Consensus, WakeUp, Ask, Vote, VoteAgain, Decide, TypeOK, At
<1>3. /\ round' \in [General -> 0..T]
      /\ \A h \in General : at'[h] \in {"none", "ordered"} => round'[h] = 0
  <2>1. CASE WakeUp(g)
    <3>1. round[g] = 0
      BY <2>1 DEF WakeUp, Called
    <3>2. \/ round' = round /\ at' = [at EXCEPT ![g] = "voted"]
          \/ round' = [round EXCEPT ![g] = 1] /\ T >= 1 /\ at' = [at EXCEPT ![g] = "voting"]
      BY <1>0, <2>1, <3>1 DEF WakeUp, StartVote
    <3> QED
      BY <1>0, <3>2 DEF TypeOK, Called, At
  <2>2. CASE VoteAgain(g)
    BY <1>0, <2>2 DEF VoteAgain, MoreRounds, StartVote, TypeOK, Called
  <2>3. CASE Ask(g) \/ Vote(g) \/ Decide(g)
    BY <2>3 DEF Ask, Vote, Decide, TypeOK, Called
  <2> QED
    BY <2>1, <2>2, <2>3 DEF Consensus
<1>4. Called'
  BY <1>0, <1>2, <1>3 DEF Called, commander
<1>5. asked' \in [General -> [Command -> SUBSET General]]
  <2>1. NoAnswers \in [Command -> SUBSET General]
    BY DEF NoAnswers
  <2>2. CASE Ask(g)
    <3>1. CASE UNCHANGED asked
      BY <3>1 DEF TypeOK
    <3>2. ASSUME NEW i \in General, NEW a,
                 asked' = [asked EXCEPT ![g][a] = @ \cup {i}]
          PROVE  asked' \in [General -> [Command -> SUBSET General]]
      <4>1. asked[g] \in [Command -> SUBSET General]
        BY DEF TypeOK
      <4>2. [asked[g] EXCEPT ![a] = @ \cup {i}] \in [Command -> SUBSET General]
        BY <4>1
      <4>3. asked' = [asked EXCEPT ![g] = [asked[g] EXCEPT ![a] = @ \cup {i}]]
        BY <3>2
      <4> QED
        BY <4>2, <4>3 DEF TypeOK
    <3> QED
      BY <2>2, <3>1, <3>2 DEF Ask
  <2>3. CASE ~Ask(g)
    <3>1. asked' = asked \/ asked' = [asked EXCEPT ![g] = NoAnswers]
      BY <2>3 DEF Consensus, WakeUp, Vote, VoteAgain, Decide, StartVote
    <3> QED
      BY <2>1, <3>1 DEF TypeOK
  <2> QED
    BY <2>2, <2>3
<1>6. /\ process' \in {"runs", "exited", "died"}
      /\ order_global' \in Command \cup {"none"}
      /\ decided' \in [General -> Command \cup {"none"}]
      /\ fooled' \in BOOLEAN
  BY DEF Consensus, WakeUp, Ask, Vote, VoteAgain, Decide, TypeOK, globals, MajorityOf, Command
<1>7. /\ asking' \in [General -> Int]
      /\ mp' \in [General -> SUBSET Int]
  <2>1. Asks(g) \in Int
    BY DEF Asks, Ranges, General
  <2>2. (min_port..max_port) \ {g} \in SUBSET Int
    OBVIOUS
  <2>3. \/ asking' = asking
        \/ \E n \in Int : asking' = [asking EXCEPT ![g] = n]
    BY <2>1 DEF Consensus, WakeUp, Ask, Vote, VoteAgain, Decide, StartVote, Ranges
  <2>4. \/ mp' = mp
        \/ \E S \in SUBSET Int : mp' = [mp EXCEPT ![g] = S]
    BY <2>2 DEF Consensus, WakeUp, Ask, Vote, VoteAgain, Decide
  <2> QED
    BY <2>3, <2>4 DEF Ranges
<1>8. TypeOK'
  BY <1>0, <1>2, <1>3, <1>5, <1>6 DEF TypeOK, fixed, commander
<1>9. Ranges'
  BY <1>0, <1>7 DEF Ranges, commander
<1> QED
  BY <1>1, <1>4, <1>8, <1>9

LEMMA NextTypeInv == TypeInv /\ [Next]_vars => TypeInv'
<1> SUFFICES ASSUME TypeInv, [Next]_vars PROVE TypeInv'
  OBVIOUS
<1>1. CASE RegistrationFails \/ CommanderEnds \/ Exit \/ UNCHANGED vars
  <2>1. /\ UNCHANGED <<fixed, conns, generals, minPort, maxPort, stage, seen, command, ordered,
                       globals, voting>>
        /\ commanderRuns' \in BOOLEAN /\ process' \in {"runs", "exited", "died"}
    BY <1>1 DEF RegistrationFails, CommanderEnds, Exit, vars, commander, TypeInv, TypeOK
  <2>2. TypeOK'
    BY <2>1 DEF TypeInv, TypeOK, fixed, globals, voting
  <2>3. Lists' /\ Called'
    BY <2>1 DEF TypeInv, Lists, Called, voting
  <2>4. Ranges'
    BY <2>1 DEF TypeInv, Ranges, globals, voting
  <2> QED
    BY <2>2, <2>3, <2>4 DEF TypeInv
<1> QED
  BY <1>1, RegistrationType, OrderType, ConsensusType DEF Next

\* The lists, the rounds and the answers are what they are taken to be.
THEOREM TypeCorrect == Spec => []TypeOK
<1>1. Spec => []TypeInv
  BY InitTypeInv, NextTypeInv, PTL DEF Spec
<1> QED
  BY <1>1, PTL DEF TypeInv

-----------------------------------------------------------------------------
(***************************************************************************)
(* With an honest commander and no vote fooled: once anybody was called,   *)
(* the shared order is his, and whoever answered otherwise has lied.       *)
(***************************************************************************)
ObeyInv ==
  0 \notin dishonest /\ ~fooled =>
    /\ \A g \in General : at[g] # "none" => order_global = command
    /\ \A g \in General, a \in Command \ {command} : asked[g][a] \subseteq dishonest
    /\ \A g \in General : decided[g] \in {"none", command}

\* More than half of the answers are honest: a majority of them is.
LEMMA MajorityIsHonest ==
  ASSUME NEW g \in General, asked \in [General -> [Command -> SUBSET General]],
         command \in Command, HonestMajority(g),
         \A a \in Command \ {command} : asked[g][a] \subseteq dishonest
  PROVE  MajorityOf(g) = command
<1> DEFINE A == asked[g]["Attack"]
           R == asked[g]["Retreat"]
           all == A \cup R
<1>1. IsFiniteSet(A) /\ IsFiniteSet(R) /\ IsFiniteSet(all) /\ IsFiniteSet(all \cap dishonest)
  <2>1. IsFiniteSet(General)
    BY FS_Interval, GeneralsAssumption DEF General
  <2>2. A \in SUBSET General /\ R \in SUBSET General /\ all \in SUBSET General
    BY DEF Command
  <2>3. IsFiniteSet(A) /\ IsFiniteSet(R) /\ IsFiniteSet(all)
    BY <2>1, <2>2, FS_Subset
  <2> QED
    BY <2>3, FS_Intersection
<1>2. /\ Cardinality(A) \in Nat /\ Cardinality(R) \in Nat
      /\ Cardinality(all) \in Nat /\ Cardinality(all \cap dishonest) \in Nat
      /\ Cardinality(A \cap R) \in Nat
  <2>1. IsFiniteSet(A \cap R)
    BY <1>1, FS_Intersection
  <2> QED
    BY <1>1, <2>1, FS_CardinalityType
<1>3. Cardinality(all) <= Cardinality(A) + Cardinality(R)
  <2>1. Cardinality(all) = Cardinality(A) + Cardinality(R) - Cardinality(A \cap R)
    BY <1>1, FS_Union
  <2> QED
    BY <1>2, <2>1
<1>4. 2 * Cardinality(all \cap dishonest) < Cardinality(all)
  <2>1. all = UNION {asked[g][a] : a \in Command}
    BY DEF Command
  <2> QED
    BY <2>1 DEF HonestMajority
<1>5. CASE command = "Attack"
  <2>1. R \in SUBSET (all \cap dishonest)
    BY <1>5 DEF Command
  <2>2. Cardinality(R) <= Cardinality(all \cap dishonest)
    BY <1>1, <2>1, FS_Subset
  <2> QED
    BY <1>2, <1>3, <1>4, <1>5, <2>2 DEF MajorityOf
<1>6. CASE command = "Retreat"
  <2>1. A \in SUBSET (all \cap dishonest)
    BY <1>6 DEF Command
  <2>2. Cardinality(A) <= Cardinality(all \cap dishonest)
    BY <1>1, <2>1, FS_Subset
  <2> QED
    BY <1>2, <1>3, <1>4, <1>6, <2>2 DEF MajorityOf
<1> QED
  BY <1>5, <1>6 DEF Command

LEMMA ObeyConsensus ==
  ASSUME TypeInv, ObeyInv, NEW g \in General, Consensus(g)
  PROVE  ObeyInv'
<1> SUFFICES ASSUME 0 \notin dishonest', ~fooled'
             PROVE  /\ \A h \in General : at'[h] # "none" => order_global' = command'
                    /\ \A h \in General, a \in Command \ {command'} : asked'[h][a] \subseteq dishonest'
                    /\ \A h \in General : decided'[h] \in {"none", command'}
  BY DEF ObeyInv
<1>0. /\ UNCHANGED <<dishonest, command>>
      /\ 0 \notin dishonest /\ ~fooled
      /\ at[g] # "none" /\ command \in Command
      /\ asked \in [General -> [Command -> SUBSET General]]
  <2>1. UNCHANGED <<dishonest, command>>
    BY ConsensusUnchanged DEF fixed, commander
  <2>2. fooled => fooled'
    BY DEF Consensus, WakeUp, Ask, Vote, VoteAgain, Decide
  <2>3. at[g] # "none"
    BY DEF Consensus, WakeUp, Ask, Vote, VoteAgain, Decide
  <2> QED
    BY <2>1, <2>2, <2>3 DEF TypeInv, TypeOK
<1>1. /\ order_global = command
      /\ \A h \in General, a \in Command \ {command} : asked[h][a] \subseteq dishonest
      /\ \A h \in General : decided[h] \in {"none", command}
  BY <1>0 DEF ObeyInv
<1>2. order_global' = command
  <2>1. CASE Vote(g)
    <3>1. HonestMajority(g)
      BY <2>1 DEF Vote
    <3> QED
      BY <1>0, <1>1, <2>1, <3>1, MajorityIsHonest DEF Vote
  <2>2. CASE ~Vote(g)
    BY <1>1, <2>2 DEF Consensus, WakeUp, Ask, VoteAgain, Decide, globals
  <2> QED
    BY <2>1, <2>2
<1>3. \A h \in General, a \in Command \ {command} : asked'[h][a] \subseteq dishonest
  <2>1. CASE Ask(g)
    <3>1. CASE asked' = asked
      BY <1>1, <3>1
    <3>2. CASE \E b \in Answers(Asks(g)) : asked' = [asked EXCEPT ![g][b] = @ \cup {Asks(g)}]
      <4>1. PICK b \in Answers(Asks(g)) : asked' = [asked EXCEPT ![g][b] = @ \cup {Asks(g)}]
        BY <3>2
      <4>2. b = command \/ Asks(g) \in dishonest
        BY <1>1 DEF Answers
      <4> QED
        BY <1>0, <1>1, <4>1, <4>2
    <3> QED
      BY <2>1, <3>1, <3>2 DEF Ask
  <2>2. CASE ~Ask(g)
    <3>1. asked' = asked \/ asked' = [asked EXCEPT ![g] = NoAnswers]
      BY <2>2 DEF Consensus, WakeUp, Vote, VoteAgain, Decide, StartVote
    <3> QED
      BY <1>0, <1>1, <3>1 DEF NoAnswers
  <2> QED
    BY <2>1, <2>2
<1>4. \A h \in General : decided'[h] \in {"none", command}
  <2>1. decided' = decided \/ decided' = [decided EXCEPT ![g] = order_global]
    BY DEF Consensus, WakeUp, Ask, Vote, VoteAgain, Decide
  <2> QED
    BY <1>1, <2>1 DEF TypeInv, TypeOK
<1> QED
  BY <1>0, <1>2, <1>3, <1>4

LEMMA NextObeyInv == TypeInv /\ ObeyInv /\ [Next]_vars => ObeyInv'
<1> SUFFICES ASSUME TypeInv, ObeyInv, [Next]_vars PROVE ObeyInv'
  OBVIOUS
<1>1. CASE Order
  BY <1>1 DEF Order, ObeyInv, fixed
<1>2. ASSUME NEW g \in General, Registration(g) PROVE ObeyInv'
  BY <1>2 DEF Registration, Connect, Enlist, ReadMin, WriteMin, ReadMax, WriteMax, Listen,
       Registers, ObeyInv, fixed, globals, voting
<1>3. CASE RegistrationFails \/ CommanderEnds \/ Exit \/ UNCHANGED vars
  BY <1>3 DEF RegistrationFails, CommanderEnds, Exit, vars, ObeyInv, fixed, commander, globals,
       voting
<1> QED
  BY <1>1, <1>2, <1>3, ObeyConsensus DEF Next

\* The generals obey an honest commander, whatever the interleaving, the timing
\* and the registration made of the range, unless a vote was fooled.
THEOREM Obeyed == Spec => []HonestOrderObeyed
<1>1. Init => TypeInv /\ ObeyInv
  BY InitTypeInv DEF Init, ObeyInv, NoAnswers
<1>2. TypeInv /\ ObeyInv => HonestOrderObeyed
  BY DEF ObeyInv, HonestOrderObeyed
<1> QED
  BY <1>1, <1>2, NextTypeInv, NextObeyInv, PTL DEF Spec

-----------------------------------------------------------------------------
(***************************************************************************)
(* With sleeps that are long enough nobody votes while anybody can still   *)
(* be called, and nobody decides while anybody can still vote.             *)
(***************************************************************************)
CalledByFull == ordered >= 1 => Len(conns) >= N - 1

Finished(h) == at[h] \in {"none", "decided"} \/ (at[h] = "voted" /\ ~MoreRounds(h))

AgreeInv ==
  /\ CalledByFull
  /\ timely /\ (\E g \in General : at[g] \notin {"none", "ordered"}) => ~Ordering
  /\ timely => \A g \in General : at[g] = "decided" =>
                 decided[g] = order_global /\ \A h \in General : Finished(h)
  /\ \A g \in General : decided[g] # "none" => at[g] = "decided"

\* The commander has stopped calling for good, once the first list was full.
LEMMA OrderingIsOver ==
  ASSUME TypeInv, AgreeInv, Next, ~Order, ordered >= 1, ~Ordering
  PROVE  ~Ordering'
<1>1. Len(conns) >= N - 1 /\ Len(conns) \in Nat /\ N \in Nat /\ ordered \in Nat
  BY GeneralsAssumption DEF AgreeInv, CalledByFull, TypeInv, TypeOK
<1>2. ordered' = ordered /\ (commanderRuns' => commanderRuns)
  BY DEF Next, Registration, Connect, Enlist, ReadMin, WriteMin, ReadMax, WriteMax, Listen,
       Registers, RegistrationFails, CommanderEnds, Exit, Consensus, WakeUp, Ask, Vote, VoteAgain,
       Decide, commander
<1>3. conns' = conns \/ Len(conns') = Len(conns) + 1
  BY DEF Next, Registration, Connect, Enlist, ReadMin, WriteMin, ReadMax, WriteMax, Listen,
       RegistrationFails, CommanderEnds, Exit, Consensus, WakeUp, Ask, Vote, VoteAgain, Decide,
       commander, TypeInv, TypeOK
<1> QED
  BY <1>1, <1>2, <1>3 DEF Ordering

LEMMA AgreeConsensus ==
  ASSUME TypeInv, AgreeInv, NEW g \in General, Consensus(g)
  PROVE  AgreeInv'
<1>0. /\ UNCHANGED <<timely, conns, ordered>> /\ (Ordering' <=> Ordering)
      /\ at \in [General -> At] /\ decided \in [General -> Command \cup {"none"}]
      /\ round \in [General -> 0..T]
  BY ConsensusUnchanged DEF fixed, commander, Ordering, TypeInv, TypeOK
<1>1. at' \in [General -> At] /\ \A h \in General : h # g => at'[h] = at[h]
  BY <1>0 DEF Consensus, WakeUp, Ask, Vote, VoteAgain, Decide, At
<1>2. timely => ~Ordering
  BY <1>0 DEF AgreeInv, Consensus, WakeUp, Ask, Vote, VoteAgain, Decide
<1>3. CASE Decide(g)
  <2>1. /\ at' = [at EXCEPT ![g] = "decided"] /\ decided' = [decided EXCEPT ![g] = order_global]
        /\ UNCHANGED <<order_global, round>>
    BY <1>3 DEF Decide, globals
  <2>2. timely => \A h \in General : Finished(h)
    BY <1>0, <1>3 DEF Decide, AfterAll, Finished, At
  <2>3. timely => \A h \in General : Finished(h)'
    BY <1>0, <2>1, <2>2 DEF Finished, MoreRounds
  <2>4. timely => \A h \in General : at'[h] = "decided" => decided'[h] = order_global
    BY <1>0, <2>1 DEF AgreeInv
  <2>5. \A h \in General : decided'[h] # "none" => at'[h] = "decided"
    BY <1>0, <2>1 DEF AgreeInv
  <2> QED
    BY <1>0, <1>2, <2>1, <2>3, <2>4, <2>5 DEF AgreeInv, CalledByFull
<1>4. CASE ~Decide(g)
  <2>1. ~Finished(g) /\ at[g] # "decided" /\ at'[g] # "decided" /\ decided' = decided
    BY <1>0, <1>4 DEF Consensus, WakeUp, Ask, Vote, VoteAgain, Finished, MoreRounds
  <2>2. timely => \A h \in General : at[h] # "decided"
    BY <2>1 DEF AgreeInv
  <2>3. timely => \A h \in General : at'[h] # "decided"
    BY <1>1, <2>1, <2>2
  <2>4. \A h \in General : decided'[h] # "none" => at'[h] = "decided"
    BY <1>1, <2>1 DEF AgreeInv
  <2> QED
    BY <1>0, <1>2, <2>3, <2>4 DEF AgreeInv, CalledByFull
<1> QED
  BY <1>3, <1>4

LEMMA AgreeOrder ==
  ASSUME TypeInv, AgreeInv, Order
  PROVE  AgreeInv'
<1>1. /\ UNCHANGED <<timely, conns, decided>> /\ Len(conns) = N - 1 /\ Ordering
      /\ \E h \in General : at[h] = "none" /\ at' = [at EXCEPT ![h] = "ordered"]
  BY OrderedOnce DEF Order, Ordering, fixed
<1>2. PICK h \in General : at[h] = "none" /\ at' = [at EXCEPT ![h] = "ordered"]
  BY <1>1
<1>3. at \in [General -> At] /\ N \in Nat
  BY GeneralsAssumption DEF TypeInv, TypeOK
<1>4. timely => \A g \in General : at'[g] \in {"none", "ordered"}
  BY <1>1, <1>2, <1>3 DEF AgreeInv
<1>5. \A g \in General : decided'[g] # "none" => at'[g] = "decided"
  BY <1>1, <1>2, <1>3 DEF AgreeInv
<1> QED
  BY <1>1, <1>3, <1>4, <1>5 DEF AgreeInv, CalledByFull

LEMMA NextAgreeInv == TypeInv /\ AgreeInv /\ [Next]_vars => AgreeInv'
<1> SUFFICES ASSUME TypeInv, AgreeInv, [Next]_vars PROVE AgreeInv'
  OBVIOUS
<1>1. CASE UNCHANGED vars
  BY <1>1 DEF vars, AgreeInv, CalledByFull, Finished, MoreRounds, Ordering, fixed, commander, globals, voting
<1>2. CASE RegistrationFails \/ CommanderEnds \/ Exit \/ \E g \in General : Registration(g)
  <2>1. /\ UNCHANGED <<timely, ordered, order_global, at, round, decided>>
        /\ Next /\ ~Order
    <3>1. UNCHANGED <<timely, ordered, order_global, at, round, decided>>
      BY <1>2 DEF RegistrationFails, CommanderEnds, Exit, Registration, Connect, Enlist, ReadMin,
           WriteMin, ReadMax, WriteMax, Listen, Registers, fixed, commander, globals, voting
    <3>2. ~Order
      BY <3>1 DEF Order, TypeInv, TypeOK
    <3> QED
      BY <1>2, <3>1, <3>2 DEF Next
  <2>2. CalledByFull'
    <3>1. conns' = conns \/ Len(conns') = Len(conns) + 1
      BY <1>2 DEF Registration, Connect, Enlist, ReadMin, WriteMin, ReadMax, WriteMax, Listen,
           RegistrationFails, CommanderEnds, Exit, commander, TypeInv, TypeOK
    <3> QED
      BY <2>1, <3>1, GeneralsAssumption DEF AgreeInv, CalledByFull, TypeInv, TypeOK
  <2>3. timely /\ (\E g \in General : at[g] \notin {"none", "ordered"}) => ~Ordering'
    <3> SUFFICES ASSUME timely, NEW g \in General, at[g] \notin {"none", "ordered"}
                 PROVE  ~Ordering'
      OBVIOUS
    <3>1. ordered >= 1
      BY DEF TypeInv, TypeOK, Called
    <3>2. ~Ordering
      BY DEF AgreeInv
    <3> QED
      BY <2>1, <3>1, <3>2, OrderingIsOver
  <2> QED
    BY <2>1, <2>2, <2>3 DEF AgreeInv, Finished, MoreRounds
<1> QED
  BY <1>1, <1>2, AgreeConsensus, AgreeOrder DEF Next

\* Enough sleep and one shared order: all who print one print the same,
\* whoever lies.
THEOREM Agreed == Spec => []Agreement
<1>1. Init => TypeInv /\ AgreeInv
  BY InitTypeInv DEF Init, AgreeInv, CalledByFull
<1>2. AgreeInv => Agreement
  BY DEF AgreeInv, Agreement
<1> QED
  BY <1>1, <1>2, NextTypeInv, NextAgreeInv, PTL DEF Spec

-----------------------------------------------------------------------------
(***************************************************************************)
(* How many generals are enough, when all of them have the whole range: a  *)
(* general is answered by the N - 2 others, of which at most T lie, and is *)
(* not fooled when N - 2 > 2T.                                             *)
(***************************************************************************)
FewLie == IsFiniteSet(dishonest) /\ Cardinality(dishonest) <= T

WholeRange == min_port = 1 /\ max_port = N - 1

\* Who has answered g so far, the ports before the one it asks next.
Heard(g) == UNION {asked[g][a] : a \in Command}

EnoughInv ==
  /\ FewLie
  /\ T = 0 => ~fooled /\ \A g \in General : at[g] # "voting"
  /\ timely /\ fooled => \E g \in General : at[g] \notin {"none", "ordered"}
  /\ timely /\ WholeRange /\ 0 \notin dishonest /\ 2 * T < N - 2 =>
       /\ ~fooled
       /\ \A g \in General : at[g] = "voting" =>
            asking[g] \in 1..N /\ Heard(g) = (1..(asking[g] - 1)) \ {g}

LEMMA OthersAreEnough ==
  ASSUME FewLie, 2 * T < N - 2, NEW g \in General, Heard(g) = General \ {g}
  PROVE  HonestMajority(g)
<1> DEFINE all == General \ {g}
<1>1. N \in Nat /\ T \in Nat
  BY GeneralsAssumption
<1>2. IsFiniteSet(General) /\ Cardinality(General) = N - 1
  BY <1>1, FS_Interval DEF General
<1>3. IsFiniteSet(all) /\ Cardinality(all) = N - 2
  BY <1>1, <1>2, FS_RemoveElement
<1>4. all \cap dishonest \in SUBSET dishonest /\ IsFiniteSet(all \cap dishonest)
  BY FS_Subset DEF FewLie
<1>5. Cardinality(all \cap dishonest) <= Cardinality(dishonest)
  BY <1>4, FS_Subset DEF FewLie
<1>6. Cardinality(all \cap dishonest) \in Nat /\ Cardinality(dishonest) \in Nat
  BY <1>4, FS_CardinalityType DEF FewLie
<1>7. 2 * Cardinality(all \cap dishonest) < Cardinality(all)
  BY <1>1, <1>3, <1>5, <1>6 DEF FewLie
<1> QED
  BY <1>7 DEF HonestMajority, Heard

LEMMA EnoughConsensus ==
  ASSUME TypeInv, ObeyInv, EnoughInv, NEW g \in General, Consensus(g)
  PROVE  EnoughInv'
<1>0. /\ UNCHANGED <<fixed, min_port, max_port, command>>
      /\ at[g] # "none" /\ at \in [General -> At]
      /\ asked \in [General -> [Command -> SUBSET General]] /\ asking \in [General -> Int]
      /\ N \in Nat /\ T \in Nat /\ g \in 1..(N - 1)
  BY ConsensusUnchanged, GeneralsAssumption
     DEF commander, Consensus, WakeUp, Ask, Vote, VoteAgain, Decide, TypeInv, TypeOK, Ranges, General
<1>1. FewLie'
  BY <1>0 DEF EnoughInv, FewLie, fixed
<1>2. timely' /\ fooled' => \E h \in General : at'[h] \notin {"none", "ordered"}
  BY <1>0 DEF Consensus, WakeUp, Ask, Vote, VoteAgain, Decide
<1>4. T = 0 => ~fooled' /\ \A h \in General : at'[h] # "voting"
  <2> SUFFICES ASSUME T = 0 PROVE ~fooled' /\ \A h \in General : at'[h] # "voting"
    OBVIOUS
  <2>1. ~fooled /\ \A h \in General : at[h] # "voting"
    BY DEF EnoughInv
  <2>2. ~MoreRounds(g)
    BY DEF MoreRounds, TypeInv, TypeOK
  <2> QED
    BY <1>0, <2>1, <2>2 DEF Consensus, WakeUp, Ask, Vote, VoteAgain, Decide
<1>3. ASSUME timely, WholeRange, 0 \notin dishonest, 2 * T < N - 2
      PROVE  /\ ~fooled'
             /\ \A h \in General : at'[h] = "voting" =>
                  asking'[h] \in 1..N /\ Heard(h)' = (1..(asking'[h] - 1)) \ {h}
  <2>0. /\ ~fooled /\ min_port = 1 /\ max_port = N - 1
        /\ \A h \in General : at[h] = "voting" =>
              asking[h] \in 1..N /\ Heard(h) = (1..(asking[h] - 1)) \ {h}
    BY <1>3 DEF EnoughInv, WholeRange
  <2>1. \A h \in General : h # g => /\ at'[h] = at[h] /\ asking'[h] = asking[h]
                                   /\ Heard(h)' = Heard(h)
    BY <1>0 DEF Consensus, WakeUp, Ask, Vote, VoteAgain, Decide, StartVote, Heard
  <2>2. SUFFICES /\ ~fooled'
                 /\ at'[g] = "voting" =>
                      asking'[g] \in 1..N /\ Heard(g)' = (1..(asking'[g] - 1)) \ {g}
    BY <2>0, <2>1
  <2>3. CASE Ask(g)
    <3>1. ~fooled' /\ at[g] = "voting"
      BY <2>0, <2>3 DEF Ask
    <3>2. CASE UNCHANGED <<asking, asked>>
      BY <2>0, <3>1, <3>2 DEF Heard
    <3>3. CASE ~UNCHANGED <<asking, asked>>
      <4> DEFINE i == Asks(g)
      <4>1. /\ i \in General /\ i <= N - 1 /\ asking' = [asking EXCEPT ![g] = i + 1]
            /\ \E a \in Answers(i) : asked' = [asked EXCEPT ![g][a] = @ \cup {i}]
        BY <2>0, <2>3, <3>3 DEF Ask
      <4>2. Answers(i) \subseteq Command
        BY <1>0, <1>3, <2>0 DEF ObeyInv, Answers, TypeInv, TypeOK
      <4>3. PICK a \in Command : asked' = [asked EXCEPT ![g][a] = @ \cup {i}]
        BY <4>1, <4>2
      <4>4. Heard(g)' = Heard(g) \cup {i}
        BY <1>0, <4>3 DEF Heard
      <4>5. Heard(g) = (1..(asking[g] - 1)) \ {g} /\ asking[g] \in 1..N
        BY <2>0, <3>1
      <4>6. ((1..(asking[g] - 1)) \ {g}) \cup {i} = (1..i) \ {g}
        BY <1>0, <4>5 DEF Asks
      <4> QED
        BY <1>0, <3>1, <4>1, <4>4, <4>5, <4>6 DEF General
    <3> QED
      BY <3>2, <3>3
  <2>4. CASE Vote(g)
    <3>1. at[g] = "voting" /\ Asks(g) > N - 1 /\ at'[g] # "voting"
      BY <1>0, <2>0, <2>4 DEF Vote
    <3>2. Heard(g) = General \ {g}
      BY <1>0, <2>0, <3>1 DEF Asks, General
    <3>3. HonestMajority(g)
      BY <1>3, <3>2, OthersAreEnough DEF EnoughInv
    <3> QED
      BY <2>0, <2>4, <3>1, <3>3 DEF Vote
  <2>5. CASE WakeUp(g) \/ VoteAgain(g)
    <3>1. ~fooled' /\ (at'[g] = "voting" => asking'[g] = 1 /\ asked'[g] = NoAnswers)
      BY <1>0, <2>0, <2>5 DEF WakeUp, VoteAgain, StartVote
    <3>2. asked'[g] = NoAnswers => Heard(g)' = {}
      BY DEF Heard, NoAnswers
    <3> QED
      BY <1>0, <3>1, <3>2
  <2>6. CASE Decide(g)
    BY <1>0, <2>0, <2>6 DEF Decide
  <2> QED
    BY <2>3, <2>4, <2>5, <2>6 DEF Consensus
<1> QED
  BY <1>0, <1>1, <1>2, <1>4, <1>3 DEF EnoughInv, WholeRange, fixed

LEMMA NextEnoughInv == TypeInv /\ ObeyInv /\ AgreeInv /\ EnoughInv /\ [Next]_vars => EnoughInv'
<1> SUFFICES ASSUME TypeInv, ObeyInv, AgreeInv, EnoughInv, [Next]_vars PROVE EnoughInv'
  OBVIOUS
<1>1. CASE Order
  <2>1. UNCHANGED <<fixed, fooled>> /\ Ordering
    BY <1>1 DEF Order
  <2>2. timely => ~fooled /\ \A g \in General : at[g] \in {"none", "ordered"}
    BY <2>1 DEF AgreeInv, EnoughInv
  <2>3. timely => \A g \in General : at'[g] \in {"none", "ordered"}
    BY <1>1, <2>2, OrderedOnce DEF Order, TypeInv, TypeOK
  <2>4. T = 0 => \A g \in General : at'[g] # "voting"
    BY <1>1, OrderedOnce DEF Order, EnoughInv, TypeInv, TypeOK
  <2> QED
    BY <2>1, <2>2, <2>3, <2>4 DEF EnoughInv, FewLie, fixed
<1>2. CASE \E g \in General : Registration(g)
  <2>1. UNCHANGED <<fixed, globals, voting>>
    BY <1>2 DEF Registration, Connect, Enlist, ReadMin, WriteMin, ReadMax, WriteMax, Listen,
         Registers
  <2> QED
    BY <2>1 DEF EnoughInv, FewLie, WholeRange, Heard, fixed, globals, voting
<1>3. CASE RegistrationFails \/ CommanderEnds \/ Exit \/ UNCHANGED vars
  <2>1. UNCHANGED <<fixed, globals, voting>>
    BY <1>3 DEF RegistrationFails, CommanderEnds, Exit, vars
  <2> QED
    BY <2>1 DEF EnoughInv, FewLie, WholeRange, Heard, fixed, globals, voting
<1> QED
  BY <1>1, <1>2, <1>3, EnoughConsensus DEF Next

\* README.md:74 claims that N >= 3T + 1 is enough.  In the best case it is, for
\* every T and N but one general who lies among four processes.
THEOREM Tolerated == T # 1 \/ N # 4 => (Spec => []Tolerates)
<1> SUFFICES ASSUME T # 1 \/ N # 4 PROVE Spec => []Tolerates
  OBVIOUS
<1>1. Init => TypeInv /\ ObeyInv /\ AgreeInv /\ EnoughInv
  <2> SUFFICES ASSUME Init PROVE TypeInv /\ ObeyInv /\ AgreeInv /\ EnoughInv
    OBVIOUS
  <2>1. FewLie
    <3>1. dishonest \in SUBSET (0..(N - 1)) /\ Cardinality(dishonest) <= T
      BY DEF Init
    <3>2. IsFiniteSet(0..(N - 1))
      BY FS_Interval, GeneralsAssumption
    <3> QED
      BY <3>1, <3>2, FS_Subset DEF FewLie
  <2>2. ObeyInv
    BY DEF Init, ObeyInv, NoAnswers
  <2>3. AgreeInv
    BY DEF Init, AgreeInv, CalledByFull
  <2>4. EnoughInv
    BY <2>1 DEF Init, EnoughInv
  <2> QED
    BY <2>2, <2>3, <2>4, InitTypeInv
<1>2. TypeInv /\ ObeyInv /\ EnoughInv => Tolerates
  <2> SUFFICES ASSUME TypeInv, ObeyInv, EnoughInv, timely, 0 \notin dishonest, N >= 3 * T + 1,
                      min_port = 1, max_port = N - 1
               PROVE  \A g \in General : decided[g] \in {"none", command}
    BY DEF Tolerates
  <2>1. CASE 2 * T < N - 2
    BY <2>1 DEF EnoughInv, WholeRange, ObeyInv
  <2>2. CASE ~(2 * T < N - 2)
    <3>1. T \in Nat /\ N \in Nat
      BY GeneralsAssumption
    <3>2. T = 0
      BY <2>2, <3>1
    <3> QED
      BY <3>2 DEF EnoughInv, ObeyInv
  <2> QED
    BY <2>1, <2>2
<1> QED
  BY <1>1, <1>2, NextTypeInv, NextObeyInv, NextAgreeInv, NextEnoughInv, PTL DEF Spec
=============================================================================
