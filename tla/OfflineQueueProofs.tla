------------------------- MODULE OfflineQueueProofs -------------------------
(***************************************************************************)
(* Proofs about the offline file, for any number of clients, users and     *)
(* payments, and any number of goroutines that poll.                       *)
(***************************************************************************)
EXTENDS OfflineQueue, DataLemmas, TLAPS

Line == Payment \cup {torn}

\* The state of one goroutine.
Local == [at : At, read : Seq(Line), rest : Seq(Line), remaining : Seq(Payment)]

(***************************************************************************)
(* A goroutine has answered, kept or still before it every payment it read.*)
(* That is why it may truncate the file: of what it read nothing is lost,  *)
(* and what it did not read is on record as dropped.                       *)
(***************************************************************************)
Accounted(me, done) ==
  ToSet(me.read) \subseteq ToSet(me.rest) \cup ToSet(me.remaining) \cup done \cup {torn}

Sound(i, me, done) ==
  /\ me \in Local
  /\ i # Main => IsSuffix(me.rest, me.read)
  /\ me.at \in {"send", "sent", "failed"} => me.rest # <<>> /\ Head(me.rest) \in Payment
  /\ Accounted(me, done)

Shape == /\ goroutine = [c \in Client |-> goroutine[c]]
         /\ \A c \in Client : goroutine[c] = [i \in Goroutine(c) |-> goroutine[c][i]]

Goroutines ==
  /\ Shape
  /\ \A c \in Client : \A i \in Goroutine(c) :
       /\ Sound(i, goroutine[c][i], answered)
       /\ goroutine[c][i].at = "truncated" => c \in alive

\* The rest of TypeOK.
Globals ==
  /\ exists \in BOOLEAN
  /\ file \in Seq(Line)
  /\ alive \subseteq Client /\ loggedIn \subseteq Client
  /\ gatewayUp \in BOOLEAN /\ outages \in 0..MaxOutages
  /\ loggedInAt \subseteq Client
  /\ begun \subseteq Payment /\ answered \subseteq Payment /\ queued \subseteq Payment
  /\ direct \subseteq Payment
  /\ overwritten \subseteq Payment /\ dropped \subseteq Payment

\* NothingIsLost, with the poller that carries the payment.
Traced ==
  \A p \in queued \ (answered \cup Lost) :
    \/ p \in ToSet(file)
    \/ \E c \in alive : \E i \in Poller(c) :
         goroutine[c][i].at = "truncated" /\ p \in ToSet(goroutine[c][i].remaining)

QueueInv == Globals /\ Goroutines /\ Traced

-----------------------------------------------------------------------------
\* What a goroutine that moves leaves alone.
LEMMA MoveEffect ==
  ASSUME Shape, NEW c \in Client, NEW i \in Goroutine(c), NEW p, Move(c, i, p)
  PROVE  /\ Shape' /\ goroutine'[c][i] = p
         /\ \A d \in Client : \A j \in Goroutine(d) :
              d # c \/ j # i => goroutine'[d][j] = goroutine[d][j]
<1>1. goroutine' = [goroutine EXCEPT ![c] = [goroutine[c] EXCEPT ![i] = p]]
  BY DEF Move
<1>2. DOMAIN goroutine = Client /\ DOMAIN goroutine[c] = Goroutine(c)
  BY DEF Shape
<1>3. goroutine'[c] = [goroutine[c] EXCEPT ![i] = p] /\ goroutine'[c][i] = p
  BY <1>1, <1>2
<1>4. \A d \in Client : d # c => goroutine'[d] = goroutine[d]
  BY <1>1, <1>2
<1>5. \A j \in Goroutine(c) : j # i => goroutine'[c][j] = goroutine[c][j]
  BY <1>2, <1>3
<1>6. goroutine' = [d \in Client |-> goroutine'[d]]
  BY <1>1 DEF Shape
<1>7. \A d \in Client : goroutine'[d] = [j \in Goroutine(d) |-> goroutine'[d][j]]
  <2>1. goroutine'[c] = [j \in Goroutine(c) |-> goroutine'[c][j]]
    BY <1>2, <1>3
  <2> QED
    BY <1>4, <2>1 DEF Shape
<1> QED
  BY <1>3, <1>4, <1>5, <1>6, <1>7 DEF Shape

\* Answers only ever add to what is accounted for.
LEMMA StillSound ==
  ASSUME NEW i, NEW me, NEW before, NEW after, before \subseteq after, Sound(i, me, before)
  PROVE  Sound(i, me, after)
BY DEF Sound, Accounted

LEMMA MoveIsSound ==
  ASSUME Goroutines, NEW c \in Client, NEW i \in Goroutine(c), NEW p, Move(c, i, p),
         Sound(i, p, answered'), p.at = "truncated" => c \in alive,
         answered \subseteq answered', alive' = alive
  PROVE  Goroutines'
<1>1. /\ Shape' /\ goroutine'[c][i] = p
      /\ \A d \in Client : \A j \in Goroutine(d) :
           d # c \/ j # i => goroutine'[d][j] = goroutine[d][j]
  BY MoveEffect DEF Goroutines
<1>2. ASSUME NEW d \in Client, NEW j \in Goroutine(d)
      PROVE  /\ Sound(j, goroutine'[d][j], answered')
             /\ goroutine'[d][j].at = "truncated" => d \in alive'
  <2>1. CASE d = c /\ j = i
    BY <1>1, <2>1
  <2>2. CASE d # c \/ j # i
    <3>1. goroutine'[d][j] = goroutine[d][j]
      BY <1>1, <2>2
    <3>2. Sound(j, goroutine[d][j], answered) /\ (goroutine[d][j].at = "truncated" => d \in alive)
      BY DEF Goroutines
    <3> QED
      BY <3>1, <3>2, StillSound
  <2> QED
    BY <2>1, <2>2
<1> QED
  BY <1>1, <1>2 DEF Goroutines

\* A step that records what leaves the file, and stops no poller that has truncated it.
LEMMA QuietStep ==
  ASSUME Globals, Traced, alive' = alive,
         \A c \in alive : \A i \in Poller(c) : goroutine[c][i].at = "truncated" =>
           goroutine'[c][i] = goroutine[c][i],
         Lost \subseteq Lost', answered \subseteq answered',
         ToSet(file) \subseteq ToSet(file') \cup Lost' \cup {torn},
         queued' \subseteq queued \cup ToSet(file') \cup Lost'
  PROVE  Traced'
<1> SUFFICES ASSUME NEW p \in queued', p \notin answered', p \notin Lost', p \notin ToSet(file')
             PROVE  \E c \in alive : \E i \in Poller(c) :
                      goroutine'[c][i].at = "truncated" /\ p \in ToSet(goroutine'[c][i].remaining)
  BY DEF Traced
<1>1. p \in queued \ (answered \cup Lost)
  OBVIOUS
<1>2. p # torn
  BY <1>1, OfflineQueueAssumption DEF Globals
<1> QED
  BY <1>1, <1>2 DEF Traced

\* What vanishes from the file are payments.
LEMMA VanishedType ==
  ASSUME file \in Seq(Line)
  PROVE  /\ Vanished \subseteq Payment
         /\ ToSet(file) \subseteq ToSet(file') \cup Vanished \cup {torn}
BY ElementsOfSeq DEF Vanished, Line

\* What is written over a file are lines, all that were to be written among them.
LEMMA WrittenType ==
  ASSUME NEW lines \in Seq(Line), NEW old \in Seq(Line), NEW written \in WrittenOver(lines, old)
  PROVE  written \in Seq(Line) /\ ToSet(lines) \subseteq ToSet(written)
<1> DEFINE n == Len(lines)
           kept == From(old, n)
           cut  == From(old, n + 1)
           tail == <<torn>>
<1>1. n \in Nat /\ Len(old) \in Nat
  OBVIOUS
<1>2. kept \in Seq(Line) /\ cut \in Seq(Line)
  BY <1>1 DEF From
<1>3. tail \in Seq(Line)
  BY DEF Line
<1>4. \/ written = lines \o kept
      \/ written = (lines \o tail) \o cut
      \/ written = (lines \o tail) \o kept
  BY DEF WrittenOver
<1> HIDE DEF n, kept, cut, tail
<1>5. ASSUME NEW s \in Seq(Line), NEW t \in Seq(Line)
      PROVE  s \o t \in Seq(Line) /\ ToSet(s) \subseteq ToSet(s \o t)
  BY ElementsOfSeq
<1>6. /\ lines \o kept \in Seq(Line) /\ ToSet(lines) \subseteq ToSet(lines \o kept)
      /\ lines \o tail \in Seq(Line) /\ ToSet(lines) \subseteq ToSet(lines \o tail)
  BY <1>2, <1>3, <1>5
<1> DEFINE halved == lines \o tail
<1> HIDE DEF halved
<1>7. /\ halved \o cut \in Seq(Line) /\ ToSet(halved) \subseteq ToSet(halved \o cut)
      /\ halved \o kept \in Seq(Line) /\ ToSet(halved) \subseteq ToSet(halved \o kept)
  <2>1. halved \in Seq(Line)
    BY <1>6 DEF halved
  <2> QED
    BY <1>2, <1>5, <2>1
<1> QED
  BY <1>4, <1>6, <1>7 DEF halved

\* A goroutine at rest.
LEMMA RestIsSound ==
  ASSUME NEW i, NEW done, NEW at \in {"menu", "unborn", "asleep", "ended"}
  PROVE  Sound(i, Resting(at), done)
<1> DEFINE me == Resting(at)
<1>1. /\ me.at = at /\ me.read = <<>> /\ me.rest = <<>> /\ me.remaining = <<>>
      /\ me = [at |-> at, read |-> <<>>, rest |-> <<>>, remaining |-> <<>>]
  BY DEF Resting
<1>4. <<>> \in Seq(Line) /\ <<>> \in Seq(Payment) /\ at \in At
  BY DEF At
<1>5. me \in Local
  BY <1>4 DEF Local, Resting
<1>2. IsSuffix(<<>>, <<>>)
  <2> DEFINE e == <<>>
  <2>1. e \in Seq(Line)
    OBVIOUS
  <2> HIDE DEF e
  <2>2. IsSuffix(e, e)
    BY <2>1, SuffixOfItself
  <2> QED
    BY <2>2 DEF e
<1>3. ToSet(<<>>) = {}
  BY DEF ToSet
<1> QED
  BY <1>1, <1>2, <1>3, <1>5 DEF Sound, Accounted

\* A turn wakes up to one goroutine that was not born.
LEMMA TurnEffect ==
  ASSUME Shape, NEW c \in Client, NEW turned \in Turned(c)
  PROVE  \/ turned = goroutine[c]
         \/ \E i \in Poller(c) : /\ goroutine[c][i].at = "unborn"
                                 /\ turned = [goroutine[c] EXCEPT ![i] = Resting("asleep")]
BY DEF Turned

LEMMA TurnIsSound ==
  ASSUME Goroutines, NEW c \in Client, Turn(c), UNCHANGED <<alive, answered>>
  PROVE  /\ Goroutines'
         /\ \A d \in Client : \A i \in Poller(d) : goroutine[d][i].at = "truncated" =>
               goroutine'[d][i] = goroutine[d][i]
<1>1. PICK turned \in Turned(c) : goroutine' = [goroutine EXCEPT ![c] = turned]
  BY DEF Turn
<1>2. CASE turned = goroutine[c]
  <2>1. goroutine' = goroutine
    BY <1>1, <1>2 DEF Goroutines, Shape
  <2> QED
    BY <2>1 DEF Goroutines, Shape
<1>3. CASE \E i \in Poller(c) : /\ goroutine[c][i].at = "unborn"
                               /\ turned = [goroutine[c] EXCEPT ![i] = Resting("asleep")]
  <2>1. PICK i \in Poller(c) : /\ goroutine[c][i].at = "unborn"
                              /\ turned = [goroutine[c] EXCEPT ![i] = Resting("asleep")]
    BY <1>3
  <2>2. Move(c, i, Resting("asleep")) /\ i \in Goroutine(c)
    BY <1>1, <2>1 DEF Move, Goroutine
  <2>3. Resting("asleep").at = "asleep"
    BY DEF Resting
  <2>4. Goroutines'
    BY <2>2, <2>3, RestIsSound, MoveIsSound
  <2>5. \A d \in Client : \A j \in Goroutine(d) :
          d # c \/ j # i => goroutine'[d][j] = goroutine[d][j]
    BY <2>2, MoveEffect DEF Goroutines
  <2>6. \A d \in Client : \A j \in Poller(d) : j \in Goroutine(d)
    BY DEF Goroutine
  <2> QED
    BY <2>1, <2>4, <2>5, <2>6
<1> QED
  BY <1>2, <1>3, TurnEffect DEF Goroutines

-----------------------------------------------------------------------------
LEMMA UserKeeps ==
  ASSUME QueueInv, NEW c \in Client,
         LogIn(c) \/ OtherTurn(c) \/ \E p \in Payment : QueueBeforeLogin(c, p) \/ QueueInOutage(c, p)
  PROVE  QueueInv'
<1>0. file \in Seq(Line) /\ Vanished \subseteq Payment
  BY VanishedType DEF QueueInv, Globals
<1>1. /\ Turn(c) /\ UNCHANGED <<alive, answered, dropped>> /\ overwritten \subseteq overwritten'
      /\ overwritten' \subseteq Payment /\ queued' \subseteq Payment
  <2>1. CASE LogIn(c) \/ OtherTurn(c)
    BY <2>1 DEF LogIn, OtherTurn, history, lost, QueueInv, Globals
  <2>2. ASSUME NEW p \in Payment, QueueBeforeLogin(c, p) \/ QueueInOutage(c, p)
        PROVE  /\ Turn(c) /\ UNCHANGED <<alive, answered, dropped>>
               /\ overwritten \subseteq overwritten'
               /\ overwritten' \subseteq Payment /\ queued' \subseteq Payment
    BY <1>0, <2>2 DEF QueueBeforeLogin, QueueInOutage, lost, QueueInv, Globals
  <2> QED
    BY <2>1, <2>2
<1>2. /\ Goroutines'
      /\ \A d \in alive : \A i \in Poller(d) : goroutine[d][i].at = "truncated" =>
           goroutine'[d][i] = goroutine[d][i]
  BY <1>1, TurnIsSound DEF QueueInv, Globals
<1>3. /\ file' \in Seq(Line)
      /\ ToSet(file) \subseteq ToSet(file') \cup overwritten' \cup {torn}
      /\ queued' \subseteq queued \cup ToSet(file') \cup overwritten'
  <2>1. CASE LogIn(c) \/ OtherTurn(c)
    BY <1>0, <2>1 DEF LogIn, OtherTurn, fileVars, history
  <2>2. ASSUME NEW p \in Payment, QueueBeforeLogin(c, p)
        PROVE  /\ file' \in Seq(Line)
               /\ ToSet(file) \subseteq ToSet(file') \cup overwritten' \cup {torn}
               /\ queued' \subseteq queued \cup ToSet(file') \cup overwritten'
    <3>1. file' = Append(file, p) /\ queued' = queued \cup {p} /\ p \in Line
      BY <2>2 DEF QueueBeforeLogin, Line
    <3>2. ToSet(Append(file, p)) = ToSet(file) \cup {p} /\ Append(file, p) \in Seq(Line)
      BY <1>0, <3>1, ElementsOfSeq
    <3> QED
      BY <3>1, <3>2
  <2>3. ASSUME NEW p \in Payment, QueueInOutage(c, p)
        PROVE  /\ file' \in Seq(Line)
               /\ ToSet(file) \subseteq ToSet(file') \cup overwritten' \cup {torn}
               /\ queued' \subseteq queued \cup ToSet(file') \cup overwritten'
    <3>1. /\ IF exists THEN file' \in WrittenOver(<<p>>, file) ELSE UNCHANGED file
          /\ queued' = queued \cup {p}
          /\ overwritten' = overwritten \cup Vanished \cup ({p} \ ToSet(file'))
      BY <2>3 DEF QueueInOutage
    <3>2. <<p>> \in Seq(Line)
      BY DEF Line
    <3>3. file' \in Seq(Line)
      BY <1>0, <3>1, <3>2, WrittenType
    <3> QED
      BY <1>0, <3>1, <3>3, VanishedType
  <2> QED
    BY <2>1, <2>2, <2>3
<1>4. Globals'
  BY <1>1, <1>3 DEF QueueInv, Globals, LogIn, OtherTurn, QueueBeforeLogin, QueueInOutage,
       fileVars, gatewayVars, history, lost
<1> QED
  BY <1>1, <1>2, <1>3, <1>4, QuietStep DEF QueueInv, Lost

\* A payment made directly is not a matter of the file.
LEMMA DirectKeeps ==
  ASSUME QueueInv, NEW c \in Client, NEW p \in Payment, PayDirectly(c, p)
  PROVE  QueueInv'
<1> DEFINE sends == [Resting("send") EXCEPT !.rest = <<p>>]
<1>1. PICK turned \in Turned(c) :
        goroutine' = [goroutine EXCEPT ![c] = [turned EXCEPT ![Main] = sends]]
  BY DEF PayDirectly
<1>2. /\ UNCHANGED <<fileVars, alive, loggedIn, gatewayVars, queued, answered, lost>>
      /\ direct' = direct \cup {p} /\ goroutine[c][Main].at = "menu"
  BY DEF PayDirectly, AtMenu
<1>3. Goroutines
  BY DEF QueueInv
<1>4. Main \in Goroutine(c) /\ \A d \in Client : Main \notin Poller(d)
                                          /\ Goroutine(d) = {Main} \cup Poller(d)
  BY DEF Goroutine, Poller, Main
<1>5. Sound(Main, sends, answered) /\ sends.at = "send"
  <2>1. sends = [at |-> "send", read |-> <<>>, rest |-> <<p>>, remaining |-> <<>>]
    BY DEF Resting
  <2>2. <<>> \in Seq(Line) /\ <<>> \in Seq(Payment) /\ <<p>> \in Seq(Line) /\ "send" \in At
    BY DEF At, Line
  <2>3. sends \in Local
    BY <2>1, <2>2 DEF Local
  <2>4. ToSet(<<>>) = {} /\ <<p>> # <<>> /\ Head(<<p>>) = p
    BY DEF ToSet
  <2> HIDE DEF sends
  <2> QED
    BY <2>1, <2>3, <2>4 DEF Sound, Accounted
<1> HIDE DEF sends
<1>6. /\ \A j \in Poller(c) :
           \/ turned[j] = goroutine[c][j]
           \/ goroutine[c][j].at = "unborn" /\ turned[j] = Resting("asleep")
      /\ DOMAIN turned = Goroutine(c)
  <2>1. DOMAIN goroutine[c] = Goroutine(c)
    BY <1>3 DEF Goroutines, Shape
  <2>2. CASE turned = goroutine[c]
    BY <2>1, <2>2
  <2>3. ASSUME NEW i \in Poller(c), goroutine[c][i].at = "unborn",
               turned = [goroutine[c] EXCEPT ![i] = Resting("asleep")]
        PROVE  /\ \A j \in Poller(c) :
                    \/ turned[j] = goroutine[c][j]
                    \/ goroutine[c][j].at = "unborn" /\ turned[j] = Resting("asleep")
               /\ DOMAIN turned = Goroutine(c)
    BY <1>4, <2>1, <2>3
  <2> QED
    BY <1>3, <2>2, <2>3, TurnEffect DEF Goroutines
<1>7. DOMAIN turned = Goroutine(c)
  BY <1>6
<1>8. /\ goroutine'[c] = [turned EXCEPT ![Main] = sends]
      /\ \A d \in Client : d # c => goroutine'[d] = goroutine[d]
      /\ goroutine' = [d \in Client |-> goroutine'[d]]
  BY <1>1, <1>3 DEF Goroutines, Shape
<1>9. Shape'
  <2>1. goroutine'[c] = [j \in Goroutine(c) |-> goroutine'[c][j]]
    BY <1>7, <1>8
  <2> QED
    BY <1>3, <1>8, <2>1 DEF Goroutines, Shape
<1>10. /\ goroutine'[c][Main] = sends
       /\ \A j \in Poller(c) : goroutine'[c][j] = turned[j]
  BY <1>4, <1>7, <1>8
<1>11. ASSUME NEW d \in Client, NEW j \in Goroutine(d)
       PROVE  /\ Sound(j, goroutine'[d][j], answered)
              /\ goroutine'[d][j].at = "truncated" => d \in alive
              /\ j # Main /\ goroutine[d][j].at = "truncated" => goroutine'[d][j] = goroutine[d][j]
  <2>1. CASE goroutine'[d][j] = goroutine[d][j]
    BY <1>3, <2>1 DEF Goroutines
  <2>2. CASE j = Main /\ goroutine'[d][j] = sends
    BY <1>5, <2>2
  <2>3. CASE goroutine[d][j].at = "unborn" /\ goroutine'[d][j] = Resting("asleep")
    <3>1. Resting("asleep").at = "asleep"
      BY DEF Resting
    <3> QED
      BY <2>3, <3>1, RestIsSound
  <2>4. CASE d # c
    BY <1>8, <2>1, <2>4
  <2>5. CASE d = c /\ j = Main
    BY <1>10, <2>2, <2>5
  <2>6. CASE d = c /\ j # Main
    <3>1. j \in Poller(c)
      BY <1>4, <2>6
    <3> QED
      BY <1>6, <1>10, <2>1, <2>3, <2>6, <3>1
  <2> QED
    BY <2>4, <2>5, <2>6
<1>12. Goroutines'
  BY <1>2, <1>9, <1>11 DEF Goroutines
<1>13. \A d \in alive : \A j \in Poller(d) : goroutine[d][j].at = "truncated" =>
         goroutine'[d][j] = goroutine[d][j]
  BY <1>4, <1>11 DEF QueueInv, Globals
<1>14. Globals'
  BY <1>2 DEF QueueInv, Globals, fileVars, gatewayVars, lost
<1> QED
  BY <1>2, <1>12, <1>13, <1>14, QuietStep DEF QueueInv, fileVars, lost, Lost

-----------------------------------------------------------------------------
\* A goroutine that moves and leaves the file alone.
LEMMA MoveKeeps ==
  ASSUME QueueInv, NEW c \in Client, NEW i \in Goroutine(c), NEW p, Move(c, i, p),
         Sound(i, p, answered'), p.at # "truncated", goroutine[c][i].at # "truncated",
         answered \subseteq answered', UNCHANGED <<file, alive, queued, lost>>, Globals'
  PROVE  QueueInv'
<1>1. Goroutines'
  BY MoveIsSound DEF QueueInv
<1>2. \A d \in Client : \A j \in Goroutine(d) :
        d # c \/ j # i => goroutine'[d][j] = goroutine[d][j]
  BY MoveEffect DEF QueueInv, Goroutines
<1>3. \A d \in alive : \A j \in Poller(d) : goroutine[d][j].at = "truncated" =>
         goroutine'[d][j] = goroutine[d][j]
  BY <1>2 DEF Goroutine, QueueInv, Globals
<1> QED
  BY <1>1, <1>3, QuietStep DEF QueueInv, lost, Lost

LEMMA WakeKeeps ==
  ASSUME QueueInv, NEW c \in Client, NEW i \in Poller(c), Wake(c, i)
  PROVE  QueueInv'
<1> DEFINE new == [at |-> "scan", read |-> file, rest |-> file, remaining |-> <<>>]
           end == Resting("ended")
<1>1. /\ UNCHANGED <<fileVars, alive, loggedIn, gatewayVars, history>> /\ i \in Goroutine(c)
      /\ goroutine[c][i].at = "asleep"
      /\ Move(c, i, new) \/ Move(c, i, end)
  BY DEF Wake, Goroutine
<1>2. Sound(i, new, answered') /\ new.at = "scan"
  <2>1. file \in Seq(Line) /\ <<>> \in Seq(Payment) /\ "scan" \in At
    BY DEF QueueInv, Globals, At
  <2>2. new \in Local
    BY <2>1 DEF Local
  <2>3. IsSuffix(file, file)
    BY <2>1, SuffixOfItself
  <2>4. new.at = "scan" /\ new.read = file /\ new.rest = file
    OBVIOUS
  <2> HIDE DEF new
  <2> QED
    BY <2>2, <2>3, <2>4 DEF Sound, Accounted
<1>3. Sound(i, end, answered') /\ end.at = "ended"
  BY RestIsSound DEF Resting
<1>4. Globals'
  BY <1>1 DEF QueueInv, Globals, fileVars, gatewayVars, history, lost
<1> HIDE DEF new, end
<1> QED
  BY <1>1, <1>2, <1>3, <1>4, MoveKeeps DEF fileVars, history

\* A line that is kept or dropped is accounted for.
LEMMA ScanKeeps ==
  ASSUME QueueInv, NEW c \in Client, NEW i \in Poller(c), Scan(c, i)
  PROVE  QueueInv'
<1> DEFINE me == goroutine[c][i]
           p == Head(me.rest)
           sends == [me EXCEPT !.at = "send"]
           keeps == [me EXCEPT !.rest = Tail(@), !.remaining = Append(@, p)]
           drops == [me EXCEPT !.rest = Tail(@)]
<1>1. /\ UNCHANGED <<fileVars, alive, loggedIn, gatewayVars, history>> /\ i \in Goroutine(c)
      /\ me.at = "scan" /\ me.rest # <<>>
      /\ \/ Own(c, p) /\ Move(c, i, sends)
         \/ (Kept(c, p) \/ Own(c, p)) /\ Move(c, i, keeps)
         \/ ~Kept(c, p) /\ ~Own(c, p) /\ Move(c, i, drops)
  BY DEF Scan, Goroutine
<1>2. Sound(i, me, answered) /\ me \in Local /\ i # Main
  BY <1>1 DEF QueueInv, Goroutines, Sound, Poller, Main
<1>3. /\ me.rest \in Seq(Line) /\ me.read \in Seq(Line) /\ me.remaining \in Seq(Payment)
      /\ IsSuffix(me.rest, me.read) /\ Accounted(me, answered)
  BY <1>2 DEF Local, Sound
<1>4. /\ p \in Line /\ Tail(me.rest) \in Seq(Line)
      /\ ToSet(me.rest) = {p} \cup ToSet(Tail(me.rest))
      /\ IsSuffix(Tail(me.rest), me.read)
  BY <1>1, <1>3, HeadAndTail, SuffixTail
<1>5. /\ Own(c, p) \/ Kept(c, p) => p \in Payment
      /\ ~Own(c, p) /\ ~Kept(c, p) => p = torn
  BY <1>4 DEF Own, Kept, Line
<1>6. Globals'
  BY <1>1 DEF QueueInv, Globals, fileVars, gatewayVars, history, lost
<1>7. CASE Own(c, p) /\ Move(c, i, sends)
  <2>1. /\ sends \in Local /\ sends.at = "send" /\ sends.read = me.read /\ sends.rest = me.rest
        /\ sends.remaining = me.remaining
    BY <1>2 DEF Local, At
  <2>2. Sound(i, sends, answered')
    BY <1>1, <1>3, <1>5, <1>7, <2>1 DEF Sound, Accounted, history
  <2> QED
    BY <1>1, <1>6, <1>7, <2>1, <2>2, MoveKeeps DEF fileVars, history
<1>8. CASE (Kept(c, p) \/ Own(c, p)) /\ Move(c, i, keeps)
  <2>0. Append(me.remaining, p) \in Seq(Payment)
    BY <1>3, <1>5, <1>8
  <2>1. /\ keeps \in Local /\ keeps.at = "scan" /\ keeps.read = me.read
        /\ keeps.rest = Tail(me.rest) /\ keeps.remaining = Append(me.remaining, p)
    BY <1>1, <1>2, <1>4, <2>0 DEF Local
  <2>2. ToSet(keeps.remaining) = ToSet(me.remaining) \cup {p}
    <3>1. me.remaining \in Seq(Payment) /\ p \in Payment
      BY <1>3, <1>5, <1>8
    <3>2. ToSet(Append(me.remaining, p)) = ToSet(me.remaining) \cup {p}
      BY <3>1, ElementsOfSeq
    <3> QED
      BY <2>1, <3>2
  <2>3. Accounted(keeps, answered)
    BY <1>3, <1>4, <2>1, <2>2 DEF Accounted
  <2>4. Sound(i, keeps, answered')
    BY <1>1, <1>4, <2>1, <2>3 DEF Sound, history
  <2> QED
    BY <1>1, <1>6, <1>8, <2>1, <2>4, MoveKeeps DEF fileVars, history
<1>9. CASE ~Kept(c, p) /\ ~Own(c, p) /\ Move(c, i, drops)
  <2>1. /\ drops \in Local /\ drops.at = "scan" /\ drops.read = me.read
        /\ drops.rest = Tail(me.rest) /\ drops.remaining = me.remaining
    BY <1>1, <1>2, <1>4 DEF Local
  <2>3. Accounted(drops, answered)
    BY <1>3, <1>4, <1>5, <1>9, <2>1 DEF Accounted
  <2>4. Sound(i, drops, answered')
    BY <1>1, <1>4, <2>1, <2>3 DEF Sound, history
  <2> QED
    BY <1>1, <1>6, <1>9, <2>1, <2>4, MoveKeeps DEF fileVars, history
<1> QED
  BY <1>1, <1>7, <1>8, <1>9

LEMMA ScanOnKeeps ==
  ASSUME QueueInv, NEW c \in Client, NEW i \in Poller(c), ScanOn(c, i)
  PROVE  QueueInv'
<1> DEFINE me == goroutine[c][i]
           more == From(file, Len(me.read))
           goesOn == [me EXCEPT !.rest = more, !.read = @ \o more]
<1>1. /\ UNCHANGED <<fileVars, alive, loggedIn, gatewayVars, history>> /\ i \in Goroutine(c)
      /\ me.at = "scan" /\ me.rest = <<>> /\ Move(c, i, goesOn)
  BY DEF ScanOn, Goroutine
<1>2. Sound(i, me, answered) /\ me \in Local
  BY <1>1 DEF QueueInv, Goroutines, Sound
<1>3. /\ me.read \in Seq(Line) /\ me.remaining \in Seq(Payment) /\ more \in Seq(Line)
      /\ Accounted(me, answered) /\ ToSet(me.rest) = {}
  <2>1. me.read \in Seq(Line) /\ me.remaining \in Seq(Payment) /\ file \in Seq(Line)
    BY <1>2 DEF Local, QueueInv, Globals
  <2>2. Len(me.read) \in Nat /\ Len(file) \in Nat
    BY <2>1
  <2>3. more \in Seq(Line)
    BY <2>1, <2>2 DEF From
  <2> QED
    BY <1>1, <1>2, <2>1, <2>3 DEF Sound, ToSet
<1> HIDE DEF more
<1>4. /\ me.read \o more \in Seq(Line) /\ ToSet(me.read \o more) = ToSet(me.read) \cup ToSet(more)
      /\ IsSuffix(more, me.read \o more)
  BY <1>3, ElementsOfSeq, SuffixOfConcat
<1>5. /\ goesOn \in Local /\ goesOn.at = "scan" /\ goesOn.read = me.read \o more
      /\ goesOn.rest = more /\ goesOn.remaining = me.remaining
  BY <1>1, <1>2, <1>3, <1>4 DEF Local
<1>6. Accounted(goesOn, answered)
  BY <1>3, <1>4, <1>5 DEF Accounted
<1>7. Sound(i, goesOn, answered')
  BY <1>1, <1>4, <1>5, <1>6 DEF Sound, history
<1>8. Globals'
  BY <1>1 DEF QueueInv, Globals, fileVars, gatewayVars, history, lost
<1> HIDE DEF goesOn
<1> QED
  BY <1>1, <1>5, <1>7, <1>8, MoveKeeps DEF fileVars, history

-----------------------------------------------------------------------------
LEMMA GatewayExecutesKeeps ==
  ASSUME QueueInv, NEW c \in Client, NEW i \in Goroutine(c), GatewayExecutes(c, i)
  PROVE  QueueInv'
<1> DEFINE me == goroutine[c][i]
           sent == [me EXCEPT !.at = "sent"]
<1>1. /\ UNCHANGED <<fileVars, alive, loggedIn, gatewayUp, outages, loggedInAt, history>>
      /\ me.at = "send" /\ Move(c, i, sent)
      /\ begun' = IF c \in loggedInAt THEN begun \cup {Head(me.rest)} ELSE begun
  BY DEF GatewayExecutes
<1>2. Sound(i, me, answered) /\ me \in Local
  BY DEF QueueInv, Goroutines, Sound
<1>3. /\ sent \in Local /\ sent.at = "sent" /\ sent.read = me.read /\ sent.rest = me.rest
      /\ sent.remaining = me.remaining
  BY <1>2 DEF Local, At
<1>4. Sound(i, sent, answered')
  BY <1>1, <1>2, <1>3 DEF Sound, Accounted, history
<1>5. Head(me.rest) \in Payment
  BY <1>1, <1>2 DEF Sound
<1>6. Globals'
  BY <1>1, <1>5 DEF QueueInv, Globals, fileVars, history, lost
<1> HIDE DEF sent
<1> QED
  BY <1>1, <1>3, <1>4, <1>6, MoveKeeps DEF fileVars, history

LEMMA AnsweredKeeps ==
  ASSUME QueueInv, NEW c \in Client, NEW i \in Goroutine(c), Answered(c, i)
  PROVE  QueueInv'
<1> DEFINE me == goroutine[c][i]
           p == Head(me.rest)
           done == Resting("menu")
           goesOn == [me EXCEPT !.at = "scan", !.rest = Tail(@)]
<1>1. /\ UNCHANGED <<fileVars, alive, loggedIn, gatewayVars, queued, direct, lost>>
      /\ me.at = "sent" /\ answered' = answered \cup {p}
      /\ \/ i = Main /\ Move(c, i, done)
         \/ i # Main /\ Move(c, i, goesOn)
  BY DEF Answered
<1>2. Sound(i, me, answered) /\ me \in Local
  BY DEF QueueInv, Goroutines, Sound
<1>3. /\ me.rest # <<>> /\ me.rest \in Seq(Line) /\ me.read \in Seq(Line) /\ p \in Payment
      /\ Accounted(me, answered)
  BY <1>1, <1>2 DEF Sound, Local
<1>4. /\ Tail(me.rest) \in Seq(Line) /\ ToSet(me.rest) = {p} \cup ToSet(Tail(me.rest))
      /\ i # Main => IsSuffix(Tail(me.rest), me.read)
  BY <1>2, <1>3, HeadAndTail, SuffixTail DEF Sound
<1>5. Globals'
  BY <1>1, <1>3 DEF QueueInv, Globals, fileVars, gatewayVars, lost
<1>6. CASE i = Main /\ Move(c, i, done)
  <2>1. Sound(i, done, answered') /\ done.at = "menu"
    BY RestIsSound DEF Resting
  <2> HIDE DEF done
  <2> QED
    BY <1>1, <1>5, <1>6, <2>1, MoveKeeps DEF fileVars
<1>7. CASE i # Main /\ Move(c, i, goesOn)
  <2>1. /\ goesOn \in Local /\ goesOn.at = "scan" /\ goesOn.read = me.read
        /\ goesOn.rest = Tail(me.rest) /\ goesOn.remaining = me.remaining
    BY <1>2, <1>4 DEF Local, At
  <2>2. Accounted(goesOn, answered')
    BY <1>1, <1>3, <1>4, <2>1 DEF Accounted
  <2>3. Sound(i, goesOn, answered')
    BY <1>4, <1>7, <2>1, <2>2 DEF Sound
  <2> HIDE DEF goesOn
  <2> QED
    BY <1>1, <1>5, <1>7, <2>1, <2>3, MoveKeeps DEF fileVars
<1> QED
  BY <1>1, <1>6, <1>7

\* Who truncates the file carries what it read and nobody answered; the rest is dropped.
LEMMA TruncateKeeps ==
  ASSUME QueueInv, NEW c \in Client, NEW i \in Poller(c), Truncate(c, i)
  PROVE  QueueInv'
<1> DEFINE me == goroutine[c][i]
           cuts == [me EXCEPT !.at = "truncated"]
<1>1. /\ UNCHANGED <<exists, alive, loggedIn, gatewayVars, queued, direct, answered, overwritten>>
      /\ c \in alive /\ i \in Goroutine(c) /\ me.at = "scan" /\ me.rest = <<>>
      /\ file' = <<>> /\ dropped' = dropped \cup (ToSet(file) \ (ToSet(me.read) \cup {torn}))
      /\ Move(c, i, cuts)
  BY DEF Truncate, Goroutine
<1>2. Sound(i, me, answered) /\ me \in Local
  BY <1>1 DEF QueueInv, Goroutines, Sound
<1>3. /\ cuts \in Local /\ cuts.at = "truncated" /\ cuts.read = me.read /\ cuts.rest = me.rest
      /\ cuts.remaining = me.remaining
  BY <1>2 DEF Local, At
<1>4. Sound(i, cuts, answered')
  BY <1>1, <1>2, <1>3 DEF Sound, Accounted
<1>5. Globals'
  <2>1. <<>> \in Seq(Line) /\ ToSet(file) \subseteq Line
    BY ElementsOfSeq DEF QueueInv, Globals
  <2>2. dropped' \subseteq Payment
    BY <1>1, <2>1 DEF QueueInv, Globals, Line
  <2> QED
    BY <1>1, <2>1, <2>2 DEF QueueInv, Globals, gatewayVars
<1> HIDE DEF cuts
<1>6. Goroutines'
  BY <1>1, <1>4, MoveIsSound DEF QueueInv
<1>7. /\ goroutine'[c][i] = cuts
      /\ \A d \in Client : \A j \in Goroutine(d) :
           d # c \/ j # i => goroutine'[d][j] = goroutine[d][j]
  BY <1>1, MoveEffect DEF QueueInv, Goroutines
<1>8. ASSUME NEW p \in queued \ answered, p \notin Lost'
      PROVE  \E d \in alive : \E j \in Poller(d) :
               goroutine'[d][j].at = "truncated" /\ p \in ToSet(goroutine'[d][j].remaining)
  <2>1. p \notin Lost /\ (p \in ToSet(file) => p \in ToSet(me.read) \cup {torn})
    BY <1>1, <1>8 DEF Lost
  <2>2. CASE p \in ToSet(file)
    <3>1. p # torn
      BY OfflineQueueAssumption DEF QueueInv, Globals
    <3>2. ToSet(me.rest) = {}
      BY <1>1 DEF ToSet
    <3>3. p \in ToSet(me.remaining)
      BY <1>2, <1>8, <2>1, <2>2, <3>1, <3>2 DEF Sound, Accounted
    <3> QED
      BY <1>1, <1>3, <1>7, <3>3
  <2>3. ASSUME NEW d \in alive, NEW j \in Poller(d), goroutine[d][j].at = "truncated",
               p \in ToSet(goroutine[d][j].remaining)
        PROVE  goroutine'[d][j] = goroutine[d][j]
    BY <1>1, <1>7, <2>3 DEF QueueInv, Globals, Goroutine
  <2> QED
    BY <2>1, <2>2, <2>3 DEF QueueInv, Traced
<1>9. Traced'
  BY <1>1, <1>8 DEF Traced
<1> QED
  BY <1>5, <1>6, <1>9 DEF QueueInv

\* Who writes back puts all it carried into the file; what it writes over is dropped.
LEMMA WriteBackKeeps ==
  ASSUME QueueInv, NEW c \in Client, NEW i \in Poller(c), WriteBack(c, i)
  PROVE  QueueInv'
<1> DEFINE me == goroutine[c][i]
           rests == Resting("asleep")
<1>1. /\ UNCHANGED <<exists, alive, loggedIn, gatewayVars, queued, direct, answered, overwritten>>
      /\ i \in Goroutine(c) /\ file' \in WrittenOver(me.remaining, file)
      /\ dropped' = dropped \cup Vanished /\ Move(c, i, rests)
  BY DEF WriteBack, Goroutine
<1>2. me.remaining \in Seq(Payment) /\ me.remaining \in Seq(Line) /\ file \in Seq(Line)
  <2>1. me.remaining \in Seq(Payment)
    BY <1>1 DEF QueueInv, Goroutines, Sound, Local
  <2> QED
    BY <2>1 DEF QueueInv, Globals, Line
<1>3. Sound(i, rests, answered') /\ rests.at = "asleep"
  BY RestIsSound DEF Resting
<1> HIDE DEF rests
<1>4. Goroutines'
  BY <1>1, <1>3, MoveIsSound DEF QueueInv
<1>5. \A d \in Client : \A j \in Goroutine(d) :
        d # c \/ j # i => goroutine'[d][j] = goroutine[d][j]
  BY <1>1, MoveEffect DEF QueueInv, Goroutines
<1>6. /\ file' \in Seq(Line) /\ ToSet(me.remaining) \subseteq ToSet(file')
      /\ Vanished \subseteq Payment
      /\ ToSet(file) \subseteq ToSet(file') \cup Vanished \cup {torn}
  BY <1>1, <1>2, WrittenType, VanishedType
<1>7. Globals'
  BY <1>1, <1>6 DEF QueueInv, Globals, gatewayVars
<1>8. ASSUME NEW p \in queued \ answered, p \notin Lost'
      PROVE  \/ p \in ToSet(file')
             \/ \E d \in alive : \E j \in Poller(d) :
                  goroutine'[d][j].at = "truncated" /\ p \in ToSet(goroutine'[d][j].remaining)
  <2>1. p \notin Lost /\ p \notin Vanished /\ p # torn
    BY <1>1, <1>8, OfflineQueueAssumption DEF Lost, QueueInv, Globals
  <2>2. CASE p \in ToSet(file)
    BY <1>6, <2>1, <2>2
  <2>3. ASSUME NEW d \in alive, NEW j \in Poller(d), goroutine[d][j].at = "truncated",
               p \in ToSet(goroutine[d][j].remaining)
        PROVE  p \in ToSet(file') \/ goroutine'[d][j] = goroutine[d][j]
    <3>1. CASE d = c /\ j = i
      BY <1>6, <2>3, <3>1
    <3>2. CASE d # c \/ j # i
      BY <1>5, <2>3, <3>2 DEF QueueInv, Globals, Goroutine
    <3> QED
      BY <3>1, <3>2
  <2> QED
    BY <2>1, <2>2, <2>3 DEF QueueInv, Traced
<1>9. Traced'
  BY <1>1, <1>8 DEF Traced
<1> QED
  BY <1>4, <1>7, <1>9 DEF QueueInv

-----------------------------------------------------------------------------
LEMMA ClientEndsKeeps ==
  ASSUME QueueInv, NEW c \in Client, ClientEnds(c)
  PROVE  QueueInv'
<1> DEFINE rests == Resting("ended")
<1>1. /\ UNCHANGED <<fileVars, loggedIn, gatewayVars, queued, direct, answered, overwritten>>
      /\ alive' = alive \ {c}
      /\ goroutine' = [goroutine EXCEPT ![c] = [i \in Goroutine(c) |-> rests]]
      /\ dropped' = dropped \cup Carried(c)
  BY DEF ClientEnds
<1>2. \A i : Sound(i, rests, answered) /\ rests.at = "ended"
  BY RestIsSound DEF Resting
<1> HIDE DEF rests
<1>3. /\ \A i \in Goroutine(c) : goroutine'[c][i] = rests
      /\ \A d \in Client : d # c => goroutine'[d] = goroutine[d]
      /\ Shape'
  BY <1>1 DEF QueueInv, Goroutines, Shape
<1>4. Goroutines'
  <2> SUFFICES ASSUME NEW d \in Client, NEW j \in Goroutine(d)
               PROVE  /\ Sound(j, goroutine'[d][j], answered')
                      /\ goroutine'[d][j].at = "truncated" => d \in alive'
    BY <1>3 DEF Goroutines
  <2>1. CASE d = c
    BY <1>1, <1>2, <1>3, <2>1
  <2>2. CASE d # c
    <3>1. goroutine'[d] = goroutine[d]
      BY <1>3, <2>2
    <3> QED
      BY <1>1, <2>2, <3>1 DEF QueueInv, Goroutines
  <2> QED
    BY <2>1, <2>2
<1>5. /\ Carried(c) \subseteq Payment
      /\ \A p, i : i \in Poller(c) /\ goroutine[c][i].at = "truncated"
                  /\ p \in ToSet(goroutine[c][i].remaining) => p \in Carried(c)
  <2>1. ASSUME NEW i \in Poller(c) PROVE Holds(c, i) \subseteq Payment
    <3>1. goroutine[c][i].remaining \in Seq(Payment)
      BY DEF QueueInv, Goroutines, Goroutine, Sound, Local
    <3> QED
      BY <3>1, ElementsOfSeq DEF Holds
  <2> QED
    BY <2>1 DEF Carried, Holds
<1>6. Globals'
  BY <1>1, <1>5 DEF QueueInv, Globals, fileVars, gatewayVars
<1>7. Traced'
  <2> SUFFICES ASSUME NEW p \in queued \ answered, p \notin Lost', p \notin ToSet(file)
               PROVE  \E d \in alive' : \E j \in Poller(d) :
                        goroutine'[d][j].at = "truncated" /\ p \in ToSet(goroutine'[d][j].remaining)
    BY <1>1 DEF Traced, fileVars
  <2>1. p \notin Lost /\ p \notin Carried(c)
    BY <1>1 DEF Lost
  <2>2. PICK d \in alive : \E j \in Poller(d) :
          goroutine[d][j].at = "truncated" /\ p \in ToSet(goroutine[d][j].remaining)
    BY <2>1 DEF QueueInv, Traced
  <2>3. d # c /\ d \in Client
    BY <1>5, <2>1, <2>2 DEF QueueInv, Globals
  <2> QED
    BY <1>1, <1>3, <2>2, <2>3
<1> QED
  BY <1>4, <1>6, <1>7 DEF QueueInv

LEMMA GatewayKeeps ==
  ASSUME QueueInv, GatewayDown \/ GatewayBack
  PROVE  QueueInv'
<1>1. CASE GatewayBack
  <2>1. UNCHANGED <<fileVars, clientVars, outages, loggedInAt, begun, history>> /\ gatewayUp' = TRUE
    BY <1>1 DEF GatewayBack
  <2> QED
    BY <2>1 DEF QueueInv, Globals, Goroutines, Shape, Traced, Lost, fileVars, clientVars, history, lost
<1>2. CASE GatewayDown
  <2>1. /\ UNCHANGED <<fileVars, alive, loggedIn, begun, history>>
        /\ gatewayUp' = FALSE /\ outages < MaxOutages /\ outages' = outages + 1 /\ loggedInAt' = {}
        /\ goroutine' = [c \in Client |-> [i \in Goroutine(c) |->
              IF goroutine[c][i].at = "sent" THEN [goroutine[c][i] EXCEPT !.at = "failed"]
                                             ELSE goroutine[c][i]]]
    BY <1>2 DEF GatewayDown
  <2>2. Shape'
    BY <2>1 DEF Shape
  <2>3. ASSUME NEW c \in Client, NEW i \in Goroutine(c)
        PROVE  /\ Sound(i, goroutine'[c][i], answered')
               /\ goroutine'[c][i].at = "truncated" => c \in alive
               /\ goroutine[c][i].at = "truncated" => goroutine'[c][i] = goroutine[c][i]
    <3> DEFINE me == goroutine[c][i]
               fails == [me EXCEPT !.at = "failed"]
    <3>1. goroutine'[c][i] = IF me.at = "sent" THEN fails ELSE me
      BY <2>1
    <3>2. Sound(i, me, answered) /\ (me.at = "truncated" => c \in alive) /\ me \in Local
      BY DEF QueueInv, Goroutines, Sound
    <3>3. /\ fails \in Local /\ fails.at = "failed" /\ fails.read = me.read
          /\ fails.rest = me.rest /\ fails.remaining = me.remaining
      BY <3>2 DEF Local, At
    <3>4. me.at = "sent" => Sound(i, fails, answered)
      BY <3>2, <3>3 DEF Sound, Accounted
    <3> HIDE DEF fails
    <3> QED
      BY <2>1, <3>1, <3>2, <3>3, <3>4 DEF history
  <2>4. Goroutines'
    BY <2>1, <2>2, <2>3 DEF Goroutines
  <2>5. Globals'
    <3>1. outages' \in 0..MaxOutages
      BY <2>1, OfflineQueueAssumption DEF QueueInv, Globals
    <3> QED
      BY <2>1, <3>1 DEF QueueInv, Globals, fileVars, history, lost
  <2>6. \A d \in alive : \A j \in Poller(d) : goroutine[d][j].at = "truncated" =>
          goroutine'[d][j] = goroutine[d][j]
    BY <2>3 DEF QueueInv, Globals, Goroutine
  <2> QED
    BY <2>1, <2>4, <2>5, <2>6, QuietStep DEF QueueInv, fileVars, history, lost, Lost
<1> QED
  BY <1>1, <1>2

-----------------------------------------------------------------------------
LEMMA InitQueueInv == Init => QueueInv
<1> SUFFICES ASSUME Init PROVE QueueInv
  OBVIOUS
<1>1. Globals
  <2>1. <<>> \in Seq(Line) /\ 0 \in 0..MaxOutages
    BY OfflineQueueAssumption
  <2> QED
    BY <2>1 DEF Init, Globals
<1>2. Shape
  BY DEF Init, Shape
<1>3. ASSUME NEW c \in Client, NEW i \in Goroutine(c)
      PROVE  Sound(i, goroutine[c][i], answered) /\ goroutine[c][i].at # "truncated"
  <2>1. PICK at \in {"menu", "unborn"} : goroutine[c][i] = Resting(at)
    BY DEF Init
  <2>2. Resting(at).at = at
    BY DEF Resting
  <2> QED
    BY <2>1, <2>2, RestIsSound
<1>4. Traced
  BY DEF Init, Traced
<1> QED
  BY <1>1, <1>2, <1>3, <1>4 DEF QueueInv, Goroutines

LEMMA NextQueueInv == QueueInv /\ [Next]_vars => QueueInv'
<1> SUFFICES ASSUME QueueInv, [Next]_vars PROVE QueueInv'
  OBVIOUS
<1>1. \A c \in Client : Main \in Goroutine(c) /\ Poller(c) \subseteq Goroutine(c)
  BY DEF Goroutine
<1>2. ASSUME NEW c \in Client, NEW i \in Goroutine(c), MakePayment(c, i)
      PROVE  QueueInv'
  BY <1>2, GatewayExecutesKeeps, AnsweredKeeps, ClientEndsKeeps DEF MakePayment, PaymentFails
<1>3. ASSUME NEW c \in Client, NEW i \in Poller(c), CheckOnline(c, i)
      PROVE  QueueInv'
  BY <1>1, <1>2, <1>3, WakeKeeps, ScanKeeps, ScanOnKeeps, TruncateKeeps, WriteBackKeeps
     DEF CheckOnline
<1>4. CASE UNCHANGED vars
  BY <1>4 DEF vars, fileVars, clientVars, gatewayVars, history, lost, QueueInv, Globals, Goroutines,
       Shape, Traced, Lost
<1>5. ASSUME NEW c \in Client, LogIn(c) \/ OtherTurn(c) \/ ClientEnds(c) \/ LogInFails(c)
      PROVE  QueueInv'
  BY <1>5, UserKeeps, ClientEndsKeeps DEF LogInFails
<1>6. ASSUME NEW c \in Client, NEW p \in Payment,
             QueueBeforeLogin(c, p) \/ QueueInOutage(c, p) \/ PayDirectly(c, p)
      PROVE  QueueInv'
  BY <1>6, UserKeeps, DirectKeeps
<1> QED
  BY <1>1, <1>2, <1>3, <1>4, <1>5, <1>6, GatewayKeeps DEF Next

LEMMA Inductive == Spec => []QueueInv
BY InitQueueInv, NextQueueInv, PTL DEF Spec

\* The lines of the file and the goroutines are what they are taken to be; a
\* poller is always somewhere in what it read, and keeps payments only.
THEOREM TypeCorrect == Spec => []TypeOK
<1>1. QueueInv => TypeOK
  BY DEF QueueInv, Globals, Goroutines, Sound, Local, Line, TypeOK
<1> QED
  BY <1>1, Inductive, PTL

\* Whatever clients, pollers and outages do, a queued payment is answered, in
\* the file, carried by a living poller that has truncated it, or on record as
\* overwritten by a main loop in an outage or dropped by a poller: there is no
\* other way for one to get lost, however many clients and pollers there are.
THEOREM NothingLost == Spec => []NothingIsLost
<1>1. QueueInv => NothingIsLost
  BY DEF QueueInv, Traced, NothingIsLost, Carried, Holds
<1> QED
  BY <1>1, Inductive, PTL
=============================================================================
