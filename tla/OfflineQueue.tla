---------------------------- MODULE OfflineQueue ----------------------------
(***************************************************************************)
(* The offline payments of the client, client/main.go.  A payment that     *)
(* cannot be made now is a line of offline_payments.json.  All clients of  *)
(* a machine share that file and lock nothing; within a client every turn  *)
(* of the main loop starts one more goroutine checkOnline, which reads the *)
(* file, sends the payments of its own user and writes back the others.    *)
(* While the gateway is up, the main loop makes payments itself.           *)
(*                                                                         *)
(* Of the gateway only what a client can tell is here: whether it answers, *)
(* whom it takes to be logged in, and which ids it has begun.              *)
(***************************************************************************)
EXTENDS Naturals, SequencesExt

CONSTANTS Client,       \* client processes; a restarted one is another one
          User,
          Payment,      \* payments, each with an id of its own
          Login,        \* the user each client logs in as
          Sender,       \* the user each payment is from
          MaxPollers,   \* bound: how many goroutines checkOnline each client starts
          MaxOutages,   \* bound: how often the gateway goes down
          MaxLines      \* bound: the lines of the file

\* A line that does not parse.
torn == "torn"

ASSUME OfflineQueueAssumption == /\ torn \notin Payment
                                 /\ Login \in [Client -> User]
                                 /\ Sender \in [Payment -> User]
                                 /\ MaxPollers \in [Client -> Nat]
                                 /\ MaxOutages \in Nat /\ MaxLines \in Nat

\* The goroutines of client c: the main loop, and each checkOnline.
Main == 0
Poller(c) == 1..MaxPollers[c]
Goroutine(c) == {Main} \cup Poller(c)

VARIABLES
  exists,      \* offline_payments.json was created
  file,        \* its lines
  alive,       \* the clients that run
  loggedIn,    \* the clients that think they are logged in
  goroutine,   \* where the main loop and each checkOnline is
  gatewayUp,
  outages,
  loggedInAt,  \* users_loggedin of the gateway: ports, so clients
  begun,       \* the ids in transactions.txt of the gateway
  queued,      \* history: the payments that were put into the file
  direct,      \* history: the payments the main loop tried to make itself
  answered,    \* history: the payments a client got an answer for
  overwritten, \* history: the payments a main loop did not store, or wrote over
  dropped      \* history: the payments a poller cut off unread, wrote over, or took along

fileVars    == <<exists, file>>
clientVars  == <<alive, loggedIn, goroutine>>
gatewayVars == <<gatewayUp, outages, loggedInAt, begun>>
lost        == <<overwritten, dropped>>
history     == <<queued, direct, answered, lost>>
vars        == <<fileVars, clientVars, gatewayVars, history>>

At == {"unborn", "menu", "asleep", "scan", "send", "sent", "failed", "truncated", "ended"}

Resting(at) == [at |-> at, read |-> <<>>, rest |-> <<>>, remaining |-> <<>>]

\* What is in the file is a line each, and a poller is somewhere in what it read.
TypeOK == /\ exists \in BOOLEAN
          /\ file \in Seq(Payment \cup {torn})
          /\ alive \subseteq Client /\ loggedIn \subseteq Client
          /\ \A c \in Client : \A i \in Goroutine(c) :
               /\ goroutine[c][i].at \in At
               /\ goroutine[c][i].remaining \in Seq(Payment)
               /\ i # Main => IsSuffix(goroutine[c][i].rest, goroutine[c][i].read)
          /\ gatewayUp \in BOOLEAN /\ outages \in 0..MaxOutages
          /\ loggedInAt \subseteq Client
          /\ begun \subseteq Payment /\ answered \subseteq Payment /\ queued \subseteq Payment
          /\ direct \subseteq Payment
          /\ overwritten \subseteq Payment /\ dropped \subseteq Payment

\* The repository comes with an empty file; the client creates one if need be.
Init == /\ exists \in BOOLEAN
        /\ file = <<>>
        /\ alive = Client
        /\ loggedIn = {}
        /\ goroutine = [c \in Client |-> [i \in Goroutine(c) |->
                         Resting(IF i = Main THEN "menu" ELSE "unborn")]]
        /\ gatewayUp = TRUE
        /\ outages = 0
        /\ loggedInAt = {}
        /\ begun = {}
        /\ queued = {}
        /\ direct = {}
        /\ answered = {}
        /\ overwritten = {}
        /\ dropped = {}

-----------------------------------------------------------------------------
\* The payments that were in the file and are not any more.
Vanished == ToSet(file) \ (ToSet(file') \cup {torn})

From(lines, n) == SubSeq(lines, n + 1, Len(lines))

\* n lines written at the start of a file that is not truncated cover n old ones;
\* the last is as long, or longer and cuts the next, or shorter and leaves a tail.
WrittenOver(lines, old) ==
  LET n == Len(lines)
  IN  {written \in {lines \o From(old, n),
                    lines \o <<torn>> \o From(old, n + 1),
                    lines \o <<torn>> \o From(old, n)} :
         /\ (n = 0 \/ n > Len(old)) => written = lines \o From(old, n)
         /\ Len(written) <= MaxLines}

\* One turn of the main loop starts one more poller.
Turned(c) ==
  LET unborn == {i \in Poller(c) : goroutine[c][i].at = "unborn"}
  IN  IF unborn = {} THEN {goroutine[c]}
      ELSE {[goroutine[c] EXCEPT ![i] = Resting("asleep")] : i \in unborn}

AtMenu(c) == goroutine[c][Main].at = "menu"

Turn(c) == /\ AtMenu(c)
           /\ \E turned \in Turned(c) : goroutine' = [goroutine EXCEPT ![c] = turned]

\* sendRegisterRequest with the right password.
LogIn(c) ==
  /\ c \in alive \ loggedIn
  /\ gatewayUp
  /\ Turn(c)
  /\ loggedIn' = loggedIn \cup {c}
  /\ loggedInAt' = loggedInAt \cup {c}
  /\ UNCHANGED <<fileVars, alive, gatewayUp, outages, begun, history>>

\* Before the login a payment is appended, whatever user name was typed.
QueueBeforeLogin(c, p) ==
  /\ c \in alive \ loggedIn
  /\ p \notin queued \cup direct
  /\ Len(file) < MaxLines
  /\ Turn(c)
  /\ exists' = TRUE
  /\ file' = Append(file, p)
  /\ queued' = queued \cup {p}
  /\ UNCHANGED <<alive, loggedIn, gatewayVars, direct, answered, lost>>

\* After the login, with the gateway down, it is written to the start of the
\* file, and nowhere when there is no file.
QueueInOutage(c, p) ==
  /\ c \in alive \cap loggedIn
  /\ Sender[p] = Login[c]
  /\ p \notin queued \cup direct
  /\ ~gatewayUp
  /\ Turn(c)
  /\ IF exists THEN file' \in WrittenOver(<<p>>, file) ELSE UNCHANGED file
  /\ queued' = queued \cup {p}
  /\ overwritten' = overwritten \cup Vanished \cup ({p} \ ToSet(file'))
  /\ UNCHANGED <<exists, alive, loggedIn, gatewayVars, direct, answered, dropped>>

\* With the gateway up, it is sent to it, and the main loop waits for the answer.
PayDirectly(c, p) ==
  /\ c \in alive \cap loggedIn
  /\ Sender[p] = Login[c]
  /\ p \notin queued \cup direct
  /\ gatewayUp
  /\ AtMenu(c)
  /\ \E turned \in Turned(c) : goroutine' =
       [goroutine EXCEPT ![c] = [turned EXCEPT ![Main] = [Resting("send") EXCEPT !.rest = <<p>>]]]
  /\ direct' = direct \cup {p}
  /\ UNCHANGED <<fileVars, alive, loggedIn, gatewayVars, queued, answered, lost>>

\* Any other turn, as to see the balance.
OtherTurn(c) ==
  /\ c \in alive \cap loggedIn
  /\ Turn(c)
  /\ UNCHANGED <<fileVars, alive, loggedIn, gatewayVars, history>>

-----------------------------------------------------------------------------
Move(c, i, p) == goroutine' = [goroutine EXCEPT ![c][i] = p]

\* The first Scan reads the whole of a small file.
Wake(c, i) ==
  /\ c \in alive \cap loggedIn
  /\ goroutine[c][i].at = "asleep"
  /\ IF exists
     THEN Move(c, i, [at |-> "scan", read |-> file, rest |-> file, remaining |-> <<>>])
     ELSE Move(c, i, Resting("ended"))
  /\ UNCHANGED <<fileVars, alive, loggedIn, gatewayVars, history>>

\* Faulty variants: the payments of others are dropped, one's own are kept, and
\* the line that does not parse is.
KeptNothing(c, p) == FALSE
KeptAlways(c, p)  == p # torn
KeptTorn(c, p)    == p = torn \/ Sender[p] # Login[c]

\* Only the payments of somebody else are kept; a line that does not parse is dropped.
Kept(c, p) == p # torn /\ Sender[p] # Login[c]
Own(c, p)  == p # torn /\ Sender[p] = Login[c]

Scan(c, i) ==
  LET me == goroutine[c][i]  p == Head(me.rest)
  IN  /\ c \in alive
      /\ me.at = "scan"
      /\ me.rest # <<>>
      /\ \/ /\ Own(c, p) /\ gatewayUp
            /\ Move(c, i, [me EXCEPT !.at = "send"])
         \/ /\ Kept(c, p) \/ (Own(c, p) /\ ~gatewayUp)
            /\ Move(c, i, [me EXCEPT !.rest = Tail(@), !.remaining = Append(@, p)])
         \/ /\ ~Kept(c, p) /\ ~Own(c, p)
            /\ Move(c, i, [me EXCEPT !.rest = Tail(@)])
      /\ UNCHANGED <<fileVars, alive, loggedIn, gatewayVars, history>>

\* The gateway begins the payment, or refuses it: not logged in, or a known id.
GatewayExecutes(c, i) ==
  LET me == goroutine[c][i]  p == Head(me.rest)
  IN  /\ c \in alive
      /\ gatewayUp
      /\ me.at = "send"
      /\ Move(c, i, [me EXCEPT !.at = "sent"])
      /\ begun' = IF c \in loggedInAt THEN begun \cup {p} ELSE begun
      /\ UNCHANGED <<fileVars, alive, loggedIn, gatewayUp, outages, loggedInAt, history>>

\* Whatever the answer says, the payment is done with.
Answered(c, i) ==
  LET me == goroutine[c][i]
  IN  /\ c \in alive
      /\ gatewayUp
      /\ me.at = "sent"
      /\ Move(c, i, IF i = Main THEN Resting("menu")
                    ELSE [me EXCEPT !.at = "scan", !.rest = Tail(@)])
      /\ answered' = answered \cup {Head(me.rest)}
      /\ UNCHANGED <<fileVars, alive, loggedIn, gatewayVars, queued, direct, lost>>

\* At the end of what was read the scanner looks for more; then the file is truncated,
\* with whatever was written behind the reader's back.
ScanOn(c, i) ==
  LET me == goroutine[c][i]
  IN  /\ c \in alive
      /\ me.at = "scan" /\ me.rest = <<>>
      /\ Len(file) > Len(me.read)
      /\ Move(c, i, [me EXCEPT !.rest = From(file, Len(me.read)),
                               !.read = @ \o From(file, Len(me.read))])
      /\ UNCHANGED <<fileVars, alive, loggedIn, gatewayVars, history>>

Truncate(c, i) ==
  LET me == goroutine[c][i]
  IN  /\ c \in alive
      /\ me.at = "scan" /\ me.rest = <<>>
      /\ Len(file) <= Len(me.read)
      /\ file' = <<>>
      /\ dropped' = dropped \cup (ToSet(file) \ (ToSet(me.read) \cup {torn}))
      /\ Move(c, i, [me EXCEPT !.at = "truncated"])
      /\ UNCHANGED <<exists, alive, loggedIn, gatewayVars, queued, direct, answered, overwritten>>

WriteBack(c, i) ==
  LET me == goroutine[c][i]
  IN  /\ c \in alive
      /\ me.at = "truncated"
      /\ file' \in WrittenOver(me.remaining, file)
      /\ dropped' = dropped \cup Vanished
      /\ Move(c, i, Resting("asleep"))
      /\ UNCHANGED <<exists, alive, loggedIn, gatewayVars, queued, direct, answered, overwritten>>

-----------------------------------------------------------------------------
\* What client c has taken off the file and not yet written back.
Holds(c, i) == IF goroutine[c][i].at = "truncated" THEN ToSet(goroutine[c][i].remaining) ELSE {}
Carried(c)  == UNION {Holds(c, i) : i \in Poller(c)}

\* The process ends with all its goroutines: the user leaves, or log.Fatalf.
ClientEnds(c) ==
  /\ c \in alive
  /\ alive' = alive \ {c}
  /\ goroutine' = [goroutine EXCEPT ![c] = [i \in Goroutine(c) |-> Resting("ended")]]
  /\ dropped' = dropped \cup Carried(c)
  /\ UNCHANGED <<fileVars, loggedIn, gatewayVars, queued, direct, answered, overwritten>>

\* A call to a gateway that is down, or goes down, fails and ends the client.
LogInFails(c) == c \notin loggedIn /\ ~gatewayUp /\ ClientEnds(c)

PaymentFails(c, i) == /\ \/ goroutine[c][i].at = "failed"
                         \/ goroutine[c][i].at = "send" /\ ~gatewayUp
                      /\ ClientEnds(c)

GatewayDown ==
  /\ gatewayUp
  /\ outages < MaxOutages
  /\ gatewayUp' = FALSE
  /\ outages' = outages + 1
  /\ loggedInAt' = {}
  /\ goroutine' = [c \in Client |-> [i \in Goroutine(c) |->
                 IF goroutine[c][i].at = "sent" THEN [goroutine[c][i] EXCEPT !.at = "failed"]
                                             ELSE goroutine[c][i]]]
  /\ UNCHANGED <<fileVars, alive, loggedIn, begun, history>>

GatewayBack ==
  /\ ~gatewayUp
  /\ gatewayUp' = TRUE
  /\ UNCHANGED <<fileVars, clientVars, outages, loggedInAt, begun, history>>

\* The call of MakePayment by goroutine i.
MakePayment(c, i) == GatewayExecutes(c, i) \/ Answered(c, i) \/ PaymentFails(c, i)

CheckOnline(c, i) == \/ Wake(c, i) \/ Scan(c, i) \/ ScanOn(c, i)
                     \/ Truncate(c, i) \/ WriteBack(c, i) \/ MakePayment(c, i)

Next == \/ \E c \in Client : LogIn(c) \/ OtherTurn(c) \/ ClientEnds(c) \/ LogInFails(c)
        \/ \E c \in Client, p \in Payment :
             QueueBeforeLogin(c, p) \/ QueueInOutage(c, p) \/ PayDirectly(c, p)
        \/ \E c \in Client : MakePayment(c, Main) \/ \E i \in Poller(c) : CheckOnline(c, i)
        \/ GatewayDown \/ GatewayBack

Spec == Init /\ [][Next]_vars

\* A goroutine that can go on does, and a gateway that is up answers.  Users owe
\* nothing, and nothing says that a gateway comes back.
Fairness == \A c \in Client : /\ WF_vars(MakePayment(c, Main))
                              /\ \A i \in Poller(c) : WF_vars(CheckOnline(c, i))
FairSpec == Spec /\ Fairness

-----------------------------------------------------------------------------
(* A queued payment that was not answered (accepted or refused) is in the  *)
(* file, or carried by a living poller that has truncated it and will      *)
(* write it back (client/main.go:113-148), whatever clients, pollers and   *)
(* outages do.  The code loses payments in two ways, each on record where  *)
(* it happens.  A main loop that queues in an outage overwrites the start  *)
(* of the file, or stores nothing where there is no file: `overwritten`.   *)
(* And a poller cuts off what was written after it had read the file,      *)
(* writes over what came after it had truncated it, or ends with its       *)
(* client in between: `dropped`.  Nothing else loses one: neither what a   *)
(* poller keeps and sends, nor an outage it meets, nor the end of a client *)
(* that has not truncated the file.                                        *)
Lost == overwritten \cup dropped
NothingIsLost ==
  \A p \in queued \ (answered \cup Lost) : p \in ToSet(file) \/ \E c \in alive : p \in Carried(c)

(* A queued payment whose user is the only one logged in on the machine is *)
(* answered or lost in the end, while the gateway and the client stay up   *)
(* and a goroutine of the client is left to poll (client/main.go:106-151). *)
(* A payment made directly is answered, or its client ends because the     *)
(* gateway went down after it had been found up (client/main.go:293,       *)
(* 316-321): the main loop never hangs.                                    *)
Polls(c) == c \in alive /\ \E i \in Poller(c) : goroutine[c][i].at \notin {"unborn", "ended"}
Alone(u) == \A c \in loggedIn \cap alive : Login[c] = u
Due(c, p) == /\ p \in queued \ (answered \cup Lost)
             /\ c \in loggedIn /\ Polls(c) /\ Alone(Login[c])
             /\ gatewayUp
Waits(c) == goroutine[c][Main].at \in {"send", "sent", "failed"}
PaymentsAreAnswered ==
  \A c \in Client : /\ \A p \in {q \in Payment : Sender[q] = Login[c]} : Due(c, p) ~> ~Due(c, p)
                    /\ Waits(c) ~> ~Waits(c)

(* What README.md:165-166 promises, and the code does not do.  Line 165:   *)
(* payments are stored when the gateway is unavailable.  Line 166: queued  *)
(* payments are processed when it is back, so that what a poller takes off *)
(* the file for good was at least begun by the gateway.  The disjunction   *)
(* is false only where neither holds: one state refutes both lines.        *)
StoredInOutage    == overwritten = {}
RetriedUntilBegun == queued \cap answered \subseteq begun
OfflineCapabilities == dropped = {} => StoredInOutage \/ RetriedUntilBegun
=============================================================================
