-------------------------- MODULE SettlementProofs --------------------------
(***************************************************************************)
(* How payments of Strife settle, for every set of banks, users, payments  *)
(* and invocations: a payment that nothing disturbed is atomic, and the    *)
(* shared account file holds what was applied.                             *)
(***************************************************************************)
EXTENDS StrifeProofs, DataLemmas

\* The invariant holds after a start-up without incidents.
LEMMA WarmType == WarmInit => TypeOK
<1> SUFFICES ASSUME WarmInit PROVE TypeOK
  OBVIOUS
<1>1. PaymentsTypeOK
  BY DEF WarmInit, PaymentsTypeOK, RpcState, Phase
<1>2. BankTypeOK
  <2>1. IsAccounts(csv) /\ users = [b \in Bank |-> users[b]] /\ \A b \in Bank : IsAccounts(users[b])
    BY Constants DEF WarmInit
  <2> QED
    BY <2>1 DEF WarmInit, BankTypeOK, NothingPending, Operation, Idle, Stage
<1>3. GatewayTypeOK
  <2>1. users_loggedin \subseteq User
    BY Constants DEF WarmInit, IsAccounts
  <2> QED
    BY <2>1 DEF WarmInit, GatewayTypeOK, NoLogs, NoLog, TransactionLog, Status, Reply
<1> QED
  BY <1>1, <1>2, <1>3 DEF TypeOK

LEMMA WarmInvariant == WarmInit => AtomicityInv
<1> SUFFICES ASSUME WarmInit PROVE AtomicityInv
  OBVIOUS
<1> USE DEF WarmInit, Kind, PrepareKind, CommitKind, AbortKind
<1>1. TypeOK
  BY WarmType
<1>2. CallsInOrder /\ OneOwner
  BY DEF CallsInOrder, OneOwner, InOrder, Owner, Over, Running, Ended
<1>3. Connections /\ Entries
  BY Constants DEF Connections, Entries
<1>4. Counts
  BY Constants DEF Counts, Applied
<1>5. Outcomes /\ Replies
  BY DEF Outcomes, Replies, StatusBacked, NoLogs, NoLog, Final, Running
<1>6. FirstRuns
  BY DEF FirstRuns
<1>7. Steadiness
  <2>1. ASSUME NEW t \in Tx PROVE SteadyPayment(t)
    <3>1. Payment[t].fromBank \in Bank /\ Payment[t].toBank \in Bank
      BY Constants DEF PaymentDetails
    <3> QED
      BY <3>1 DEF SteadyPayment, Owner, NothingPending
  <2> QED
    BY <2>1 DEF Steadiness
<1> QED
  BY <1>1, <1>2, <1>3, <1>4, <1>5, <1>6, <1>7 DEF AtomicityInv, IInv

\* The invariant of the other properties is kept, whatever the initial state.
LEMMA InvariantStep == ASSUME CrossBank PROVE IInv /\ [Next]_vars => IInv'
BY TypeStep, OrderStep, ConnectionsStep, EntriesStep, CountsStep, OutcomesStep, RepliesStep
   DEF IInv

-----------------------------------------------------------------------------
\* What runs, runs since the start-up or was started again.
LEMMA FirstRunsStep == TypeOK /\ FirstRuns /\ [Next]_vars => FirstRuns'
<1> SUFFICES ASSUME TypeOK, FirstRuns, [Next]_vars PROVE FirstRuns'
  OBVIOUS
<1>1. /\ gatewayRuns \in Nat \ {0} /\ incarnation \in [Bank -> Nat] /\ phase \in [Bank -> Phase]
      /\ bankservers_conns \in [Bank -> Nat] /\ gatewayUp \in BOOLEAN
  BY DEF FirstRuns, TypeOK, PaymentsTypeOK, GatewayTypeOK
<1>2. CASE UNCHANGED <<phase, incarnation, gatewayUp, gatewayRuns, bankservers_conns>>
  BY <1>2 DEF FirstRuns
<1>3. ASSUME NEW b \in Bank, BankComesUp(b) \/ BankDies(b) PROVE FirstRuns'
  <2>1. CASE Start(b) /\ UNCHANGED gatewayVars
    BY <1>1, <2>1 DEF Start, FirstRuns, gatewayVars
  <2>2. CASE Serve(b) /\ UNCHANGED gatewayVars
    BY <1>1, <2>2 DEF Serve, FirstRuns, gatewayVars
  <2>3. CASE RegisterServer(b)
    BY <1>1, <2>3 DEF RegisterServer, FirstRuns
  <2>4. CASE RegisterFails(b)
    BY <1>1, <2>4 DEF RegisterFails, FirstRuns, gatewayVars
  <2>5. CASE BankCrash(b) /\ UNCHANGED gatewayVars
    BY <1>1, <2>5 DEF BankCrash, FirstRuns, gatewayVars
  <2> QED
    BY <1>3, <2>1, <2>2, <2>3, <2>4, <2>5 DEF BankComesUp, BankDies
<1>4. CASE GatewayFails
  BY <1>1, <1>4, GatewayFailsEffect DEF GatewayDies, FirstRuns, procVars
<1>5. CASE GatewayComesUp
  BY <1>1, <1>5 DEF GatewayComesUp, GatewayRestart, FirstRuns, procVars
<1>6. ASSUME NEW c \in Call, NEW k \in Kind, BankServes(c, k)
      PROVE  UNCHANGED <<phase, incarnation, gatewayUp, gatewayRuns, bankservers_conns>>
  BY <1>6 DEF BankServes, procVars, gatewayVars
<1>7. ASSUME NEW c \in Call, PaymentBegins(c) \/ PaymentGoesOn(c)
      PROVE  UNCHANGED <<phase, incarnation, gatewayUp, gatewayRuns, bankservers_conns>>
  BY <1>7 DEF PaymentBegins, BeginPayment, PaymentGoesOn, GatewayHandler, PrepareSourceReturns,
     PrepareDestReturns, CommitSourceReturns, CommitDestReturns, AbortSourceReturns,
     AbortDestReturns, PersistTransactionLogs, SendAbort, procVars, registry
<1>8. ASSUME \/ \E b \in Bank : BankSaves(b)
             \/ \E b \in Bank, S \in SUBSET MayGoStale : BankCleans(b, S)
             \/ \E u \in User, b \in Bank : ClientLogsIn(u, b)
             \/ \E u \in Mortal : ClientFails(u)
             \/ UNCHANGED vars
      PROVE  UNCHANGED <<phase, incarnation, gatewayUp, gatewayRuns, bankservers_conns>>
  BY <1>8 DEF BankSaves, BankCleans, ClientLogsIn, RegisterClient, ClientFails, ClientDies,
     procVars, registry, gatewayVars, vars
<1> QED
  BY <1>2, <1>3, <1>4, <1>5, <1>6, <1>7, <1>8 DEF Next

\* A payment that is undisturbed after a step was undisturbed before it: nothing
\* that died, was cancelled or was started again looks as if it had not been.
LEMMA UndisturbedBefore ==
  ASSUME TypeOK, FirstRuns, [Next]_vars, NEW t \in Tx, Undisturbed(t)'
  PROVE  Undisturbed(t)
<1> DEFINE mine == {Payment[t].fromBank, Payment[t].toBank}
<1>1. /\ gatewayRuns \in Nat \ {0} /\ incarnation \in [Bank -> Nat] /\ phase \in [Bank -> Phase]
      /\ mine \subseteq Bank
  BY Constants DEF FirstRuns, TypeOK, PaymentsTypeOK, PaymentDetails
<1>2. /\ t \notin MayGoStale
      /\ gatewayRuns' = 1 /\ gatewayUp'
      /\ \A c \in Call : TxOf[c] = t => c \notin cancelled'
      /\ \A b \in mine : phase'[b] = "serving" /\ incarnation'[b] = 1
  BY DEF Undisturbed
<1> HIDE DEF mine
<1>3. SUFFICES /\ gatewayRuns = 1 /\ gatewayUp /\ cancelled \subseteq cancelled'
               /\ \A b \in mine : phase[b] = "serving" /\ incarnation[b] = 1
  BY <1>2 DEF Undisturbed, mine
<1>4. CASE UNCHANGED <<phase, incarnation, gatewayUp, gatewayRuns>> /\ cancelled \subseteq cancelled'
  BY <1>2, <1>4
<1>5. ASSUME NEW b \in Bank, BankComesUp(b) \/ BankDies(b)
      PROVE  /\ gatewayRuns = 1 /\ gatewayUp /\ cancelled \subseteq cancelled'
             /\ \A d \in mine : phase[d] = "serving" /\ incarnation[d] = 1
  <2>1. UNCHANGED <<gatewayUp, gatewayRuns, cancelled>>
    BY <1>5 DEF BankComesUp, BankDies, RegisterServer, RegisterFails, gatewayVars
  <2>2. ASSUME NEW d \in mine PROVE phase[d] = "serving" /\ incarnation[d] = 1
    <3>1. d \in Bank /\ phase'[d] = "serving" /\ incarnation'[d] = 1
      BY <1>1, <1>2
    <3>2. CASE Start(b)
      BY <1>1, <3>1, <3>2 DEF Start, FirstRuns
    <3>3. CASE Serve(b)
      BY <1>1, <3>1, <3>3 DEF Serve, FirstRuns
    <3>4. CASE RegisterServer(b)
      BY <1>1, <3>1, <3>4 DEF RegisterServer
    <3>5. CASE RegisterFails(b)
      BY <1>1, <3>1, <3>5 DEF RegisterFails
    <3>6. CASE BankCrash(b)
      BY <1>1, <3>1, <3>6 DEF BankCrash
    <3> QED
      BY <1>5, <3>2, <3>3, <3>4, <3>5, <3>6 DEF BankComesUp, BankDies
  <2> QED
    BY <1>2, <2>1, <2>2
<1>6. CASE GatewayFails
  BY <1>2, <1>6, GatewayFailsEffect
<1>7. CASE GatewayComesUp
  BY <1>1, <1>2, <1>7 DEF GatewayComesUp, GatewayRestart
<1>8. ASSUME NEW c \in Call, NEW k \in Kind, BankServes(c, k)
      PROVE  UNCHANGED <<phase, incarnation, gatewayUp, gatewayRuns, cancelled>>
  BY <1>8 DEF BankServes, procVars, gatewayVars
<1>9. ASSUME NEW c \in Call, PaymentBegins(c) \/ PaymentGoesOn(c)
      PROVE  UNCHANGED <<phase, incarnation, gatewayUp, gatewayRuns, cancelled>>
  BY <1>9 DEF PaymentBegins, BeginPayment, PaymentGoesOn, GatewayHandler, PrepareSourceReturns,
     PrepareDestReturns, CommitSourceReturns, CommitDestReturns, AbortSourceReturns,
     AbortDestReturns, PersistTransactionLogs, SendAbort, procVars, registry
<1>10. ASSUME \/ \E b \in Bank : BankSaves(b)
              \/ \E b \in Bank, S \in SUBSET MayGoStale : BankCleans(b, S)
              \/ \E u \in User, b \in Bank : ClientLogsIn(u, b)
              \/ \E u \in Mortal : ClientFails(u)
              \/ UNCHANGED vars
       PROVE  UNCHANGED <<phase, incarnation, gatewayUp, gatewayRuns>> /\ cancelled \subseteq cancelled'
  BY <1>10 DEF BankSaves, BankCleans, ClientLogsIn, RegisterClient, ClientFails, ClientDies,
     procVars, registry, gatewayVars, vars
<1> QED
  BY <1>4, <1>5, <1>6, <1>7, <1>8, <1>9, <1>10 DEF Next

-----------------------------------------------------------------------------
\* Invocation d and the entries of its payment, untouched by a step.
LEMMA SteadyFrame ==
  ASSUME NEW d \in Call, Steady(d),
         UNCHANGED <<rpc[d], client[d], pc[d], reply[d], transactionLogs[TxOf[d]]>>,
         \A b \in {Pay(d).fromBank, Pay(d).toBank} :
            pending'[b][TxOf[d]] = pending[b][TxOf[d]]
  PROVE  Steady(d)'
BY DEF Steady, Calm, Logged, EitherWay, Held, Entry, Aborting, Over, Pay

\* A step that is not about payment t at all.
LEMMA PaymentFrame ==
  ASSUME NEW t \in Tx, SteadyPayment(t),
         UNCHANGED transactionLogs[t],
         \A d \in Call : TxOf[d] = t =>
            /\ UNCHANGED <<rpc[d], client[d]>>
            /\ Owner(d) => UNCHANGED <<pc[d], reply[d]>>,
         \A b \in {Payment[t].fromBank, Payment[t].toBank} : pending'[b][t] = pending[b][t]
  PROVE  SteadyPayment(t)'
<1>1. \A d \in Call : TxOf[d] = t => (Owner(d)' <=> Owner(d))
  BY DEF Owner
<1>2. ASSUME NEW d \in Call, TxOf[d] = t, Owner(d) PROVE Steady(d)'
  <2>1. Steady(d)
    BY <1>2 DEF SteadyPayment
  <2>2. \A b \in {Pay(d).fromBank, Pay(d).toBank} :
            pending'[b][TxOf[d]] = pending[b][TxOf[d]]
    BY <1>2 DEF Pay
  <2> QED
    BY <1>2, <2>1, <2>2, SteadyFrame
<1>3. (\A c \in Call : TxOf[c] = t => ~Owner(c)') =>
         pending'[Payment[t].fromBank][t] = "none" /\ pending'[Payment[t].toBank][t] = "none"
  BY <1>1 DEF SteadyPayment
<1> QED
  BY <1>1, <1>2, <1>3 DEF SteadyPayment

\* A step of the owner c of t: no other invocation matters.
LEMMA OwnerSteps ==
  ASSUME OneOwner', NEW c \in Call, NEW t \in Tx, TxOf[c] = t, Owner(c)', Steady(c)'
  PROVE  SteadyPayment(t)'
BY DEF OneOwner, SteadyPayment

\* Nothing else than the steps of t's own invocations concerns an undisturbed t.
LEMMA BystanderSteady ==
  ASSUME TypeOK, FirstRuns, Bystander, NEW t \in Tx, Undisturbed(t), Undisturbed(t)', SteadyPayment(t)
  PROVE  SteadyPayment(t)'
<1> DEFINE mine == {Payment[t].fromBank, Payment[t].toBank}
<1>1. UNCHANGED <<rpc, client, pc, reply>>
  BY BystanderEffect
<1>2. /\ \A b \in mine : phase[b] = "serving" /\ phase'[b] = "serving"
      /\ mine \subseteq Bank /\ gatewayUp /\ t \notin MayGoStale
      /\ pending \in [Bank -> [Tx -> Operation]] /\ phase \in [Bank -> Phase]
  BY Constants DEF Undisturbed, PaymentDetails, TypeOK, BankTypeOK, PaymentsTypeOK
<1>3. UNCHANGED transactionLogs
  BY <1>2 DEF Bystander, BankSaves, BankComesUp, RegisterServer, RegisterFails, BankDies, BankCleans,
     ClientLogsIn, RegisterClient, ClientFails, ClientDies, GatewayComesUp, GatewayRestart, vars,
     gatewayVars
<1>4. ASSUME NEW d \in mine PROVE pending'[d][t] = pending[d][t]
  <2>1. d \in Bank /\ phase[d] = "serving" /\ phase'[d] = "serving"
    BY <1>2
  <2> HIDE DEF mine
  <2>2. CASE UNCHANGED pending
    BY <2>2
  <2>3. ASSUME NEW b \in Bank, Serve(b) PROVE pending'[d][t] = pending[d][t]
    <3>1. b # d
      BY <2>1, <2>3 DEF Serve
    <3> QED
      BY <1>2, <2>1, <2>3, <3>1 DEF Serve
  <2>4. ASSUME NEW b \in Bank, BankDies(b) PROVE pending'[d][t] = pending[d][t]
    <3>1. b # d
      BY <1>2, <2>1, <2>4 DEF BankDies, BankCrash
    <3> QED
      BY <1>2, <2>1, <2>4, <3>1 DEF BankDies, BankCrash
  <2>5. ASSUME NEW b \in Bank, NEW S \in SUBSET MayGoStale, BankCleans(b, S)
        PROVE  pending'[d][t] = pending[d][t]
    <3>1. pending' = [pending EXCEPT ![b] = DeleteStale(b, S)] /\ t \notin S
      BY <1>2, <2>5 DEF BankCleans, CleanupStale
    <3>2. DeleteStale(b, S)[t] = pending[b][t]
      BY <3>1 DEF DeleteStale
    <3> QED
      BY <1>2, <2>1, <3>1, <3>2
  <2>6. UNCHANGED pending \/ (\E b \in Bank : Serve(b) \/ BankDies(b))
        \/ (\E b \in Bank, S \in SUBSET MayGoStale : BankCleans(b, S))
    BY DEF Bystander, BankSaves, SaveRead, SaveTruncate, BankComesUp, Start, ClientLogsIn, ClientFails,
       GatewayComesUp, vars, bankVars
  <2> QED
    BY <2>2, <2>3, <2>4, <2>5, <2>6
<1> QED
  BY <1>1, <1>3, <1>4, PaymentFrame

\* The call that the owner of an undisturbed payment waits for does not fail.
LEMMA NoError ==
  ASSUME TypeOK, NEW c \in Call, Undisturbed(TxOf[c]), NEW k \in Kind,
         client[c][k] = 1
  PROVE  ~Error(c, k) /\ Reachable(c, k)
BY DEF Undisturbed, Error, Reachable, Target, Pay

\* A bank serves a request of another payment.
LEMMA ServedOthers ==
  ASSUME TypeOK, NEW t \in Tx, SteadyPayment(t),
         NEW c \in Call, NEW k \in Kind, BankServes(c, k), TxOf[c] # t
  PROVE  SteadyPayment(t)'
<1>1. UNCHANGED <<client, pc, reply, transactionLogs>> /\ \E a : rpc' = [rpc EXCEPT ![c][k] = a]
  BY BankServesEffect DEF gatewayVars, Answer
<1>2. \A d \in Call : TxOf[d] = t => rpc'[d] = rpc[d]
  BY <1>1 DEF TypeOK, PaymentsTypeOK
<1>3. \/ UNCHANGED pending
      \/ \E b \in Bank : \E op : pending' = [pending EXCEPT ![b][TxOf[c]] = op]
  <2>1. Target(c, k) \in Bank
    BY Constants
  <2>2. CASE Prepare(c, k)
    BY <2>1, <2>2 DEF Prepare
  <2>3. CASE CommitApply(c, k)
    BY <2>1, <2>3 DEF CommitApply
  <2>4. CASE Abort(c, k)
    BY <2>1, <2>4 DEF Abort
  <2>5. CASE CommitUnknown(c, k) \/ SaveFlush(c, k)
    BY <2>5 DEF CommitUnknown, SaveFlush, bankVars
  <2> QED
    BY <2>2, <2>3, <2>4, <2>5 DEF BankServes
<1>4. \A b \in Bank : pending'[b][t] = pending[b][t]
  BY <1>3 DEF TypeOK, BankTypeOK
<1>5. {Payment[t].fromBank, Payment[t].toBank} \subseteq Bank
  BY Constants DEF PaymentDetails
<1> QED
  BY <1>1, <1>2, <1>4, <1>5, PaymentFrame

\* A request of the owner is answered: never a commit or an abort with "no".
Answers(c, k, a) ==
  \/ k \in PrepareKind /\ rpc[c][k] = "sent" /\ a \in {"yes", "no"}
  \/ k \in CommitKind /\ rpc[c][k] = "sent" /\ a = "busy"
  \/ k \in CommitKind /\ rpc[c][k] = "busy" /\ a = "yes"
  \/ k \in AbortKind /\ rpc[c][k] = "sent" /\ a = "yes"

LEMMA AnsweredSteady ==
  ASSUME NEW c \in Call, InOrder(c), Steady(c), NEW k \in Kind, NEW a, Answers(c, k, a),
         UNCHANGED <<client[c], pc[c], reply[c], transactionLogs[TxOf[c]]>>,
         rpc'[c][k] = a, \A j \in Kind \ {k} : rpc'[c][j] = rpc[c][j]
  PROVE  Calm(c)' /\ Logged(c)' /\ EitherWay(c)'
<1> USE DEF Kind, PrepareKind, CommitKind, AbortKind
<1>1. Calm(c) /\ Logged(c) /\ EitherWay(c)
  BY DEF Steady
<1>2. pc[c] = k /\ ~Over(c)
  BY <1>1 DEF Calm, Answers, Over, Ended
<1>3. Calm(c)'
  BY <1>1, <1>2 DEF Calm, Answers
<1>4. Logged(c)'
  BY <1>1, <1>2 DEF Logged, Answers, Over, Ended
<1>5. EitherWay(c)'
  BY <1>1, <1>2 DEF EitherWay, Answers, Aborting, Over, Ended, InOrder
<1> QED
  BY <1>3, <1>4, <1>5

\* A bank serves a request of the owner.
LEMMA ServedOwner ==
  ASSUME CrossBank, TypeOK, NEW c \in Call, InOrder(c), Steady(c),
         NEW k \in Kind, BankServes(c, k)
  PROVE  Steady(c)'
<1> USE DEF Kind, PrepareKind, CommitKind, AbortKind
<1> DEFINE t == TxOf[c]
           src == Pay(c).fromBank
           dst == Pay(c).toBank
<1>1. t \in Tx /\ src \in Bank /\ dst \in Bank /\ src # dst
  BY Constants DEF CrossBank, Pay, PaymentDetails
<1>2. UNCHANGED <<client, pc, reply, transactionLogs>>
  BY BankServesEffect DEF gatewayVars
<1>3. /\ rpc \in [Call -> [Kind -> RpcState]] /\ pending \in [Bank -> [Tx -> Operation]]
      /\ Target(c, k) = IF k \in SourceKind THEN src ELSE dst
  BY DEF TypeOK, PaymentsTypeOK, BankTypeOK, Target
<1>4. /\ Calm(c) /\ EitherWay(c)
      /\ pending[src][t] = Entry(c, "prepareSource", "commitSource", "abortSource")
      /\ pending[dst][t] = Entry(c, "prepareDest", "commitDest", "abortDest")
  BY DEF Steady, Held
<1> HIDE DEF t, src, dst
<1>5. ASSUME NEW a, Answer(c, k, a), Answers(c, k, a),
             /\ pending'[src][t] = Entry(c, "prepareSource", "commitSource", "abortSource")'
             /\ pending'[dst][t] = Entry(c, "prepareDest", "commitDest", "abortDest")'
      PROVE  Steady(c)'
  <2>1. rpc'[c][k] = a /\ \A j \in Kind \ {k} : rpc'[c][j] = rpc[c][j]
    BY <1>3, <1>5 DEF Answer
  <2>2. Calm(c)' /\ Logged(c)' /\ EitherWay(c)'
    BY <1>2, <1>5, <2>1, AnsweredSteady
  <2>3. Held(c)'
    BY <1>5 DEF Held, Pay, src, dst, t
  <2> QED
    BY <2>2, <2>3 DEF Steady
<1>6. ASSUME NEW a, Answer(c, k, a)
      PROVE  rpc'[c][k] = a /\ \A j \in Kind \ {k} : rpc'[c][j] = rpc[c][j]
  BY <1>3, <1>6 DEF Answer
<1>7. ASSUME NEW op, pending' = [pending EXCEPT ![Target(c, k)][t] = op]
      PROVE  /\ pending'[Target(c, k)][t] = op
             /\ k \in SourceKind => pending'[dst][t] = pending[dst][t]
             /\ k \notin SourceKind => pending'[src][t] = pending[src][t]
  BY <1>1, <1>3, <1>7
<1>8. CASE Prepare(c, k)
  <2>1. k \in PrepareKind /\ rpc[c][k] = "sent"
    BY <1>8 DEF Prepare, Served
  <2>2. CASE Answer(c, k, "yes") /\ pending' = [pending EXCEPT ![Target(c, k)][t] = OperationOf(k)]
    <3>1. rpc'[c][k] = "yes" /\ \A j \in Kind \ {k} : rpc'[c][j] = rpc[c][j]
      BY <2>2, <1>6
    <3>2. /\ pending'[Target(c, k)][t] = OperationOf(k)
          /\ k \in SourceKind => pending'[dst][t] = pending[dst][t]
          /\ k \notin SourceKind => pending'[src][t] = pending[src][t]
      BY <2>2, <1>7
    <3>3. /\ pending'[src][t] = Entry(c, "prepareSource", "commitSource", "abortSource")'
          /\ pending'[dst][t] = Entry(c, "prepareDest", "commitDest", "abortDest")'
      <4>1. CASE k = "prepareSource"
        <5>1. rpc[c]["commitSource"] = "none" /\ rpc[c]["abortSource"] = "none"
          BY <1>4, <2>1, <4>1 DEF InOrder, EitherWay
        <5> QED
          BY <1>3, <1>4, <2>1, <3>1, <3>2, <4>1, <5>1 DEF Entry, SourceKind, OperationOf
      <4>2. CASE k = "prepareDest"
        <5>1. rpc[c]["commitDest"] = "none" /\ rpc[c]["abortDest"] = "none"
          BY <1>4, <2>1, <4>2 DEF InOrder, EitherWay
        <5> QED
          BY <1>3, <1>4, <2>1, <3>1, <3>2, <4>2, <5>1 DEF Entry, SourceKind, OperationOf
      <4> QED
        BY <2>1, <4>1, <4>2
    <3> QED
      BY <1>5, <2>1, <2>2, <3>3 DEF Answers
  <2>3. CASE Answer(c, k, "no") /\ UNCHANGED pending
    BY <1>3, <1>4, <1>5, <1>6, <2>1, <2>3 DEF Entry, Answers
  <2> QED
    BY <1>8, <2>2, <2>3 DEF Prepare, t
<1>9. ~CommitUnknown(c, k)
  BY <1>3, <1>4 DEF CommitUnknown, Served, Entry, InOrder, EitherWay, OperationOf, SourceKind, t
<1>10. CASE CommitApply(c, k)
  <2>1. k \in CommitKind /\ rpc[c][k] = "sent" /\ Answer(c, k, "busy")
    BY <1>10 DEF CommitApply, Served
  <2>2. pending' = [pending EXCEPT ![Target(c, k)][t] = "none"]
    BY <1>1, <1>10 DEF CommitApply, KeepsPending, t, src, dst
  <2>3. /\ pending'[src][t] = Entry(c, "prepareSource", "commitSource", "abortSource")'
        /\ pending'[dst][t] = Entry(c, "prepareDest", "commitDest", "abortDest")'
    <3>1. rpc'[c][k] = "busy" /\ \A j \in Kind \ {k} : rpc'[c][j] = rpc[c][j]
      BY <2>1, <2>2, <1>6
    <3>2. /\ pending'[Target(c, k)][t] = "none"
          /\ k \in SourceKind => pending'[dst][t] = pending[dst][t]
          /\ k \notin SourceKind => pending'[src][t] = pending[src][t]
      BY <2>1, <2>2, <1>7
    <3>3. CASE k = "commitSource"
      BY <1>3, <1>4, <2>1, <3>1, <3>2, <3>3 DEF Entry, SourceKind
    <3>4. CASE k = "commitDest"
      BY <1>3, <1>4, <2>1, <3>1, <3>2, <3>4 DEF Entry, SourceKind
    <3> QED
      BY <2>1, <3>3, <3>4
  <2> QED
    BY <1>5, <2>1, <2>3 DEF Answers
<1>11. CASE SaveFlush(c, k)
  <2>1. k \in CommitKind /\ rpc[c][k] = "busy" /\ Answer(c, k, "yes") /\ UNCHANGED pending
    BY <1>11 DEF SaveFlush
  <2> QED
    BY <1>3, <1>4, <1>5, <1>6, <2>1 DEF Entry, SourceKind, Answers
<1>12. CASE Abort(c, k)
  <2>1. k \in AbortKind /\ rpc[c][k] = "sent"
    BY <1>12 DEF Abort, Served
  <2>2. pending[Target(c, k)][t] # "none"
    BY <1>3, <1>4, <2>1 DEF Entry, InOrder, EitherWay, OperationOf, SourceKind
  <2>3. Answer(c, k, "yes") /\ pending' = [pending EXCEPT ![Target(c, k)][t] = "none"]
    BY <1>12, <2>2 DEF Abort, t
  <2>4. /\ pending'[src][t] = Entry(c, "prepareSource", "commitSource", "abortSource")'
        /\ pending'[dst][t] = Entry(c, "prepareDest", "commitDest", "abortDest")'
    <3>1. rpc'[c][k] = "yes" /\ \A j \in Kind \ {k} : rpc'[c][j] = rpc[c][j]
      BY <2>3, <1>6
    <3>2. /\ pending'[Target(c, k)][t] = "none"
          /\ k \in SourceKind => pending'[dst][t] = pending[dst][t]
          /\ k \notin SourceKind => pending'[src][t] = pending[src][t]
      BY <2>3, <1>7
    <3>3. CASE k = "abortSource"
      BY <1>3, <1>4, <2>1, <3>1, <3>2, <3>3 DEF Entry, SourceKind
    <3>4. CASE k = "abortDest"
      BY <1>3, <1>4, <2>1, <3>1, <3>2, <3>4 DEF Entry, SourceKind
    <3> QED
      BY <2>1, <3>3, <3>4
  <2> QED
    BY <1>5, <2>1, <2>3, <2>4 DEF Answers
<1> QED
  BY <1>8, <1>9, <1>10, <1>11, <1>12 DEF BankServes

-----------------------------------------------------------------------------
\* What the gateway does for another payment.
LEMMA GoesOnOthers ==
  ASSUME TypeOK, NEW t \in Tx, SteadyPayment(t), NEW c \in Call, TxOf[c] # t,
         PaymentGoesOn(c) \/ PaymentBegins(c)
  PROVE  SteadyPayment(t)'
<1>1. UNCHANGED pending
  BY DEF PaymentGoesOn, PaymentBegins, bankVars
<1>2. /\ rpc \in [Call -> [Kind -> RpcState]] /\ client \in [Call -> [Kind -> Nat]]
      /\ pc \in [Call -> {"idle"} \cup Running \cup Ended] /\ reply \in [Call -> Reply]
      /\ transactionLogs \in [Tx -> TransactionLog]
  BY DEF TypeOK, PaymentsTypeOK, GatewayTypeOK
<1>3. ASSUME NEW d \in Call \ {c} PROVE UNCHANGED <<rpc[d], pc[d]>>
  <2>1. ASSUME NEW k \in Kind, Send(c, k) PROVE UNCHANGED <<rpc[d], pc[d]>>
    BY <2>1, SendEffect
  <2>2. ASSUME NEW l, Goto(c, l), UNCHANGED rpc PROVE UNCHANGED <<rpc[d], pc[d]>>
    BY <2>2, GotoEffect
  <2>3. \/ \E k \in Kind : Send(c, k)
        \/ UNCHANGED rpc /\ \E l : Goto(c, l)
    BY DEF PaymentGoesOn, GatewayHandler, PrepareSourceReturns, PrepareDestReturns,
       CommitSourceReturns, AfterCommitSource, CommitDestReturns, AbortSourceReturns,
       AbortDestReturns, PersistTransactionLogs, SendAbort, StartAbort, Finish, PaymentBegins,
       BeginPayment, RejectPayment, AcceptPayment, rpcVars, Kind, PrepareKind, CommitKind, AbortKind
  <2> QED
    BY <2>1, <2>2, <2>3
<1>4. ASSUME NEW d \in Call \ {c} PROVE UNCHANGED client[d]
  <2>1. \/ UNCHANGED client
        \/ \E f : client' = [client EXCEPT ![c] = f]
        \/ \E k \in AbortKind : \E n : client' = [client EXCEPT ![c][k] = n]
    BY DEF PaymentGoesOn, GatewayHandler, PrepareSourceReturns, PrepareDestReturns,
       CommitSourceReturns, CommitDestReturns, AbortSourceReturns, AbortDestReturns,
       PersistTransactionLogs, SendAbort, PaymentBegins, BeginPayment, RejectPayment,
       AcceptPayment, rpcVars
  <2> QED
    BY <1>2, <2>1
<1>5. ASSUME NEW d \in Call \ {c} PROVE UNCHANGED reply[d]
  <2>1. UNCHANGED reply \/ \E r : reply' = [reply EXCEPT ![c] = r]
    BY DEF PaymentGoesOn, GatewayHandler, PrepareSourceReturns, PrepareDestReturns,
       CommitSourceReturns, CommitDestReturns, AbortSourceReturns, AbortDestReturns,
       PersistTransactionLogs, SendAbort, PaymentBegins, BeginPayment, RejectPayment, AcceptPayment
  <2> QED
    BY <1>2, <2>1
<1>6. UNCHANGED transactionLogs[t]
  <2>1. \/ UNCHANGED transactionLogs
        \/ transactionLogs' = [transactionLogs EXCEPT ![TxOf[c]] = NewLog]
        \/ transactionLogs' = [transactionLogs EXCEPT ![TxOf[c]].sourcePrepared = TRUE]
        \/ transactionLogs' = [transactionLogs EXCEPT ![TxOf[c]].destPrepared = TRUE,
                                                      ![TxOf[c]].status = "prepared"]
        \/ \E s : transactionLogs' = [transactionLogs EXCEPT ![TxOf[c]].status = s]
    BY DEF PaymentGoesOn, GatewayHandler, PrepareSourceReturns, PrepareDestReturns,
       CommitSourceReturns, CommitDestReturns, AbortSourceReturns, AbortDestReturns, Finish,
       PersistTransactionLogs, SendAbort, PaymentBegins, BeginPayment, RejectPayment, AcceptPayment
  <2> QED
    BY <1>2, <2>1
<1> QED
  BY <1>1, <1>3, <1>4, <1>5, <1>6, PaymentFrame

\* The gateway begins an undisturbed payment, or rejects a repeated one.
LEMMA BeginSteady ==
  ASSUME TypeOK, CallsInOrder, OneOwner', FirstRuns, NEW t \in Tx, Undisturbed(t), SteadyPayment(t),
         NEW c \in Call, TxOf[c] = t, PaymentBegins(c)
  PROVE  SteadyPayment(t)'
<1> USE DEF Kind, PrepareKind, CommitKind, AbortKind
<1>1. /\ pc[c] = "idle" /\ c \notin cancelled /\ (\A k \in Kind : rpc[c][k] = "none") /\ ~Owner(c)
      /\ UNCHANGED <<pending, logFile>>
  BY DEF PaymentBegins, BeginPayment, CallsInOrder, InOrder, Owner, bankVars
<1>2. /\ rpc \in [Call -> [Kind -> RpcState]] /\ client \in [Call -> [Kind -> Nat]]
      /\ pc \in [Call -> {"idle"} \cup Running \cup Ended] /\ reply \in [Call -> Reply]
      /\ transactionLogs \in [Tx -> TransactionLog]
  BY DEF TypeOK, PaymentsTypeOK, GatewayTypeOK
<1>3. CASE RejectPayment(c)
  <2>1. UNCHANGED <<rpc, client, transactionLogs>>
    BY <1>3 DEF RejectPayment, rpcVars
  <2>2. \A d \in Call \ {c} : UNCHANGED <<pc[d], reply[d]>>
    BY <1>2, <1>3 DEF RejectPayment, Goto
  <2> QED
    BY <1>1, <2>1, <2>2, PaymentFrame
<1>4. CASE AcceptPayment(c)
  <2>1. bankservers_conns[Pay(c).fromBank] = 1 /\ bankservers_conns[Pay(c).toBank] = 1
    BY Constants DEF FirstRuns, Undisturbed, Pay, PaymentDetails
  <2>2. /\ t \notin transactions /\ Send(c, "prepareSource")
        /\ transactionLogs' = [transactionLogs EXCEPT ![t] = NewLog]
        /\ client' = [client EXCEPT ![c] = [k \in Kind |-> IF k \in AbortKind THEN @[k] ELSE 1]]
    BY <1>4, <2>1 DEF AcceptPayment, Seen
  <2>3. \A d \in Call : TxOf[d] = t => ~Owner(d)
    BY <2>2 DEF CallsInOrder, InOrder, Owner
  <2>4. /\ rpc'[c]["prepareSource"] = "sent" /\ pc'[c] = "prepareSource"
        /\ \A k \in Kind \ {"prepareSource"} : rpc'[c][k] = "none"
    BY <1>1, <2>2, SendEffect
  <2>5. \A k \in PrepareKind \cup CommitKind : client'[c][k] = 1
    BY <1>2, <2>2
  <2>6. transactionLogs'[t] = NewLog /\ ~NewLog.sourcePrepared /\ ~NewLog.destPrepared
    BY <1>2, <2>2 DEF NewLog, NoLog
  <2>7. Calm(c)'
    BY <2>4, <2>5 DEF Calm
  <2>8. Logged(c)' /\ EitherWay(c)'
    BY <2>4, <2>6 DEF Logged, EitherWay, Over, Ended
  <2>9. Held(c)'
    BY <1>1, <2>3, <2>4 DEF Held, Entry, SteadyPayment, Pay
  <2>10. Owner(c)' /\ Steady(c)'
    BY <2>4, <2>7, <2>8, <2>9 DEF Steady, Owner
  <2> QED
    BY <2>10, OwnerSteps
<1> QED
  BY <1>3, <1>4 DEF PaymentBegins, BeginPayment

\* The gateway makes the next step of an undisturbed payment: no call fails, none is
\* left out, and the log entry decides the aborts rightly.
LEMMA GoesOnOwner ==
  ASSUME TypeOK, CallsInOrder, FirstRuns, NEW c \in Call, InOrder(c), Steady(c),
         Undisturbed(TxOf[c]), PaymentGoesOn(c)
  PROVE  Steady(c)'
<1> USE DEF Kind, PrepareKind, CommitKind, AbortKind
<1> DEFINE entry == transactionLogs[TxOf[c]]
<1>1. /\ c \notin cancelled /\ TxOf[c] \in Tx /\ entry \in TransactionLog
      /\ \A k \in Kind : bankservers_conns[Target(c, k)] = 1
  BY Constants DEF FirstRuns, Undisturbed, Target, Pay, PaymentDetails, TypeOK, GatewayTypeOK
<1>2. Calm(c) /\ Logged(c) /\ EitherWay(c) /\ Held(c)
  BY DEF Steady
<1>3. /\ rpc \in [Call -> [Kind -> RpcState]] /\ client \in [Call -> [Kind -> Nat]]
      /\ pc \in [Call -> {"idle"} \cup Running \cup Ended] /\ reply \in [Call -> Reply]
      /\ transactionLogs \in [Tx -> TransactionLog]
  BY DEF TypeOK, PaymentsTypeOK, GatewayTypeOK
<1>4. Held(c)'
  <2>1. UNCHANGED pending /\ \A k \in Kind : \/ rpc'[c][k] = rpc[c][k]
                                             \/ rpc[c][k] = "none" /\ rpc'[c][k] = "sent"
    BY SentOnce DEF PaymentGoesOn, bankVars
  <2> QED
    BY <1>2, <2>1 DEF Held, Entry, Pay
<1>5. SUFFICES Calm(c)' /\ Logged(c)' /\ EitherWay(c)'
  BY <1>4 DEF Steady
<1>6. ASSUME NEW k \in Kind, rpc[c][k] # "none" \/ k \notin AbortKind
      PROVE  ~Error(c, k)
  BY <1>2, <1>6, NoError DEF Calm
<1>7. ASSUME NEW k \in CommitKind \cup AbortKind PROVE ~Refused(c, k)
  BY <1>2, <1>7 DEF Calm, Refused
<1>8. ASSUME NEW k \in Kind, Send(c, k)
      PROVE  /\ pc'[c] = k /\ rpc'[c][k] = "sent"
             /\ \A j \in Kind \ {k} : rpc'[c][j] = rpc[c][j]
  BY <1>1, <1>8, SendEffect
<1>9. ASSUME NEW l, Goto(c, l) PROVE pc'[c] = l
  BY <1>9, GotoEffect
<1> HIDE DEF entry
<1>10. CASE PrepareSourceReturns(c)
  <2>1. UNCHANGED <<client, reply>> /\ pc[c] = "prepareSource"
    BY <1>10 DEF PrepareSourceReturns, Accepted, Failed, Refused, Error
  <2>2. rpc[c]["prepareDest"] = "none" /\ rpc[c]["commitSource"] = "none"
        /\ rpc[c]["commitDest"] = "none" /\ rpc[c]["abortSource"] = "none"
        /\ rpc[c]["abortDest"] = "none"
    BY <1>2, <2>1 DEF InOrder, EitherWay, Aborting, Over, Ended
  <2>3. CASE /\ rpc[c]["prepareSource"] = "yes" /\ Send(c, "prepareDest")
             /\ transactionLogs' = [transactionLogs EXCEPT ![TxOf[c]].sourcePrepared = TRUE]
    <3>1. /\ pc'[c] = "prepareDest" /\ rpc'[c]["prepareDest"] = "sent"
          /\ \A j \in Kind \ {"prepareDest"} : rpc'[c][j] = rpc[c][j]
      BY <1>8, <2>3
    <3>2. transactionLogs'[TxOf[c]] = [transactionLogs[TxOf[c]] EXCEPT !.sourcePrepared = TRUE]
      BY <1>1, <1>3, <2>3
    <3>3. /\ transactionLogs'[TxOf[c]].sourcePrepared
          /\ transactionLogs'[TxOf[c]].destPrepared = transactionLogs[TxOf[c]].destPrepared
      BY <1>1, <3>2 DEF entry, TransactionLog
    <3> QED
      BY <1>2, <2>1, <2>2, <2>3, <3>1, <3>3 DEF Calm, Logged, EitherWay, Over, Ended
  <2>4. CASE Refused(c, "prepareSource") /\ StartAbort(c) /\ UNCHANGED transactionLogs
    <3>1. pc'[c] = "abortSource" /\ UNCHANGED rpc /\ rpc[c]["prepareSource"] = "no"
      BY <1>9, <2>4 DEF StartAbort, Refused
    <3> QED
      BY <1>2, <2>1, <2>2, <2>4, <3>1 DEF Calm, Logged, EitherWay, Over, Ended
  <2> QED
    BY <1>6, <1>10, <2>3, <2>4 DEF PrepareSourceReturns, Accepted, Failed
<1>11. CASE PrepareDestReturns(c)
  <2>1. UNCHANGED <<client, reply>> /\ pc[c] = "prepareDest"
    BY <1>11 DEF PrepareDestReturns, Accepted, Failed, Refused, Error
  <2>2. rpc[c]["commitSource"] = "none"
        /\ rpc[c]["commitDest"] = "none" /\ rpc[c]["abortSource"] = "none"
        /\ rpc[c]["abortDest"] = "none"
    BY <1>2, <2>1 DEF InOrder, EitherWay, Aborting, Over, Ended
  <2>3. CASE /\ rpc[c]["prepareDest"] = "yes" /\ Send(c, "commitSource")
             /\ transactionLogs' = [transactionLogs EXCEPT ![TxOf[c]].destPrepared = TRUE,
                                                           ![TxOf[c]].status = "prepared"]
    <3>1. /\ pc'[c] = "commitSource" /\ rpc'[c]["commitSource"] = "sent"
          /\ \A j \in Kind \ {"commitSource"} : rpc'[c][j] = rpc[c][j]
      BY <1>8, <2>3
    <3>2. transactionLogs'[TxOf[c]] = [transactionLogs[TxOf[c]] EXCEPT !.destPrepared = TRUE,
                                                                       !.status = "prepared"]
      BY <1>1, <1>3, <2>3
    <3>3. /\ transactionLogs'[TxOf[c]].destPrepared
          /\ transactionLogs'[TxOf[c]].sourcePrepared = transactionLogs[TxOf[c]].sourcePrepared
      BY <1>1, <3>2 DEF entry, TransactionLog
    <3> QED
      BY <1>2, <2>1, <2>2, <2>3, <3>1, <3>3 DEF Calm, Logged, EitherWay, Over, Ended
  <2>4. CASE Refused(c, "prepareDest") /\ StartAbort(c) /\ UNCHANGED transactionLogs
    <3>1. pc'[c] = "abortSource" /\ UNCHANGED rpc /\ rpc[c]["prepareDest"] = "no"
      BY <1>9, <2>4 DEF StartAbort, Refused
    <3> QED
      BY <1>2, <2>1, <2>2, <2>4, <3>1 DEF Calm, Logged, EitherWay, Over, Ended
  <2> QED
    BY <1>6, <1>11, <2>3, <2>4 DEF PrepareDestReturns, Accepted, Failed
<1>12. CASE CommitSourceReturns(c)
  <2>1. UNCHANGED <<client, reply, transactionLogs>>
    BY <1>12 DEF CommitSourceReturns
  <2>2. pc[c] = "commitSource" /\ rpc[c]["commitSource"] = "yes" /\ Send(c, "commitDest")
    BY <1>6, <1>7, <1>12 DEF CommitSourceReturns, AfterCommitSource, Accepted, Failed
  <2>3. /\ pc'[c] = "commitDest" /\ rpc'[c]["commitDest"] = "sent"
        /\ \A j \in Kind \ {"commitDest"} : rpc'[c][j] = rpc[c][j]
    BY <1>8, <2>2
  <2> QED
    BY <1>2, <2>1, <2>2, <2>3 DEF Calm, Logged, EitherWay, Over, Ended
<1>13. CASE CommitDestReturns(c)
  <2>1. UNCHANGED <<client, reply, rpc>>
    BY <1>13 DEF CommitDestReturns, rpcVars
  <2>2. pc[c] = "commitDest" /\ rpc[c]["commitDest"] = "yes" /\ Finish(c, "committed")
    BY <1>6, <1>7, <1>13 DEF CommitDestReturns, Accepted, Failed
  <2>3. pc'[c] = "persist"
        /\ transactionLogs'[TxOf[c]] = [transactionLogs[TxOf[c]] EXCEPT !.status = "committed"]
    BY <1>1, <1>3, <1>9, <2>2 DEF Finish
  <2>4. /\ transactionLogs'[TxOf[c]].status = "committed"
        /\ transactionLogs'[TxOf[c]].sourcePrepared = transactionLogs[TxOf[c]].sourcePrepared
        /\ transactionLogs'[TxOf[c]].destPrepared = transactionLogs[TxOf[c]].destPrepared
    BY <1>1, <2>3 DEF entry, TransactionLog
  <2> QED
    BY <1>2, <2>1, <2>2, <2>3, <2>4 DEF Calm, Logged, EitherWay, Over, Ended, InOrder
<1>14. CASE AbortSourceReturns(c)
  <2>1. UNCHANGED <<client, reply, rpc, transactionLogs>> /\ pc'[c] = "abortDest" /\ pc[c] = "abortSource"
    BY <1>9, <1>14 DEF AbortSourceReturns, AbortOver, Accepted, Failed, Refused, Error, rpcVars
  <2>2. rpc[c]["commitSource"] = "none"
    BY <1>2, <2>1 DEF EitherWay
  <2>3. rpc[c]["prepareSource"] = "yes" => rpc[c]["abortSource"] = "yes"
    <3>1. CASE rpc[c]["abortSource"] = "none"
      BY <1>1, <1>2, <1>14, <2>1, <3>1 DEF AbortSourceReturns, AbortOver, MustAbort, Logged
    <3>2. CASE rpc[c]["abortSource"] # "none"
      BY <1>6, <1>7, <1>14, <3>2 DEF AbortSourceReturns, AbortOver, Accepted, Failed
    <3> QED
      BY <3>1, <3>2
  <2> QED
    BY <1>2, <2>1, <2>2, <2>3 DEF Calm, Logged, EitherWay, Aborting, Over, Ended
<1>15. CASE AbortDestReturns(c)
  <2>1. UNCHANGED <<client, reply, rpc>> /\ pc'[c] = "persist" /\ pc[c] = "abortDest"
        /\ transactionLogs'[TxOf[c]] = [transactionLogs[TxOf[c]] EXCEPT !.status = "aborted"]
    BY <1>1, <1>3, <1>9, <1>15 DEF AbortDestReturns, AbortOver, Accepted, Failed, Refused, Error, rpcVars, Finish
  <2>2. /\ transactionLogs'[TxOf[c]].status = "aborted"
        /\ transactionLogs'[TxOf[c]].sourcePrepared = transactionLogs[TxOf[c]].sourcePrepared
        /\ transactionLogs'[TxOf[c]].destPrepared = transactionLogs[TxOf[c]].destPrepared
    BY <1>1, <2>1 DEF entry, TransactionLog
  <2>3. rpc[c]["commitSource"] = "none" /\ rpc[c]["commitDest"] = "none"
    BY <1>2, <2>1 DEF EitherWay, InOrder
  <2>4. rpc[c]["prepareDest"] = "yes" => rpc[c]["abortDest"] = "yes"
    <3>1. CASE rpc[c]["abortDest"] = "none"
      BY <1>1, <1>2, <1>15, <2>1, <3>1 DEF AbortDestReturns, AbortOver, MustAbort, Logged
    <3>2. CASE rpc[c]["abortDest"] # "none"
      BY <1>6, <1>7, <1>15, <3>2 DEF AbortDestReturns, AbortOver, Accepted, Failed
    <3> QED
      BY <3>1, <3>2
  <2> QED
    BY <1>2, <2>1, <2>2, <2>3, <2>4 DEF Calm, Logged, EitherWay, Aborting, Over, Ended
<1>16. CASE PersistTransactionLogs(c)
  <2>1. /\ UNCHANGED <<client, rpc, transactionLogs>> /\ pc'[c] = "done" /\ pc[c] = "persist"
        /\ reply'[c] = IF transactionLogs[TxOf[c]].status = "committed" THEN "ok" ELSE "failed"
    BY <1>3, <1>9, <1>16 DEF PersistTransactionLogs, rpcVars
  <2> QED
    BY <1>2, <2>1 DEF Calm, Logged, EitherWay, Aborting, Over, Ended
<1>17. ASSUME NEW k \in AbortKind, SendAbort(c, k) PROVE Calm(c)' /\ Logged(c)' /\ EitherWay(c)'
  <2>1. /\ UNCHANGED <<reply, transactionLogs>> /\ pc[c] = k /\ rpc[c][k] = "none"
        /\ Send(c, k) /\ client' = [client EXCEPT ![c][k] = 1]
        /\ IF k = "abortSource" THEN transactionLogs[TxOf[c]].sourcePrepared
                                ELSE transactionLogs[TxOf[c]].destPrepared
    BY <1>1, <1>17 DEF SendAbort, MustAbort
  <2>2. /\ pc'[c] = k /\ rpc'[c][k] = "sent"
        /\ \A j \in Kind \ {k} : rpc'[c][j] = rpc[c][j]
    BY <1>8, <2>1
  <2>3. client'[c][k] = 1 /\ \A j \in Kind \ {k} : client'[c][j] = client[c][j]
    BY <1>3, <2>1
  <2>4. rpc[c]["commitSource"] = "none"
        /\ (k = "abortSource" => rpc[c]["prepareSource"] = "yes")
        /\ (k = "abortDest" => rpc[c]["prepareDest"] = "yes")
    BY <1>2, <2>1 DEF EitherWay, Logged
  <2>5. Calm(c)'
    BY <1>2, <2>1, <2>2, <2>3 DEF Calm
  <2>6. Logged(c)'
    BY <1>2, <2>1, <2>2 DEF Logged, Over, Ended
  <2>7. EitherWay(c)'
    BY <1>2, <2>1, <2>2, <2>4 DEF EitherWay, Aborting, Over, Ended
  <2> QED
    BY <2>5, <2>6, <2>7
<1> QED
  BY <1>10, <1>11, <1>12, <1>13, <1>14, <1>15, <1>16, <1>17 DEF PaymentGoesOn, GatewayHandler

-----------------------------------------------------------------------------
\* Every step keeps what is known of an undisturbed payment.
LEMMA SteadinessStep ==
  ASSUME CrossBank, AtomicityInv, IInv', [Next]_vars
  PROVE  Steadiness'
<1> SUFFICES ASSUME NEW t \in Tx, Undisturbed(t)' PROVE SteadyPayment(t)'
  BY DEF Steadiness
<1>1. TypeOK /\ CallsInOrder /\ FirstRuns /\ OneOwner'
  BY DEF AtomicityInv, IInv
<1>2. Undisturbed(t) /\ SteadyPayment(t)
  BY <1>1, UndisturbedBefore DEF AtomicityInv, Steadiness
<1>3. ASSUME NEW c \in Call, NEW k \in Kind, BankServes(c, k) PROVE SteadyPayment(t)'
  <2>1. CASE TxOf[c] # t
    BY <1>1, <1>2, <1>3, <2>1, ServedOthers
  <2>2. CASE TxOf[c] = t
    <3>1. InOrder(c) /\ rpc[c][k] # "none"
      BY <1>1, <1>3, BankServesEffect DEF CallsInOrder
    <3>2. Owner(c)
      BY <3>1 DEF InOrder
    <3>3. Steady(c)'
      BY <1>1, <1>2, <1>3, <2>2, <3>1, <3>2, ServedOwner DEF SteadyPayment
    <3>4. InOrder(c)' /\ rpc'[c][k] # "none"
      <4>1. InOrder(c)'
        BY DEF IInv, CallsInOrder
      <4>2. rpc \in [Call -> [Kind -> RpcState]]
        BY <1>1 DEF TypeOK, PaymentsTypeOK
      <4>3. \E a \in {"busy", "yes", "no"} : rpc' = [rpc EXCEPT ![c][k] = a]
        BY <1>3, BankServesEffect DEF Answer
      <4> QED
        BY <4>1, <4>2, <4>3
    <3>5. Owner(c)'
      BY <3>4 DEF InOrder
    <3> QED
      BY <1>1, <2>2, <3>3, <3>5, OwnerSteps
  <2> QED
    BY <2>1, <2>2
<1>4. ASSUME NEW c \in Call, PaymentBegins(c) PROVE SteadyPayment(t)'
  BY <1>1, <1>2, <1>4, GoesOnOthers, BeginSteady
<1>5. ASSUME NEW c \in Call, PaymentGoesOn(c) PROVE SteadyPayment(t)'
  <2>1. CASE TxOf[c] # t
    BY <1>1, <1>2, <1>5, <2>1, GoesOnOthers
  <2>2. CASE TxOf[c] = t
    <3>1. InOrder(c) /\ pc[c] \in Running
      BY <1>1, <1>5 DEF CallsInOrder, PaymentGoesOn, GatewayHandler, PrepareSourceReturns,
         PrepareDestReturns, CommitSourceReturns, AfterCommitSource, CommitDestReturns,
         AbortSourceReturns, AbortDestReturns, AbortOver, PersistTransactionLogs, SendAbort,
         Accepted, Failed, Refused, Error, Running, Kind, PrepareKind, CommitKind, AbortKind
    <3>2. Owner(c)
      BY <3>1 DEF InOrder
    <3>3. Steady(c)'
      BY <1>1, <1>2, <1>5, <2>2, <3>1, <3>2, GoesOnOwner DEF SteadyPayment
    <3>4. Owner(c)'
      <4>1. "prepareSource" \in Kind
        BY DEF Kind, PrepareKind
      <4> QED
        BY <1>1, <1>5, <3>2, <4>1, SentOnce DEF Owner
    <3> QED
      BY <1>1, <2>2, <3>3, <3>4, OwnerSteps
  <2> QED
    BY <2>1, <2>2
<1>6. ~GatewayFails
  BY GatewayFailsEffect DEF Undisturbed
<1>7. CASE Bystander
  BY <1>1, <1>2, <1>7, BystanderSteady
<1> QED
  BY <1>3, <1>4, <1>5, <1>6, <1>7, NextCases

\* The inductive invariant of undisturbed payments.
THEOREM Steadily == ASSUME CrossBank PROVE WarmSpec => []AtomicityInv
<1>1. WarmInit => AtomicityInv
  BY WarmInvariant
<1>2. AtomicityInv /\ [Next]_vars => AtomicityInv'
  <2> SUFFICES ASSUME AtomicityInv, [Next]_vars PROVE AtomicityInv'
    OBVIOUS
  <2>1. IInv'
    BY InvariantStep DEF AtomicityInv
  <2>2. FirstRuns'
    BY FirstRunsStep DEF AtomicityInv, IInv
  <2> QED
    BY <2>1, <2>2, SteadinessStep DEF AtomicityInv
<1> QED
  BY <1>1, <1>2, PTL DEF WarmSpec

\* When the owner of an undisturbed payment has ended, it has settled it; when there
\* is none, nothing was ever asked of a bank.
LEMMA SteadyIsAtomic == AtomicityInv => UndisturbedIsAtomic
<1> SUFFICES ASSUME AtomicityInv, NEW t \in Tx, Undisturbed(t),
                    \A c \in Call : TxOf[c] = t => pc[c] = "done"
             PROVE  /\ debits[t] = credits[t]
                    /\ credits[t] = 1 <=> \E c \in Call : TxOf[c] = t /\ reply[c] = "ok"
                    /\ pending[Payment[t].fromBank][t] = "none"
                    /\ pending[Payment[t].toBank][t] = "none"
  BY DEF UndisturbedIsAtomic
<1> USE DEF Kind, PrepareKind, CommitKind, AbortKind
<1>1. /\ CallsInOrder /\ OneOwner /\ Counts /\ Replies /\ SteadyPayment(t)
  BY DEF AtomicityInv, IInv, Steadiness
<1>2. \A c \in Call, k \in Kind : rpc[c][k] # "none" => Owner(c)
  BY <1>1 DEF CallsInOrder, InOrder
<1>3. debits[t] \in {0, 1} /\ credits[t] \in {0, 1}
  BY <1>1 DEF Counts
<1>4. CASE \A c \in Call : TxOf[c] = t => ~Owner(c)
  <2>1. debits[t] = 0 /\ credits[t] = 0
    BY <1>1, <1>2, <1>3, <1>4 DEF Counts, Applied
  <2>2. \A c \in Call : TxOf[c] = t => reply[c] # "ok"
    BY <1>1, <1>2, <1>4 DEF Replies
  <2> QED
    BY <1>1, <1>4, <2>1, <2>2 DEF SteadyPayment
<1>5. ASSUME NEW c \in Call, TxOf[c] = t, Owner(c)
      PROVE  /\ debits[t] = credits[t]
             /\ credits[t] = 1 <=> \E d \in Call : TxOf[d] = t /\ reply[d] = "ok"
             /\ pending[Payment[t].fromBank][t] = "none"
             /\ pending[Payment[t].toBank][t] = "none"
  <2>1. /\ Steady(c) /\ InOrder(c) /\ pc[c] = "done" /\ Over(c)
        /\ \A d \in Call : TxOf[d] = t /\ Owner(d) => d = c
    BY <1>1, <1>5 DEF SteadyPayment, CallsInOrder, OneOwner, Over, Ended
  <2>2. /\ reply[c] = "ok" <=> rpc[c]["commitDest"] = "yes"
        /\ \A d \in Call : TxOf[d] = t /\ reply[d] = "ok" => d = c
    BY <1>1, <1>2, <2>1 DEF Steady, Logged, Replies
  <2>3. /\ pending[Payment[t].fromBank][t]
             = Entry(c, "prepareSource", "commitSource", "abortSource")
        /\ pending[Payment[t].toBank][t] = Entry(c, "prepareDest", "commitDest", "abortDest")
    BY <1>5, <2>1 DEF Steady, Held, Pay
  <2>4. CASE rpc[c]["commitSource"] # "none"
    <3>1. rpc[c]["commitDest"] = "yes" /\ rpc[c]["commitSource"] = "yes"
      BY <2>1, <2>4 DEF Steady, EitherWay, InOrder
    <3>2. debits[t] = 1 /\ credits[t] = 1
      BY <1>1, <1>5, <3>1 DEF Counts, Applied
    <3> QED
      BY <1>5, <2>2, <2>3, <3>1, <3>2 DEF Entry
  <2>5. CASE rpc[c]["commitSource"] = "none"
    <3>1. rpc[c]["commitDest"] = "none"
      BY <2>1, <2>5 DEF InOrder
    <3>2. /\ rpc[c]["prepareSource"] = "yes" => rpc[c]["abortSource"] = "yes"
          /\ rpc[c]["prepareDest"] = "yes" => rpc[c]["abortDest"] = "yes"
      BY <2>1, <2>5 DEF Steady, EitherWay
    <3>3. debits[t] = 0 /\ credits[t] = 0
      BY <1>1, <1>2, <1>3, <2>1, <2>5, <3>1 DEF Counts, Applied
    <3> QED
      BY <1>5, <2>2, <2>3, <3>1, <3>2, <3>3 DEF Entry
  <2> QED
    BY <2>4, <2>5
<1> QED
  BY <1>4, <1>5

\* From a start-up without incidents on, a payment between two banks whose clients,
\* banks and gateway stay up is atomic, whatever happens to the other payments, the
\* other banks and the other clients (MakePayment and abortTransaction).
THEOREM Atomic == ASSUME CrossBank PROVE WarmSpec => []UndisturbedIsAtomic
  BY Steadily, SteadyIsAtomic, PTL

\* The other safety properties hold from there on, too: they are what the runs check
\* that start where every bank serves.
THEOREM WarmSafety ==
  ASSUME CrossBank PROVE WarmSpec => [](TypeOK /\ OnceAndInOrder /\ BothPrepared /\ LogIsTrue)
<1>1. AtomicityInv => TypeOK /\ OnceAndInOrder /\ BothPrepared /\ LogIsTrue
  BY InvariantOnce, InvariantPrepared, InvariantLog DEF AtomicityInv, IInv
<1> QED
  BY <1>1, Steadily, PTL

\* So do the contract of a payment, step by step, and the permanence of its outcome.
THEOREM WarmContract == ASSUME CrossBank PROVE WarmSpec => KeepsContract /\ OutcomeIsKept
<1>1. WarmInit => Contract!Init
  BY DEF WarmInit, Contract!Init, Confirmed
<1>2. AtomicityInv /\ [Next]_vars => [Contract!Next]_(Contract!contractVars)
  BY ContractStep DEF AtomicityInv
<1>3. AtomicityInv /\ [Next]_vars =>
        [\A t \in Tx : logFile[t].status \in Final =>
           logFile'[t].status = logFile[t].status \/ (gatewayUp /\ ~gatewayUp')]_vars
  BY OutcomeStep DEF AtomicityInv, IInv, GatewayInv
<1>4. WarmSpec => KeepsContract
  BY <1>1, <1>2, Steadily, PTL DEF WarmSpec, KeepsContract, Contract!Spec
<1>5. WarmSpec => OutcomeIsKept
  BY <1>3, Steadily, PTL DEF WarmSpec, OutcomeIsKept
<1> QED
  BY <1>4, <1>5

-----------------------------------------------------------------------------
\* The effects that the payments have on the account of u.
EffectsOn(u) == [t \in Tx |-> Effect(t, u)]

LEMMA EffectType ==
  ASSUME TypeOK, NEW u \in User
  PROVE  EffectsOn(u) \in [Tx -> Int]
<1>1. \A t \in Tx : debits[t] \in Nat /\ credits[t] \in Nat /\ Payment[t].amount \in Int
  BY Constants DEF TypeOK, BankTypeOK, PaymentDetails
<1>2. \A t \in Tx : credits[t] * Payment[t].amount \in Int /\ debits[t] * Payment[t].amount \in Int
  BY <1>1
<1> QED
  BY <1>2 DEF EffectsOn, Effect

\* The ledger adds such a sum to the balance at the start.
LEMMA LedgerIs ==
  ASSUME TypeOK, IsFiniteSet(Tx), NEW u \in User
  PROVE  \E i : IntSums(i, EffectsOn(u), Tx) /\ Ledger(u) = InitialBalance[u] + i[Tx]
<1> DEFINE P(i) == i = [s \in SUBSET Tx |-> IF s = {} THEN 0
                          ELSE Effect(CHOOSE x \in s : TRUE, u) + i[s \ {CHOOSE x \in s : TRUE}]]
           it == CHOOSE i : P(i)
<1>1. Ledger(u) = InitialBalance[u] + it[Tx]
  BY Zenon DEF MapThenSumSet, MapThenFoldSet, Ledger
<1>2. PICK i \in [SUBSET Tx -> Int] : Sums(i, EffectsOn(u), Tx)
  BY SumsExist, EffectType
<1>3. ASSUME NEW j PROVE P(j) <=> Sums(j, EffectsOn(u), Tx)
  <2> DEFINE one(s) == IF s = {} THEN 0
                       ELSE Effect(CHOOSE x \in s : TRUE, u) + j[s \ {CHOOSE x \in s : TRUE}]
             other(s) == IF s = {} THEN 0 ELSE EffectsOn(u)[Some(s)] + j[s \ {Some(s)}]
  <2>1. ASSUME NEW s \in SUBSET Tx PROVE one(s) = other(s)
    <3>1. CASE s = {}
      BY <3>1
    <3>2. CASE s # {}
      <4>1. Some(s) \in Tx
        BY <3>2, SomeIsIn
      <4>2. EffectsOn(u)[Some(s)] = Effect(Some(s), u)
        BY <4>1, Zenon DEF EffectsOn
      <4>3. Some(s) = CHOOSE x \in s : TRUE
        BY Zenon DEF Some
      <4> QED
        BY <3>2, <4>2, <4>3, Zenon
    <3> QED
      BY <3>1, <3>2
  <2>2. P(j) <=> j = [s \in SUBSET Tx |-> one(s)]
    BY Zenon
  <2>3. Sums(j, EffectsOn(u), Tx) <=> j = [s \in SUBSET Tx |-> other(s)]
    BY Zenon DEF Sums
  <2> HIDE DEF P, one, other
  <2>4. [s \in SUBSET Tx |-> one(s)] = [s \in SUBSET Tx |-> other(s)]
    BY <2>1
  <2> QED
    BY <2>2, <2>3, <2>4, Zenon
<1>4. P(it)
  <2> HIDE DEF P
  <2> QED
    BY <1>2, <1>3, Zenon
<1> HIDE DEF it
<1>5. Sums(it, EffectsOn(u), Tx)
  BY <1>3, <1>4
<1>6. it \in [SUBSET Tx -> Int]
  BY <1>5, SumsType, EffectType
<1> QED
  BY <1>1, <1>5, <1>6, EffectType DEF IntSums

\* The same before and after a step.
LedgerSums ==
  \A u \in User : \E i : IntSums(i, EffectsOn(u), Tx) /\ Ledger(u) = InitialBalance[u] + i[Tx]
EffectsTyped == \A u \in User : EffectsOn(u) \in [Tx -> Int]

LEMMA EffectTypes == (TypeOK => EffectsTyped) /\ (TypeOK' => EffectsTyped')
<1>1. TypeOK => EffectsTyped
  BY EffectType DEF EffectsTyped
<1>2. TypeOK' => EffectsTyped'
  BY <1>1, PTL
<1> QED
  BY <1>1, <1>2

LEMMA LedgerSummed ==
  ASSUME IsFiniteSet(Tx)
  PROVE  (TypeOK => LedgerSums) /\ (TypeOK' => LedgerSums')
<1>1. TypeOK => LedgerSums
  BY LedgerIs DEF LedgerSums
<1>2. TypeOK' => LedgerSums'
  BY <1>1, PTL
<1> QED
  BY <1>1, <1>2

\* Half op of payment t was applied.
Half(t, op) ==
  /\ debits' = IF op = "debit" THEN [debits EXCEPT ![t] = @ + 1] ELSE debits
  /\ credits' = IF op = "credit" THEN [credits EXCEPT ![t] = @ + 1] ELSE credits

LEMMA EffectMoves ==
  ASSUME TypeOK, NEW u \in User, NEW t \in Tx, NEW op \in {"debit", "credit"}, Half(t, op)
  PROVE  /\ \A x \in Tx \ {t} : EffectsOn(u)[x] = EffectsOn(u)'[x]
         /\ EffectsOn(u)'[t] - EffectsOn(u)[t] = IF u = Account(t, op) THEN Change(t, op) ELSE 0
<1>1. /\ \A x \in Tx : EffectsOn(u)[x] = Effect(x, u) /\ EffectsOn(u)'[x] = Effect(x, u)'
      /\ debits \in [Tx -> Nat] /\ credits \in [Tx -> Nat]
      /\ Payment[t].amount \in Int
  BY Constants DEF EffectsOn, TypeOK, BankTypeOK, PaymentDetails
<1>2. \A x \in Tx \ {t} : debits'[x] = debits[x] /\ credits'[x] = credits[x]
  BY <1>1 DEF Half
<1>3. \A x \in Tx \ {t} : Effect(x, u)' = Effect(x, u)
  BY <1>2 DEF Effect
<1> DEFINE a == Payment[t].amount
           d == debits[t]
           e == credits[t]
<1>4. a \in Int /\ d \in Nat /\ e \in Nat
  BY <1>1
<1>5. Effect(t, u) = (IF Payment[t].to = u THEN e * a ELSE 0)
                     - (IF Payment[t].from = u THEN d * a ELSE 0)
  BY DEF Effect
<1>6. /\ a * 1 = a /\ (d + 1) * a = d * a + a /\ (e + 1) * a = e * a + a
      /\ d * a \in Int /\ e * a \in Int
  <2> HIDE DEF a, d, e
  <2> QED
    BY <1>4
<1>7. CASE op = "debit"
  <2>1. debits'[t] = d + 1 /\ credits'[t] = e
    BY <1>1, <1>7 DEF Half
  <2>2. Effect(t, u)' = (IF Payment[t].to = u THEN e * a ELSE 0)
                        - (IF Payment[t].from = u THEN (d + 1) * a ELSE 0)
    BY <2>1 DEF Effect
  <2>3. Account(t, op) = Payment[t].from /\ Change(t, op) = - a
    BY <1>7 DEF Account, Change
  <2> HIDE DEF a, d, e
  <2>4. Effect(t, u)' - Effect(t, u) = IF u = Payment[t].from THEN - a ELSE 0
    BY <1>4, <1>5, <1>6, <2>2
  <2> QED
    BY <1>1, <1>3, <2>3, <2>4
<1>8. CASE op = "credit"
  <2>1. debits'[t] = d /\ credits'[t] = e + 1
    BY <1>1, <1>8 DEF Half
  <2>2. Effect(t, u)' = (IF Payment[t].to = u THEN (e + 1) * a ELSE 0)
                        - (IF Payment[t].from = u THEN d * a ELSE 0)
    BY <2>1 DEF Effect
  <2>3. Account(t, op) = Payment[t].to /\ Change(t, op) = a
    BY <1>8 DEF Account, Change
  <2> HIDE DEF a, d, e
  <2>4. Effect(t, u)' - Effect(t, u) = IF u = Payment[t].to THEN a ELSE 0
    BY <1>4, <1>5, <1>6, <2>2
  <2> QED
    BY <1>1, <1>3, <2>3, <2>4
<1> QED
  BY <1>7, <1>8

\* What the ledger of an account moves by when a half is applied.
LEMMA LedgerMoves ==
  ASSUME TypeOK, TypeOK', IsFiniteSet(Tx), NEW u \in DOMAIN InitialBalance,
         NEW t \in Tx, NEW op \in {"debit", "credit"}, Half(t, op)
  PROVE  /\ Ledger(u) \in Int
         /\ Ledger(u)' = Ledger(u) + IF u = Account(t, op) THEN Change(t, op) ELSE 0
<1>1. u \in User /\ InitialBalance[u] \in Int
  BY Constants DEF IsAccounts
<1>2. PICK i : IntSums(i, EffectsOn(u), Tx) /\ Ledger(u) = InitialBalance[u] + i[Tx]
  BY <1>1, LedgerSummed DEF LedgerSums
<1>3. PICK j : IntSums(j, EffectsOn(u)', Tx) /\ Ledger(u)' = InitialBalance[u] + j[Tx]
  BY <1>1, LedgerSummed DEF LedgerSums
<1>4. EffectsOn(u) \in [Tx -> Int]
  BY <1>1, EffectType
<1>5. EffectsOn(u)' \in [Tx -> Int]
  BY <1>1, EffectTypes DEF EffectsTyped
<1>6. j[Tx] = i[Tx] + (EffectsOn(u)'[t] - EffectsOn(u)[t])
  <2>1. SameBut(EffectsOn(u), EffectsOn(u)', Tx, t)
    BY <1>1, EffectMoves DEF SameBut
  <2> QED
    BY <1>2, <1>3, <1>4, <1>5, <2>1, SumsDiffer
<1>7. i[Tx] \in Int /\ EffectsOn(u)'[t] \in Int /\ EffectsOn(u)[t] \in Int
  BY <1>2, <1>4, <1>5 DEF IntSums
<1> QED
  BY <1>1, <1>2, <1>3, <1>6, <1>7, EffectMoves

\* The ledger stays as it is when none is.
LEMMA LedgerStays ==
  ASSUME TypeOK, TypeOK', IsFiniteSet(Tx), NEW u \in DOMAIN InitialBalance,
         UNCHANGED <<debits, credits>>
  PROVE  Ledger(u)' = Ledger(u)
<1>1. u \in User /\ InitialBalance[u] \in Int
  BY Constants DEF IsAccounts
<1>2. PICK i : IntSums(i, EffectsOn(u), Tx) /\ Ledger(u) = InitialBalance[u] + i[Tx]
  BY <1>1, LedgerSummed DEF LedgerSums
<1>3. PICK j : IntSums(j, EffectsOn(u)', Tx) /\ Ledger(u)' = InitialBalance[u] + j[Tx]
  BY <1>1, LedgerSummed DEF LedgerSums
<1>4. EffectsOn(u) \in [Tx -> Int]
  BY <1>1, EffectType
<1>5. EffectsOn(u)' = EffectsOn(u)
  BY DEF EffectsOn, Effect
<1>6. i[Tx] = j[Tx]
  BY <1>2, <1>3, <1>4, <1>5, SumsSame, Zenon
<1> QED
  BY <1>2, <1>3, <1>6

\* Before anything is applied, the ledger says what the file says.
LEMMA LedgerStarts ==
  ASSUME TypeOK, IsFiniteSet(Tx), NEW u \in DOMAIN InitialBalance,
         debits = [t \in Tx |-> 0], credits = [t \in Tx |-> 0]
  PROVE  Ledger(u) = InitialBalance[u]
<1>1. u \in User /\ InitialBalance[u] \in Int
  BY Constants DEF IsAccounts
<1>2. PICK i : IntSums(i, EffectsOn(u), Tx) /\ Ledger(u) = InitialBalance[u] + i[Tx]
  BY <1>1, LedgerSummed DEF LedgerSums
<1>3. ASSUME NEW t \in Tx PROVE EffectsOn(u)[t] = 0
  <2>1. Payment[t].amount \in Int
    BY Constants DEF PaymentDetails
  <2>2. debits[t] * Payment[t].amount = 0 /\ credits[t] * Payment[t].amount = 0
    BY <2>1
  <2> QED
    BY <2>2 DEF EffectsOn, Effect
<1>4. i[Tx] = 0
  BY <1>2, <1>3, SumsZero DEF IntSums
<1> QED
  BY <1>1, <1>2, <1>4

-----------------------------------------------------------------------------
\* The steps that change what the books are about; any other step leaves it as it is.
Aside ==
  /\ UNCHANGED <<users, saving, csv, debits, credits, overlapped>>
  /\ \A b \in Bank : /\ phase'[b] # "down" => phase[b] # "down"
                     /\ phase[b] = "serving" => phase'[b] = "serving"

LEMMA BooksCases ==
  ASSUME TypeOK, [Next]_vars
  PROVE  \/ \E c \in Call, k \in Kind :
              (CommitApply(c, k) \/ SaveFlush(c, k)) /\ UNCHANGED <<phase, incarnation>>
         \/ \E b \in Bank : (SaveRead(b) \/ SaveTruncate(b)) /\ UNCHANGED <<phase, incarnation>>
         \/ \E b \in Bank : Start(b) \/ BankCrash(b)
         \/ Aside
<1>1. ASSUME NEW c \in Call, NEW k \in Kind, BankServes(c, k)
      PROVE  \/ (CommitApply(c, k) \/ SaveFlush(c, k)) /\ UNCHANGED <<phase, incarnation>>
             \/ Aside
  BY <1>1 DEF BankServes, Prepare, CommitUnknown, Abort, Aside, procVars, bankVars, history
<1>2. ASSUME NEW b \in Bank, BankSaves(b)
      PROVE  (SaveRead(b) \/ SaveTruncate(b)) /\ UNCHANGED <<phase, incarnation>>
  BY <1>2 DEF BankSaves, procVars
<1>3. ASSUME NEW b \in Bank, BankComesUp(b) \/ BankDies(b)
      PROVE  Start(b) \/ BankCrash(b) \/ Aside
  <2>0. phase \in [Bank -> Phase]
    BY DEF TypeOK, PaymentsTypeOK
  <2>1. CASE Serve(b)
    BY <2>0, <2>1 DEF Serve, Aside, history, fileVars
  <2>2. CASE RegisterServer(b) /\ UNCHANGED bankVars
    BY <2>0, <2>2 DEF RegisterServer, Aside, bankVars
  <2>3. CASE RegisterFails(b) /\ UNCHANGED bankVars
    BY <2>0, <2>3 DEF RegisterFails, Aside, bankVars
  <2>4. CASE BankDies(b)
    BY <2>4 DEF BankDies
  <2>5. CASE BankComesUp(b)
    <3>1. \/ Start(b) \/ Serve(b)
          \/ RegisterServer(b) /\ UNCHANGED bankVars
          \/ RegisterFails(b) /\ UNCHANGED bankVars
      BY <2>5, Zenon DEF BankComesUp
    <3> QED
      BY <3>1, <2>1, <2>2, <2>3, Zenon
  <2> QED
    BY <1>3, <2>4, <2>5
<1>4. ASSUME NEW c \in Call, PaymentBegins(c) \/ PaymentGoesOn(c) PROVE Aside
  <2>1. UNCHANGED bankVars /\ UNCHANGED phase
    BY <1>4 DEF PaymentBegins, BeginPayment, PaymentGoesOn, GatewayHandler, PrepareSourceReturns,
     PrepareDestReturns, CommitSourceReturns, CommitDestReturns, AbortSourceReturns,
     AbortDestReturns, PersistTransactionLogs, SendAbort, procVars
  <2> QED
    BY <2>1 DEF Aside, bankVars
<1>5. CASE GatewayFails
  BY <1>5, GatewayFailsEffect DEF Aside, bankVars, procVars
<1>6. ASSUME \/ \E b \in Bank, S \in SUBSET MayGoStale : BankCleans(b, S)
             \/ \E u \in User, b \in Bank : ClientLogsIn(u, b)
             \/ \E u \in Mortal : ClientFails(u)
             \/ GatewayComesUp
             \/ UNCHANGED vars
      PROVE  Aside
  BY <1>6 DEF BankCleans, CleanupStale, ClientLogsIn, RegisterClient, ClientFails, ClientDies,
     GatewayComesUp, GatewayRestart, procVars, bankVars, vars, history, Aside
<1> QED
  BY <1>1, <1>2, <1>3, <1>4, <1>5, <1>6 DEF Next

\* A bank forgets no account while it runs.
LEMMA UsersGrow ==
  ASSUME TypeOK, [Next]_vars, NEW b \in Bank, phase'[b] # "down", incarnation'[b] = incarnation[b]
  PROVE  phase[b] # "down" /\ DOMAIN users[b] \subseteq DOMAIN users'[b]
<1>0. /\ phase \in [Bank -> Phase] /\ incarnation \in [Bank -> Nat]
      /\ users = [d \in Bank |-> users[d]] /\ saving \in [Bank -> [stage: Stage, user: User \cup {"none"}]]
      /\ \A c \in Call, k \in Kind : Target(c, k) \in Bank
  BY Constants DEF TypeOK, PaymentsTypeOK, BankTypeOK
<1>1. ASSUME NEW c \in Call, NEW k \in Kind, CommitApply(c, k), UNCHANGED <<phase, incarnation>>
      PROVE  phase[b] # "down" /\ DOMAIN users[b] \subseteq DOMAIN users'[b]
  <2>1. PICK u, x : users' = [users EXCEPT ![Target(c, k)] = SetBalance(@, u, x)]
    BY <1>1 DEF CommitApply
  <2>2. users'[b] = users[b] \/ users'[b] = SetBalance(users[b], u, x)
    BY <1>0, <2>1
  <2> QED
    BY <1>1, <2>2 DEF SetBalance
<1>2. ASSUME NEW d \in Bank, SaveRead(d), UNCHANGED <<phase, incarnation>>
      PROVE  phase[b] # "down" /\ DOMAIN users[b] \subseteq DOMAIN users'[b]
  <2>1. users'[b] = users[b] \/ users'[b] = Refresh(users[b], csv, saving[d].user)
    BY <1>0, <1>2 DEF SaveRead
  <2> QED
    BY <1>2, <2>1 DEF Refresh
<1>3. ASSUME NEW d \in Bank, Start(d) \/ BankCrash(d)
      PROVE  phase[b] # "down" /\ DOMAIN users[b] \subseteq DOMAIN users'[b]
  <2>1. d # b
    BY <1>0, <1>3 DEF Start, BankCrash
  <2> QED
    BY <1>0, <1>3, <2>1 DEF Start, BankCrash
<1>4. CASE Aside
  BY <1>4 DEF Aside
<1>5. ASSUME NEW c \in Call, NEW k \in Kind, SaveFlush(c, k), UNCHANGED <<phase, incarnation>>
      PROVE  phase[b] # "down" /\ DOMAIN users[b] \subseteq DOMAIN users'[b]
  BY <1>5 DEF SaveFlush
<1>6. ASSUME NEW d \in Bank, SaveTruncate(d), UNCHANGED <<phase, incarnation>>
      PROVE  phase[b] # "down" /\ DOMAIN users[b] \subseteq DOMAIN users'[b]
  BY <1>6 DEF SaveTruncate
<1> QED
  BY <1>1, <1>2, <1>3, <1>4, <1>5, <1>6, BooksCases

LEMMA AnswerIs ==
  ASSUME TypeOK, NEW c \in Call, NEW k \in Kind, NEW a, Answer(c, k, a)
  PROVE  rpc'[c][k] = a
BY DEF TypeOK, PaymentsTypeOK, Answer

\* A bank says that it prepared only what it can.
LEMMA YesEffect ==
  ASSUME TypeOK, CallsInOrder, [Next]_vars, NEW c \in Call, NEW k \in PrepareKind,
         rpc'[c][k] = "yes"
  PROVE  /\ client'[c][k] = client[c][k]
         /\ \/ rpc[c][k] = "yes"
            \/ /\ CanPrepare(Target(c, k), TxOf[c], OperationOf(k))
               /\ UNCHANGED <<users, phase, incarnation>>
<1> USE DEF Kind, PrepareKind, CommitKind, AbortKind
<1>0. rpc \in [Call -> [Kind -> RpcState]] /\ rpc[c][k] # "none" => Owner(c)
  BY DEF TypeOK, PaymentsTypeOK, CallsInOrder, InOrder
<1>1. ASSUME NEW d \in Call, NEW j \in Kind, BankServes(d, j)
      PROVE  /\ client'[c][k] = client[c][k]
             /\ \/ rpc[c][k] = "yes"
                \/ /\ CanPrepare(Target(c, k), TxOf[c], OperationOf(k))
                   /\ UNCHANGED <<users, phase, incarnation>>
  <2>1. UNCHANGED client /\ \E a \in {"busy", "yes", "no"} : rpc' = [rpc EXCEPT ![d][j] = a]
    BY <1>1, BankServesEffect DEF Answer
  <2>2. CASE d # c \/ j # k
    <3>1. rpc'[c][k] = rpc[c][k]
      BY <1>0, <2>1, <2>2
    <3> QED
      BY <2>1, <3>1
  <2>3. CASE d = c /\ j = k
    <3>1. Prepare(c, k) /\ UNCHANGED procVars
      BY <1>1, <2>3 DEF BankServes, CommitUnknown, CommitApply, SaveFlush, Abort
    <3>2. CASE ~CanPrepare(Target(c, k), TxOf[c], OperationOf(k))
      <4>1. Answer(c, k, "no")
        BY <3>1, <3>2 DEF Prepare
      <4> QED
        BY <4>1, AnswerIs
    <3>3. UNCHANGED <<users, phase, incarnation, client>>
      BY <2>1, <3>1 DEF Prepare, procVars
    <3> QED
      BY <3>2, <3>3, Zenon
  <2> QED
    BY <2>2, <2>3
<1>2. ASSUME NEW d \in Call, PaymentBegins(d) \/ PaymentGoesOn(d)
      PROVE  client'[c][k] = client[c][k] /\ rpc[c][k] = "yes"
  <2>1. rpc[c][k] = "yes"
    BY <1>2, PaymentEffect
  <2> QED
    BY <1>0, <1>2, <2>1, PaymentEffect
<1>3. CASE GatewayFails
  BY <1>3, GatewayFailsEffect DEF rpcVars
<1>4. CASE Bystander
  BY <1>4, BystanderEffect
<1> QED
  BY <1>1, <1>2, <1>3, <1>4, NextCases

LEMMA RunsStep ==
  ASSUME TypeOK, [Next]_vars, NEW b \in Bank
  PROVE  incarnation'[b] = incarnation[b] \/ incarnation'[b] = incarnation[b] + 1
<1>1. incarnation \in [Bank -> Nat]
  BY DEF TypeOK, PaymentsTypeOK
<1>2. ASSUME NEW d \in Bank, BankComesUp(d) \/ BankDies(d)
      PROVE  incarnation' = incarnation \/ incarnation' = [incarnation EXCEPT ![d] = @ + 1]
  BY <1>2 DEF BankComesUp, BankDies, Start, Serve, RegisterServer, RegisterFails, BankCrash
<1>3. ASSUME \/ \E c \in Call, k \in Kind : BankServes(c, k)
             \/ \E d \in Bank : BankSaves(d)
             \/ \E d \in Bank, S \in SUBSET MayGoStale : BankCleans(d, S)
             \/ \E u \in User, d \in Bank : ClientLogsIn(u, d)
             \/ \E u \in Mortal : ClientFails(u)
             \/ GatewayComesUp
             \/ UNCHANGED vars
      PROVE  incarnation' = incarnation
  BY <1>3 DEF BankServes, BankSaves, BankCleans, ClientLogsIn, RegisterClient, ClientFails,
     ClientDies, GatewayComesUp, GatewayRestart, procVars, vars
<1>4. CASE GatewayFails
  BY <1>4, GatewayFailsEffect DEF procVars
<1>5. ASSUME NEW c \in Call, PaymentBegins(c) \/ PaymentGoesOn(c) PROVE incarnation' = incarnation
  BY <1>5 DEF PaymentBegins, BeginPayment, PaymentGoesOn, GatewayHandler, PrepareSourceReturns,
     PrepareDestReturns, CommitSourceReturns, CommitDestReturns, AbortSourceReturns,
     AbortDestReturns, PersistTransactionLogs, SendAbort, procVars
<1> QED
  BY <1>1, <1>2, <1>3, <1>4, <1>5 DEF Next

LEMMA KnownStep ==
  ASSUME TypeOK, CallsInOrder, Connections, Known, [Next]_vars
  PROVE  Known'
<1> SUFFICES ASSUME NEW c \in Call, NEW k \in PrepareKind, rpc'[c][k] = "yes",
                    client'[c][k] = incarnation'[Target(c, k)], phase'[Target(c, k)] # "down"
             PROVE  Account(TxOf[c], OperationOf(k)) \in DOMAIN users'[Target(c, k)]
  BY DEF Known, Account, OperationOf, Target, Pay
<1> DEFINE b == Target(c, k)
<1>1. b \in Bank /\ incarnation[b] \in Nat /\ client[c][k] \in Nat /\ client[c][k] <= incarnation[b]
  BY Constants DEF TypeOK, PaymentsTypeOK, Connections, Kind
<1>2. client'[c][k] = client[c][k]
  BY YesEffect
<1>3. incarnation'[b] = incarnation[b]
  <2>1. incarnation'[b] = incarnation[b] \/ incarnation'[b] = incarnation[b] + 1
    BY <1>1, RunsStep
  <2> QED
    BY <1>1, <1>2, <2>1
<1>4. phase[b] # "down" /\ DOMAIN users[b] \subseteq DOMAIN users'[b]
  BY <1>1, <1>3, UsersGrow
<1>5. CASE rpc[c][k] = "yes"
  BY <1>2, <1>3, <1>4, <1>5 DEF Known
<1>6. CASE CanPrepare(b, TxOf[c], OperationOf(k))
  BY <1>4, <1>6 DEF CanPrepare
<1> QED
  BY <1>5, <1>6, YesEffect

\* What a commit does, when the payment names the bank of each account.
LEMMA CommitIsHome ==
  ASSUME CrossBank, AtHome, IInv, Known, NEW c \in Call, NEW k \in Kind, CommitApply(c, k)
  PROVE  \E b \in Bank, t \in Tx, op \in {"debit", "credit"} :
           LET u == Account(t, op)
           IN  /\ phase[b] = "serving" /\ saving[b].stage = "idle"
               /\ u \in DOMAIN users[b] /\ HomeBank[u] = b
               /\ Half(t, op)
               /\ users' = [users EXCEPT ![b] =
                              SetBalance(users[b], u, users[b][u] + Change(t, op))]
               /\ saving' = [saving EXCEPT ![b] = [stage |-> "read", user |-> u]]
               /\ overlapped' = (overlapped \/ \E d \in Bank : saving[d].stage # "idle")
               /\ UNCHANGED csv
<1> USE DEF Kind, PrepareKind, CommitKind, AbortKind
<1> DEFINE b == Target(c, k)
           t == TxOf[c]
           op == pending[b][t]
           u == Account(t, op)
           prepare == IF k = "commitSource" THEN "prepareSource" ELSE "prepareDest"
<1>1. /\ b \in Bank /\ t \in Tx /\ op \in {"debit", "credit"} /\ k \in CommitKind
      /\ Reachable(c, k) /\ saving[b].stage = "idle"
  BY Constants DEF CommitApply, Served, IInv, TypeOK, BankTypeOK, Operation
<1>2. /\ debits' = [debits EXCEPT ![t] = IF op = "debit" THEN @ + 1 ELSE @]
      /\ credits' = [credits EXCEPT ![t] = IF op = "credit" THEN @ + 1 ELSE @]
      /\ debits \in [Tx -> Nat] /\ credits \in [Tx -> Nat]
  BY DEF CommitApply, IInv, TypeOK, BankTypeOK
<1>3. Half(t, op)
  BY <1>1, <1>2, CountsOnce DEF Half
<1>4. op = OperationOf(prepare)
  <2>1. IF k = "commitSource" THEN credits' = credits ELSE debits' = debits
    BY <1>1, CommitEffect DEF IInv
  <2> HIDE DEF op, t
  <2>2. IF k = "commitSource" THEN op # "credit" ELSE op # "debit"
    BY <1>1, <1>2, <2>1
  <2> QED
    BY <1>1, <2>2 DEF OperationOf, SourceKind
<1>5. /\ rpc[c][prepare] = "yes" /\ Target(c, prepare) = b
      /\ client[c][prepare] = incarnation[b] /\ phase[b] = "serving"
  <2>1. rpc[c][k] = "sent" /\ client[c][k] = incarnation[b] /\ phase[b] = "serving"
    BY <1>1 DEF CommitApply, Served, Reachable
  <2>2. rpc[c][prepare] = "yes"
    BY <1>1, <2>1 DEF IInv, CallsInOrder, InOrder
  <2>3. Target(c, prepare) = b
    BY <1>1 DEF Target, SourceKind
  <2>4. client[c][prepare] = client[c][k]
    BY <1>1 DEF IInv, Connections
  <2> QED
    BY <2>1, <2>2, <2>3, <2>4
<1>6. u \in DOMAIN users[b]
  <2>1. prepare \in PrepareKind
    OBVIOUS
  <2> HIDE DEF b, t, op, prepare
  <2> QED
    BY <1>4, <1>5, <2>1 DEF Known, t
<1>7. HomeBank[u] = b
  BY <1>1, <1>4 DEF AtHome, Account, OperationOf, Target, Pay, SourceKind
<1>8. /\ users' = [users EXCEPT ![b] = SetBalance(users[b], u, users[b][u] + Change(t, op))]
      /\ saving' = [saving EXCEPT ![b] = [stage |-> "read", user |-> u]]
      /\ overlapped' = (overlapped \/ \E d \in Bank : saving[d].stage # "idle")
      /\ UNCHANGED csv
  BY <1>6 DEF CommitApply, BalanceOf
<1> HIDE DEF b, t, op
<1> QED
  BY <1>1, <1>3, <1>5, <1>6, <1>7, <1>8

-----------------------------------------------------------------------------
\* A bank stops saving only by finishing or by dying.
LEMMA SaversStep ==
  ASSUME CrossBank, AtHome, IInv, Known, Savers, [Next]_vars
  PROVE  Savers'
<1>0. /\ phase \in [Bank -> Phase] /\ incarnation \in [Bank -> Nat] /\ TypeOK
      /\ users = [b \in Bank |-> users[b]]
      /\ saving \in [Bank -> [stage: Stage, user: User \cup {"none"}]]
      /\ \A c \in Call, k \in Kind : Target(c, k) \in Bank
  BY Constants DEF IInv, TypeOK, PaymentsTypeOK, BankTypeOK
<1> DEFINE Saves(b) == saving[b].stage # "idle" =>
             /\ phase[b] = "serving"
             /\ saving[b].user \in DOMAIN users[b] /\ HomeBank[saving[b].user] = b
<1>1. SUFFICES ASSUME NEW b \in Bank, saving'[b].stage # "idle"
               PROVE  /\ phase'[b] = "serving"
                      /\ saving'[b].user \in DOMAIN users'[b] /\ HomeBank[saving'[b].user] = b
  BY DEF Savers
\* Who saved and still does.
<1>2. ASSUME saving[b].stage # "idle", saving'[b].user = saving[b].user, phase'[b] = "serving",
             incarnation'[b] = incarnation[b]
      PROVE  saving'[b].user \in DOMAIN users'[b] /\ HomeBank[saving'[b].user] = b
  <2>1. DOMAIN users[b] \subseteq DOMAIN users'[b]
    BY <1>0, <1>2, UsersGrow
  <2> QED
    BY <1>2, <2>1 DEF Savers
<1>3. ASSUME NEW c \in Call, NEW k \in Kind, CommitApply(c, k), UNCHANGED <<phase, incarnation>>
      PROVE  /\ phase'[b] = "serving"
             /\ saving'[b].user \in DOMAIN users'[b] /\ HomeBank[saving'[b].user] = b
  <2>0. PICK d \in Bank : \E u : /\ phase[d] = "serving" /\ u \in DOMAIN users[d]
                                 /\ HomeBank[u] = d
                                 /\ saving' = [saving EXCEPT ![d] = [stage |-> "read", user |-> u]]
    BY <1>3, CommitIsHome
  <2>1. PICK u : /\ phase[d] = "serving" /\ u \in DOMAIN users[d] /\ HomeBank[u] = d
                 /\ saving' = [saving EXCEPT ![d] = [stage |-> "read", user |-> u]]
    BY <2>0
  <2>2. CASE d = b
    <3>1. saving'[b].user = u
      BY <1>0, <2>1, <2>2
    <3>2. DOMAIN users[b] \subseteq DOMAIN users'[b]
      BY <1>0, <1>3, <2>1, <2>2, UsersGrow
    <3> QED
      BY <1>3, <2>1, <2>2, <3>1, <3>2
  <2>3. CASE d # b
    <3>1. saving'[b] = saving[b]
      BY <1>0, <2>1, <2>3
    <3> QED
      BY <1>1, <1>2, <1>3, <3>1 DEF Savers
  <2> QED
    BY <2>2, <2>3
<1>4. ASSUME NEW c \in Call, NEW k \in Kind, SaveFlush(c, k), UNCHANGED <<phase, incarnation>>
      PROVE  saving'[b] = saving[b]
  BY <1>0, <1>1, <1>4 DEF SaveFlush, Idle
<1>5. ASSUME NEW d \in Bank, SaveRead(d) \/ SaveTruncate(d), UNCHANGED <<phase, incarnation>>
      PROVE  saving[b].stage # "idle" /\ saving'[b].user = saving[b].user
  BY <1>0, <1>1, <1>5 DEF SaveRead, SaveTruncate
<1>6. ASSUME NEW d \in Bank, Start(d)
      PROVE  saving'[b] = saving[b] /\ phase'[b] = phase[b] /\ incarnation'[b] = incarnation[b]
  <2>1. saving' = saving
    BY <1>6 DEF Start
  <2>2. phase[b] = "serving"
    BY <1>1, <2>1 DEF Savers
  <2> QED
    BY <1>0, <1>6, <2>1, <2>2 DEF Start
<1>7. ASSUME NEW d \in Bank, BankCrash(d)
      PROVE  saving'[b] = saving[b] /\ phase'[b] = phase[b] /\ incarnation'[b] = incarnation[b]
  BY <1>0, <1>1, <1>7 DEF BankCrash, Idle
<1>8. CASE Aside
  BY <1>1, <1>8 DEF Aside, Savers
<1>9. ASSUME saving[b].stage # "idle", saving'[b].user = saving[b].user, phase'[b] = phase[b],
             incarnation'[b] = incarnation[b]
      PROVE  /\ phase'[b] = "serving"
             /\ saving'[b].user \in DOMAIN users'[b] /\ HomeBank[saving'[b].user] = b
  BY <1>2, <1>9 DEF Savers
<1> QED
  BY <1>0, <1>1, <1>3, <1>4, <1>5, <1>6, <1>7, <1>8, <1>9, BooksCases

-----------------------------------------------------------------------------
\* What else the proof about the books needs to know before and after a step.
BooksTypes ==
  /\ users = [b \in Bank |-> users[b]]
  /\ saving \in [Bank -> [stage: Stage, user: User \cup {"none"}]]
  /\ phase \in [Bank -> Phase]
  /\ \A u \in Holder : u \in User /\ HomeBank[u] \in Bank

LEMMA BooksTyped == TypeOK => BooksTypes
BY Constants, BankAssumption DEF TypeOK, PaymentsTypeOK, BankTypeOK, BooksTypes, Holder, IsAccounts

\* The half of a payment is applied while nobody else saves.
LEMMA CommitInTurn ==
  ASSUME CrossBank, AtHome, IsFiniteSet(Tx), IInv, TypeOK', Known, Savers, InTurn, ~overlapped',
         NEW c \in Call, NEW k \in Kind, CommitApply(c, k), UNCHANGED phase
  PROVE  Alone' /\ OwnAccounts' /\ AllAccounts' /\ SharedFile'
<1>0. BooksTypes /\ TypeOK
  BY BooksTyped DEF IInv
<1>1. PICK b \in Bank, t \in Tx, op \in {"debit", "credit"} :
        LET u == Account(t, op)
        IN  /\ phase[b] = "serving" /\ saving[b].stage = "idle"
            /\ u \in DOMAIN users[b] /\ HomeBank[u] = b
            /\ Half(t, op)
            /\ users' = [users EXCEPT ![b] =
                           SetBalance(users[b], u, users[b][u] + Change(t, op))]
            /\ saving' = [saving EXCEPT ![b] = [stage |-> "read", user |-> u]]
            /\ overlapped' = (overlapped \/ \E d \in Bank : saving[d].stage # "idle")
            /\ UNCHANGED csv
  BY CommitIsHome
<1> DEFINE u == Account(t, op)
<1>2. ~overlapped /\ \A d \in Bank : saving[d].stage = "idle"
  BY <1>1
<1>3. OwnAccounts /\ SharedFile
  BY <1>2 DEF InTurn
<1>4. saving'[b].stage = "read" /\ saving'[b].user = u
  BY <1>0, <1>1 DEF BooksTypes
<1>5. \A d \in Bank \ {b} : saving'[d].stage = "idle"
  BY <1>0, <1>1, <1>2 DEF BooksTypes
<1>6. \A v \in Holder : Ledger(v) \in Int
                       /\ Ledger(v)' = Ledger(v) + IF v = u THEN Change(t, op) ELSE 0
  BY <1>0, <1>1, LedgerMoves DEF Holder
<1>7. \A v \in Holder : v # u => Ledger(v)' = Ledger(v)
  BY <1>6
<1>8. users'[b] = SetBalance(users[b], u, users[b][u] + Change(t, op))
      /\ \A d \in Bank \ {b} : users'[d] = users[d]
  BY <1>0, <1>1 DEF BooksTypes
<1>9. Alone'
  BY <1>4, <1>5 DEF Alone
<1>10. AllAccounts'
  BY <1>4, <1>5 DEF AllAccounts
<1>11. SharedFile'
  <2>1. ~\E d \in Bank : saving[d].stage = "flush" \/ saving'[d].stage = "flush"
    BY <1>2, <1>4, <1>5
  <2>2. ASSUME NEW v \in Holder, ~BeingSaved(v)' PROVE IsRight(csv, v)'
    <3>1. v # u
      BY <1>4, <2>2 DEF BeingSaved
    <3>2. IsRight(csv, v)
      BY <1>2, <1>3, <2>1 DEF SharedFile, BeingSaved
    <3> QED
      BY <1>1, <1>7, <3>1, <3>2 DEF IsRight
  <2> QED
    BY <2>1, <2>2 DEF SharedFile
<1>12. OwnAccounts'
  <2> SUFFICES ASSUME NEW v \in Holder, phase'[HomeBank[v]] # "down",
                      v \in DOMAIN users'[HomeBank[v]]
               PROVE  users'[HomeBank[v]][v] = Ledger(v)'
    BY DEF OwnAccounts
  <2> DEFINE h == HomeBank[v]
  <2>0. h \in Bank
    BY <1>0 DEF BooksTypes
  <2>1. CASE h # b
    <3>1. v # u
      BY <1>1, <2>1
    <3>2. users'[h] = users[h]
      BY <1>8, <2>0, <2>1
    <3> QED
      BY <1>3, <1>7, <3>1, <3>2 DEF OwnAccounts
  <2>2. CASE h = b /\ v # u
    <3>1. v \in DOMAIN users[b] /\ users'[b][v] = users[b][v]
      BY <1>1, <1>8, <2>2 DEF SetBalance
    <3> QED
      BY <1>3, <1>7, <2>2, <3>1 DEF OwnAccounts
  <2>3. CASE h = b /\ v = u
    <3>1. users'[b][v] = users[b][u] + Change(t, op)
      BY <1>1, <1>8, <2>3 DEF SetBalance
    <3>2. users[b][u] = Ledger(u)
      BY <1>1, <1>3, <2>3 DEF OwnAccounts
    <3> QED
      BY <1>6, <2>3, <3>1, <3>2
  <2> QED
    BY <2>1, <2>2, <2>3
<1> QED
  BY <1>9, <1>10, <1>11, <1>12

\* The bank that saves reads the file, which is right about the accounts of the others.
LEMMA ReadInTurn ==
  ASSUME IsFiniteSet(Tx), TypeOK, TypeOK', Savers, InTurn, ~overlapped',
         NEW b \in Bank, SaveRead(b), UNCHANGED phase
  PROVE  Alone' /\ OwnAccounts' /\ AllAccounts' /\ SharedFile'
<1>0. BooksTypes
  BY BooksTyped
<1> DEFINE u == saving[b].user
<1>1. /\ saving[b].stage = "read"
      /\ users' = [users EXCEPT ![b] = Refresh(users[b], csv, u)]
      /\ saving' = [saving EXCEPT ![b].stage = "truncate"]
      /\ UNCHANGED <<csv, debits, credits, overlapped>>
  BY DEF SaveRead, history
<1>2. Alone /\ OwnAccounts /\ SharedFile /\ ~overlapped
  BY <1>1 DEF InTurn
<1>3. /\ saving'[b].stage = "truncate" /\ saving'[b].user = u
      /\ \A d \in Bank \ {b} : saving'[d] = saving[d] /\ saving[d].stage = "idle"
  BY <1>0, <1>1, <1>2 DEF BooksTypes, Alone
<1>4. phase[b] = "serving" /\ u \in DOMAIN users[b] /\ HomeBank[u] = b
  BY <1>1 DEF Savers
<1>5. \A v \in Holder : Ledger(v)' = Ledger(v)
  BY <1>1, LedgerStays DEF Holder
<1>6. /\ users'[b] = Refresh(users[b], csv, u)
      /\ \A d \in Bank \ {b} : users'[d] = users[d]
  BY <1>0, <1>1 DEF BooksTypes
<1>7. \A v \in Holder : v # u => IsRight(csv, v)
  BY <1>1, <1>2, <1>3 DEF SharedFile, BeingSaved
<1>8. ASSUME NEW v \in Holder PROVE IsRight(users[b], v)'
  <2>1. CASE v = u
    <3>1. v \in DOMAIN users'[b] /\ users'[b][v] = users[b][v]
      BY <1>4, <1>6, <2>1 DEF Refresh
    <3>2. users[b][v] = Ledger(v)
      BY <1>2, <1>4, <2>1 DEF OwnAccounts
    <3> QED
      BY <1>5, <3>1, <3>2 DEF IsRight
  <2>2. CASE v # u
    <3>1. v \in DOMAIN users'[b] /\ users'[b][v] = csv[v]
      BY <1>6, <1>7, <2>2 DEF Refresh, IsRight
    <3> QED
      BY <1>5, <1>7, <2>2, <3>1 DEF IsRight
  <2> QED
    BY <2>1, <2>2
<1>9. Alone'
  BY <1>3 DEF Alone
<1>10. AllAccounts'
  BY <1>3, <1>8 DEF AllAccounts, IsRight
<1>11. SharedFile'
  <2>1. ~\E d \in Bank : saving'[d].stage = "flush"
    BY <1>3
  <2>2. ASSUME NEW v \in Holder, ~BeingSaved(v)' PROVE IsRight(csv, v)'
    <3>1. v # u
      BY <1>3, <2>2 DEF BeingSaved
    <3> QED
      BY <1>1, <1>5, <1>7, <3>1 DEF IsRight
  <2> QED
    BY <2>1, <2>2 DEF SharedFile
<1>12. OwnAccounts'
  <2> SUFFICES ASSUME NEW v \in Holder, phase'[HomeBank[v]] # "down",
                      v \in DOMAIN users'[HomeBank[v]]
               PROVE  users'[HomeBank[v]][v] = Ledger(v)'
    BY DEF OwnAccounts
  <2>0. HomeBank[v] \in Bank
    BY <1>0 DEF BooksTypes
  <2>1. CASE HomeBank[v] # b
    BY <1>2, <1>5, <1>6, <2>0, <2>1 DEF OwnAccounts
  <2>2. CASE HomeBank[v] = b
    BY <1>8, <2>2 DEF IsRight
  <2> QED
    BY <2>1, <2>2
<1> QED
  BY <1>9, <1>10, <1>11, <1>12

\* Nothing is applied, and the memory of the banks stays as it is: a bank truncates
\* the file, writes what it has, starts from the file, dies, or does something else.
LEMMA MemoryInTurn ==
  ASSUME IsFiniteSet(Tx), TypeOK, TypeOK', OwnAccounts, UNCHANGED <<debits, credits>>,
         \A b \in Bank : phase'[b] # "down" => phase[b] # "down" /\ users'[b] = users[b]
  PROVE  OwnAccounts' /\ \A v \in Holder : Ledger(v)' = Ledger(v)
<1>1. BooksTypes
  BY BooksTyped
<1>2. \A v \in Holder : Ledger(v)' = Ledger(v)
  BY LedgerStays DEF Holder
<1> QED
  BY <1>1, <1>2 DEF OwnAccounts, BooksTypes

LEMMA TruncateInTurn ==
  ASSUME IsFiniteSet(Tx), TypeOK, TypeOK', InTurn, ~overlapped',
         NEW b \in Bank, SaveTruncate(b), UNCHANGED phase
  PROVE  Alone' /\ OwnAccounts' /\ AllAccounts' /\ SharedFile'
<1>0. BooksTypes
  BY BooksTyped
<1>1. /\ saving[b].stage = "truncate" /\ csv' = NoAccounts
      /\ saving' = [saving EXCEPT ![b].stage = "flush"]
      /\ UNCHANGED <<users, debits, credits, overlapped>>
  BY DEF SaveTruncate, history
<1>2. Alone /\ OwnAccounts /\ AllAccounts
  BY <1>1 DEF InTurn
<1>3. /\ saving'[b].stage = "flush"
      /\ \A d \in Bank \ {b} : saving'[d] = saving[d] /\ saving[d].stage = "idle"
  BY <1>0, <1>1, <1>2 DEF BooksTypes, Alone
<1>4. OwnAccounts' /\ \A v \in Holder : Ledger(v)' = Ledger(v)
  BY <1>1, <1>2, MemoryInTurn
<1>5. Alone'
  BY <1>3 DEF Alone
<1>6. AllAccounts'
  BY <1>1, <1>2, <1>3, <1>4 DEF AllAccounts, IsRight
<1>7. SharedFile'
  BY <1>1, <1>3 DEF SharedFile, NoAccounts
<1> QED
  BY <1>4, <1>5, <1>6, <1>7

LEMMA FlushInTurn ==
  ASSUME IsFiniteSet(Tx), TypeOK, TypeOK', InTurn, ~overlapped',
         NEW c \in Call, NEW k \in Kind, SaveFlush(c, k), UNCHANGED phase
  PROVE  Alone' /\ OwnAccounts' /\ AllAccounts' /\ SharedFile'
<1>0. BooksTypes
  BY BooksTyped
<1> DEFINE b == Target(c, k)
<1>1. /\ saving[b].stage = "flush" /\ csv' = users[b]
      /\ saving' = [saving EXCEPT ![b] = Idle]
      /\ UNCHANGED <<users, debits, credits, overlapped>> /\ b \in Bank
  BY Constants DEF SaveFlush, history
<1>2. Alone /\ OwnAccounts /\ AllAccounts
  BY <1>1 DEF InTurn
<1> HIDE DEF b
<1>3. \A d \in Bank : saving'[d].stage = "idle"
  BY <1>0, <1>1, <1>2 DEF BooksTypes, Alone, Idle
<1>4. OwnAccounts' /\ \A v \in Holder : Ledger(v)' = Ledger(v)
  BY <1>1, <1>2, MemoryInTurn
<1>5. Alone' /\ AllAccounts'
  BY <1>3 DEF Alone, AllAccounts
<1>6. \A v \in Holder : IsRight(csv, v)'
  BY <1>1, <1>2, <1>4 DEF AllAccounts, IsRight
<1>7. SharedFile'
  BY <1>3, <1>6 DEF SharedFile
<1> QED
  BY <1>4, <1>5, <1>7

\* A bank that starts has the accounts of the file: nobody saves one of its own.
LEMMA StartInTurn ==
  ASSUME IsFiniteSet(Tx), TypeOK, TypeOK', Savers, InTurn, ~overlapped', NEW b \in Bank, Start(b)
  PROVE  Alone' /\ OwnAccounts' /\ AllAccounts' /\ SharedFile'
<1>0. BooksTypes
  BY BooksTyped
<1>1. /\ phase[b] = "down" /\ phase' = [phase EXCEPT ![b] = "loaded"]
      /\ users' = [users EXCEPT ![b] = csv]
      /\ UNCHANGED <<saving, csv, debits, credits, overlapped>>
  BY DEF Start, history, fileVars
<1>2. Alone /\ OwnAccounts /\ AllAccounts /\ SharedFile
  BY <1>1 DEF InTurn
<1>3. \A v \in Holder : Ledger(v)' = Ledger(v)
  BY <1>1, LedgerStays DEF Holder
<1>4. /\ users'[b] = csv /\ saving[b].stage = "idle"
      /\ \A d \in Bank \ {b} : users'[d] = users[d] /\ phase'[d] = phase[d]
  BY <1>0, <1>1 DEF BooksTypes, Savers
<1>5. Alone'
  BY <1>1, <1>2 DEF Alone
<1>6. AllAccounts'
  BY <1>1, <1>2, <1>3, <1>4 DEF AllAccounts, IsRight
<1>7. SharedFile'
  BY <1>1, <1>2, <1>3 DEF SharedFile, IsRight, BeingSaved
<1>8. OwnAccounts'
  <2> SUFFICES ASSUME NEW v \in Holder, phase'[HomeBank[v]] # "down",
                      v \in DOMAIN users'[HomeBank[v]]
               PROVE  users'[HomeBank[v]][v] = Ledger(v)'
    BY DEF OwnAccounts
  <2>0. HomeBank[v] \in Bank
    BY <1>0 DEF BooksTypes
  <2>1. CASE HomeBank[v] # b
    BY <1>2, <1>3, <1>4, <2>0, <2>1 DEF OwnAccounts
  <2>2. CASE HomeBank[v] = b
    <3>1. v \in DOMAIN csv
      BY <1>4, <2>2
    <3>2. ~\E d \in Bank : saving[d].stage = "flush"
      BY <1>2, <3>1 DEF SharedFile, NoAccounts
    <3>3. ~BeingSaved(v)
      BY <1>4, <2>2 DEF BeingSaved, Savers
    <3> QED
      BY <1>2, <1>3, <1>4, <2>2, <3>2, <3>3 DEF SharedFile, IsRight
  <2> QED
    BY <2>1, <2>2
<1> QED
  BY <1>5, <1>6, <1>7, <1>8

LEMMA CrashInTurn ==
  ASSUME IsFiniteSet(Tx), TypeOK, TypeOK', InTurn, ~overlapped', NEW b \in Bank, BankCrash(b)
  PROVE  Alone' /\ OwnAccounts' /\ AllAccounts' /\ SharedFile'
<1>0. BooksTypes
  BY BooksTyped
<1>1. /\ phase' = [phase EXCEPT ![b] = "down"]
      /\ users' = [users EXCEPT ![b] = NoAccounts]
      /\ saving' = [saving EXCEPT ![b] = Idle]
      /\ UNCHANGED <<csv, debits, credits>> /\ ~overlapped /\ saving[b].stage = "idle"
  BY DEF BankCrash, fileVars
<1>2. Alone /\ OwnAccounts /\ AllAccounts /\ SharedFile
  BY <1>1 DEF InTurn
<1>3. /\ saving'[b].stage = "idle" /\ phase'[b] = "down"
      /\ \A d \in Bank \ {b} : users'[d] = users[d] /\ phase'[d] = phase[d] /\ saving'[d] = saving[d]
  BY <1>0, <1>1 DEF BooksTypes, Idle
<1>4. OwnAccounts' /\ \A v \in Holder : Ledger(v)' = Ledger(v)
  BY <1>1, <1>2, <1>3, MemoryInTurn
<1>5. Alone'
  BY <1>2, <1>3 DEF Alone
<1>6. AllAccounts'
  BY <1>2, <1>3, <1>4 DEF AllAccounts, IsRight
<1>7. SharedFile'
  BY <1>1, <1>2, <1>3, <1>4 DEF SharedFile, IsRight, BeingSaved
<1> QED
  BY <1>4, <1>5, <1>6, <1>7

LEMMA AsideInTurn ==
  ASSUME IsFiniteSet(Tx), TypeOK, TypeOK', InTurn, ~overlapped', Aside
  PROVE  Alone' /\ OwnAccounts' /\ AllAccounts' /\ SharedFile'
<1>1. Alone /\ OwnAccounts /\ AllAccounts /\ SharedFile
  BY DEF InTurn, Aside
<1>2. OwnAccounts' /\ \A v \in Holder : Ledger(v)' = Ledger(v)
  BY <1>1, MemoryInTurn DEF Aside
<1>3. Alone'
  BY <1>1 DEF Alone, Aside
<1>4. AllAccounts'
  BY <1>1, <1>2 DEF AllAccounts, IsRight, Aside
<1>5. SharedFile'
  BY <1>1, <1>2 DEF SharedFile, IsRight, BeingSaved, Aside
<1> QED
  BY <1>2, <1>3, <1>4, <1>5

-----------------------------------------------------------------------------
LEMMA BooksStep ==
  ASSUME CrossBank, AtHome, IsFiniteSet(Tx) PROVE BooksInv /\ [Next]_vars => BooksInv'
<1> SUFFICES ASSUME BooksInv, [Next]_vars PROVE BooksInv'
  OBVIOUS
<1>1. IInv /\ Known /\ Savers /\ InTurn /\ TypeOK
  BY DEF BooksInv, IInv
<1>2. IInv' /\ TypeOK'
  BY <1>1, InvariantStep DEF IInv
<1>3. Known'
  BY <1>1, KnownStep DEF IInv
<1>4. Savers'
  BY <1>1, SaversStep
<1>5. ASSUME ~overlapped' PROVE Alone' /\ OwnAccounts' /\ AllAccounts' /\ SharedFile'
  <2>1. ASSUME NEW c \in Call, NEW k \in Kind, CommitApply(c, k), UNCHANGED phase
        PROVE  Alone' /\ OwnAccounts' /\ AllAccounts' /\ SharedFile'
    BY <1>1, <1>2, <1>5, <2>1, CommitInTurn
  <2>2. ASSUME NEW c \in Call, NEW k \in Kind, SaveFlush(c, k), UNCHANGED phase
        PROVE  Alone' /\ OwnAccounts' /\ AllAccounts' /\ SharedFile'
    BY <1>1, <1>2, <1>5, <2>2, FlushInTurn
  <2>3. ASSUME NEW b \in Bank, SaveRead(b), UNCHANGED phase
        PROVE  Alone' /\ OwnAccounts' /\ AllAccounts' /\ SharedFile'
    BY <1>1, <1>2, <1>5, <2>3, ReadInTurn
  <2>4. ASSUME NEW b \in Bank, SaveTruncate(b), UNCHANGED phase
        PROVE  Alone' /\ OwnAccounts' /\ AllAccounts' /\ SharedFile'
    BY <1>1, <1>2, <1>5, <2>4, TruncateInTurn
  <2>5. ASSUME NEW b \in Bank, Start(b)
        PROVE  Alone' /\ OwnAccounts' /\ AllAccounts' /\ SharedFile'
    BY <1>1, <1>2, <1>5, <2>5, StartInTurn
  <2>6. ASSUME NEW b \in Bank, BankCrash(b)
        PROVE  Alone' /\ OwnAccounts' /\ AllAccounts' /\ SharedFile'
    BY <1>1, <1>2, <1>5, <2>6, CrashInTurn
  <2>7. CASE Aside
    BY <1>1, <1>2, <1>5, <2>7, AsideInTurn
  <2> QED
    BY <1>1, <2>1, <2>2, <2>3, <2>4, <2>5, <2>6, <2>7, BooksCases
<1> QED
  BY <1>2, <1>3, <1>4, <1>5 DEF BooksInv, InTurn

LEMMA BooksStart ==
  ASSUME IsFiniteSet(Tx) PROVE Init \/ WarmInit => BooksInv
<1> SUFFICES ASSUME Init \/ WarmInit PROVE BooksInv
  OBVIOUS
<1>1. IInv
  BY InitInvariant, WarmInvariant DEF AtomicityInv
<1>2. /\ rpc = [c \in Call |-> [k \in Kind |-> "none"]]
      /\ saving = [b \in Bank |-> Idle] /\ csv = InitialBalance
      /\ debits = [t \in Tx |-> 0] /\ credits = [t \in Tx |-> 0]
      /\ \A b \in Bank : phase[b] = "down" \/ users[b] = InitialBalance
  BY DEF Init, PaymentsInit, BankInit, WarmInit
<1>3. \A u \in Holder : Ledger(u) = InitialBalance[u]
  BY <1>1, <1>2, LedgerStarts DEF Holder, IInv
<1>4. Known
  BY <1>2 DEF Known, Kind
<1>5. \A b \in Bank : saving[b].stage = "idle"
  BY <1>2 DEF Idle
<1>6. Savers /\ Alone /\ AllAccounts
  BY <1>5 DEF Savers, Alone, AllAccounts
<1>7. OwnAccounts
  <2>1. BooksTypes
    BY <1>1, BooksTyped DEF IInv
  <2> QED
    BY <1>2, <1>3, <2>1 DEF OwnAccounts, BooksTypes
<1>8. SharedFile
  BY <1>2, <1>3, <1>5 DEF SharedFile, IsRight, Holder
<1> QED
  BY <1>1, <1>4, <1>6, <1>7, <1>8 DEF BooksInv, InTurn

LEMMA BooksAreRight == BooksInv => BooksBalanceInTurn
BY DEF BooksInv, InTurn, SharedFile, IsRight, Holder, BeingSaved, BooksBalanceInTurn, BooksBalance

\* The shared account file is right between two saves, if the saves of different
\* banks do not overlap, no bank dies in one, and every payment names the bank of
\* each account.
THEOREM Books ==
  ASSUME CrossBank, AtHome, IsFiniteSet(Tx)
  PROVE  (Spec => []BooksBalanceInTurn) /\ (WarmSpec => []BooksBalanceInTurn)
<1>1. Init => BooksInv
  BY BooksStart
<1>2. WarmInit => BooksInv
  BY BooksStart
<1>3. BooksInv /\ [Next]_vars => BooksInv'
  BY BooksStep
<1>4. Spec => []BooksBalanceInTurn
  BY <1>1, <1>3, BooksAreRight, PTL DEF Spec
<1>5. WarmSpec => []BooksBalanceInTurn
  BY <1>2, <1>3, BooksAreRight, PTL DEF WarmSpec
<1> QED
  BY <1>4, <1>5
=============================================================================
