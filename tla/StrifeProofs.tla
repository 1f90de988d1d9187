---------------------------- MODULE StrifeProofs ----------------------------
(***************************************************************************)
(* Proofs about Strife for every set of banks, users, payments and         *)
(* invocations, and every bound.                                           *)
(***************************************************************************)
EXTENDS StrifeInvariant, TLAPS

\* The assumptions on the constants, in one place.
LEMMA Constants ==
  /\ Payment \in [Tx -> PaymentDetails]
  /\ TxOf \in [Call -> Tx]
  /\ IsAccounts(InitialBalance)
  /\ \A c \in Call : /\ TxOf[c] \in Tx
                     /\ Pay(c) \in PaymentDetails
                     /\ \A k \in Kind : Target(c, k) \in Bank
BY PaymentsAssumption, BankAssumption DEF Pay, Target, PaymentDetails

-----------------------------------------------------------------------------
\* The helpers on account maps keep their type.
LEMMA SetBalanceType ==
  ASSUME NEW f, IsAccounts(f), NEW u \in User, NEW n \in Int
  PROVE  IsAccounts(SetBalance(f, u, n))
BY DEF IsAccounts, SetBalance

LEMMA RefreshType ==
  ASSUME NEW f, IsAccounts(f), NEW g, IsAccounts(g), NEW u
  PROVE  IsAccounts(Refresh(f, g, u))
<1> DEFINE D == DOMAIN f \cup (DOMAIN g \ {u})
           r(v) == IF v \in DOMAIN g \ {u} THEN g[v] ELSE f[v]
<1>1. D \subseteq User
  BY DEF IsAccounts
<1>2. ASSUME NEW v \in D PROVE r(v) \in Int
  BY <1>2 DEF IsAccounts
<1> QED
  BY <1>1, <1>2 DEF IsAccounts, Refresh

LEMMA BalanceOfType ==
  ASSUME NEW f, IsAccounts(f), NEW u
  PROVE  BalanceOf(f, u) \in Int
BY DEF IsAccounts, BalanceOf

LEMMA AccountType ==
  ASSUME NEW t \in Tx, NEW op
  PROVE  Account(t, op) \in User /\ Change(t, op) \in Int
BY Constants DEF Account, Change, PaymentDetails

LEMMA InitType == Init => TypeOK
<1> SUFFICES ASSUME Init PROVE TypeOK
  OBVIOUS
<1>1. PaymentsTypeOK
  BY DEF Init, PaymentsInit, PaymentsTypeOK, RpcState, Phase
<1>2. BankTypeOK
  <2>1. IsAccounts(NoAccounts) /\ IsAccounts(csv)
    BY Constants DEF Init, BankInit, IsAccounts, NoAccounts
  <2> QED
    BY <2>1 DEF Init, BankInit, BankTypeOK, NothingPending, Operation, Idle, Stage
<1>3. GatewayTypeOK
  BY DEF Init, GatewayInit, GatewayTypeOK, NoLogs, NoLog, TransactionLog, Status, Reply
<1> QED
  BY <1>1, <1>2, <1>3 DEF TypeOK

-----------------------------------------------------------------------------
\* Steps of the banks leave the gateway alone and the other way round.
LEMMA GatewayUnchanged ==
  ASSUME GatewayTypeOK, UNCHANGED gatewayVars PROVE GatewayTypeOK'
BY DEF GatewayTypeOK, gatewayVars

LEMMA BankUnchanged ==
  ASSUME BankTypeOK, UNCHANGED bankVars PROVE BankTypeOK'
BY DEF BankTypeOK, bankVars

\* A request that is answered keeps rpc a table of call states.
LEMMA AnswerType ==
  ASSUME PaymentsTypeOK, NEW c \in Call, NEW k \in Kind, NEW a \in RpcState,
         Answer(c, k, a), UNCHANGED client, UNCHANGED procVars
  PROVE  PaymentsTypeOK'
BY DEF PaymentsTypeOK, Answer, procVars

\* Changing one entry, and writing the file, keeps the types.
LEMMA EntryType ==
  ASSUME BankTypeOK, NEW b \in Bank, NEW t \in Tx, NEW op \in Operation,
         pending' = [pending EXCEPT ![b][t] = op], pendingFile' = pending'[b]
  PROVE  pending' \in [Bank -> [Tx -> Operation]] /\ pendingFile' \in [Tx -> Operation]
BY DEF BankTypeOK

LEMMA CountType ==
  ASSUME NEW f \in [Tx -> Nat], NEW t \in Tx
  PROVE  [f EXCEPT ![t] = @ + 1] \in [Tx -> Nat]
OBVIOUS

\* What changes only the entries and the file keeps the types.
LEMMA EntriesOnlyType ==
  ASSUME BankTypeOK, NEW b \in Bank, NEW t \in Tx, NEW op \in Operation,
         UNCHANGED <<users, saving, csv, debits, credits, overlapped>>,
         \/ UNCHANGED <<pending, pendingFile>>
         \/ pending' = [pending EXCEPT ![b][t] = op] /\ pendingFile' = pending'[b]
  PROVE  BankTypeOK'
<1>1. pending' \in [Bank -> [Tx -> Operation]] /\ pendingFile' \in [Tx -> Operation]
  BY EntryType DEF BankTypeOK
<1> QED
  BY <1>1 DEF BankTypeOK, IsAccounts

LEMMA BankServesType ==
  ASSUME TypeOK, NEW c \in Call, NEW k \in Kind, BankServes(c, k)
  PROVE  TypeOK'
<1> DEFINE b == Target(c, k)
           t == TxOf[c]
<1>0. /\ b \in Bank /\ t \in Tx
      /\ UNCHANGED procVars /\ UNCHANGED gatewayVars
      /\ GatewayTypeOK'
  BY Constants, GatewayUnchanged DEF TypeOK, BankServes
<1>1. CASE Prepare(c, k)
  <2>1. /\ UNCHANGED <<users, saving, csv, debits, credits, overlapped>>
        /\ \/ UNCHANGED <<pending, pendingFile>>
           \/ /\ pending' = [pending EXCEPT ![b][t] = OperationOf(k)]
              /\ pendingFile' = pending'[b]
    BY <1>1 DEF Prepare, history
  <2>3. OperationOf(k) \in Operation
    BY DEF OperationOf, Operation
  <2>4. BankTypeOK'
    BY <1>0, <2>1, <2>3, EntriesOnlyType DEF TypeOK
  <2>2. \E a \in {"yes", "no"} : Answer(c, k, a) /\ UNCHANGED client
    BY <1>1 DEF Prepare
  <2> QED
    BY <1>0, <2>4, <2>2, AnswerType DEF TypeOK, RpcState
<1>2. CASE CommitUnknown(c, k)
  <2>1. BankTypeOK'
    BY <1>2, BankUnchanged DEF TypeOK, CommitUnknown
  <2> QED
    BY <1>0, <1>2, <2>1, AnswerType DEF TypeOK, RpcState, CommitUnknown
<1>3. CASE CommitApply(c, k)
  <2> DEFINE op == pending[b][t]
             u == Account(t, op)
  <2>1. /\ users' = [users EXCEPT ![b] =
                      SetBalance(users[b], u, BalanceOf(users[b], u) + Change(t, op))]
        /\ saving' = [saving EXCEPT ![b] = [stage |-> "read", user |-> u]]
        /\ debits' = debits \/ debits' = [debits EXCEPT ![t] = @ + 1]
        /\ credits' = credits \/ credits' = [credits EXCEPT ![t] = @ + 1]
        /\ \/ UNCHANGED <<pending, pendingFile>>
           \/ /\ pending' = [pending EXCEPT ![b][t] = "none"]
              /\ pendingFile' = pending'[b]
        /\ overlapped' \in BOOLEAN
        /\ UNCHANGED <<client, csv>>
    BY <1>0, <1>3 DEF CommitApply, TypeOK, BankTypeOK
  <2>2. u \in User /\ Change(t, op) \in Int
    BY <1>0, AccountType
  <2>3. IsAccounts(users'[b])
    <3>1. IsAccounts(users[b])
      BY <1>0 DEF TypeOK, BankTypeOK
    <3>2. BalanceOf(users[b], u) + Change(t, op) \in Int
      BY <2>2, <3>1, BalanceOfType
    <3>3. IsAccounts(SetBalance(users[b], u, BalanceOf(users[b], u) + Change(t, op)))
      BY <2>2, <3>1, <3>2, SetBalanceType
    <3> QED
      BY <1>0, <2>1, <3>3 DEF TypeOK, BankTypeOK
  <2>4. users' = [d \in Bank |-> users'[d]] /\ \A d \in Bank : IsAccounts(users'[d])
    BY <1>0, <2>1, <2>3 DEF TypeOK, BankTypeOK
  <2>5. /\ pending' \in [Bank -> [Tx -> Operation]]
        /\ pendingFile' \in [Tx -> Operation]
    BY <1>0, <2>1, EntryType DEF TypeOK, BankTypeOK, Operation
  <2>6. /\ debits' \in [Tx -> Nat] /\ credits' \in [Tx -> Nat]
    <3>1. [debits EXCEPT ![t] = @ + 1] \in [Tx -> Nat]
      BY <1>0, CountType DEF TypeOK, BankTypeOK
    <3>2. [credits EXCEPT ![t] = @ + 1] \in [Tx -> Nat]
      BY <1>0, CountType DEF TypeOK, BankTypeOK
    <3> QED
      BY <2>1, <3>1, <3>2 DEF TypeOK, BankTypeOK
  <2>7. saving' \in [Bank -> [stage: Stage, user: User \cup {"none"}]]
    BY <1>0, <2>1, <2>2 DEF TypeOK, BankTypeOK, Stage
  <2>8. IsAccounts(csv')
    BY <2>1 DEF TypeOK, BankTypeOK, IsAccounts
  <2>9. BankTypeOK'
    BY <2>1, <2>4, <2>5, <2>6, <2>7, <2>8 DEF BankTypeOK
  <2> QED
    BY <1>0, <1>3, <2>1, <2>9, AnswerType DEF TypeOK, CommitApply, RpcState
<1>4. CASE SaveFlush(c, k)
  <2>1. BankTypeOK'
    <3>1. IsAccounts(csv')
      BY <1>0, <1>4 DEF TypeOK, BankTypeOK, SaveFlush
    <3> QED
      BY <1>0, <1>4, <3>1 DEF TypeOK, BankTypeOK, SaveFlush, history, Idle, Stage
  <2> QED
    BY <1>0, <1>4, <2>1, AnswerType DEF TypeOK, SaveFlush, RpcState
<1>5. CASE Abort(c, k)
  <2>1. /\ UNCHANGED <<users, saving, csv, debits, credits, overlapped>>
        /\ \/ UNCHANGED <<pending, pendingFile>>
           \/ /\ pending' = [pending EXCEPT ![b][t] = "none"]
              /\ pendingFile' = pending'[b]
    BY <1>5 DEF Abort, history
  <2>4. BankTypeOK'
    BY <1>0, <2>1, EntriesOnlyType DEF TypeOK, Operation
  <2>2. \E a \in {"yes", "no"} : Answer(c, k, a) /\ UNCHANGED client
    BY <1>5 DEF Abort
  <2> QED
    BY <1>0, <2>4, <2>2, AnswerType DEF TypeOK, RpcState
<1> QED
  BY <1>1, <1>2, <1>3, <1>4, <1>5 DEF BankServes

LEMMA BankSavesType ==
  ASSUME TypeOK, NEW b \in Bank, BankSaves(b)
  PROVE  TypeOK'
<1>0. /\ UNCHANGED <<rpcVars, procVars, gatewayVars>>
      /\ UNCHANGED <<pending, pendingFile, debits, credits, overlapped>>
  BY DEF BankSaves, SaveRead, SaveTruncate, history
<1>1. PaymentsTypeOK' /\ GatewayTypeOK'
  BY <1>0, GatewayUnchanged DEF TypeOK, PaymentsTypeOK, rpcVars, procVars
<1>2. CASE SaveRead(b)
  <2>1. IsAccounts(Refresh(users[b], csv, saving[b].user))
    BY RefreshType DEF TypeOK, BankTypeOK
  <2>2. users' = [d \in Bank |-> users'[d]] /\ \A d \in Bank : IsAccounts(users'[d])
    BY <1>2, <2>1 DEF TypeOK, BankTypeOK, SaveRead
  <2>3. saving' \in [Bank -> [stage: Stage, user: User \cup {"none"}]]
    BY <1>2 DEF TypeOK, BankTypeOK, SaveRead, Stage
  <2>4. csv' = csv
    BY <1>2 DEF SaveRead
  <2> QED
    BY <1>0, <1>1, <2>2, <2>3, <2>4 DEF TypeOK, BankTypeOK, IsAccounts
<1>3. CASE SaveTruncate(b)
  <2>1. IsAccounts(csv')
    BY <1>3 DEF SaveTruncate, IsAccounts, NoAccounts
  <2>2. saving' \in [Bank -> [stage: Stage, user: User \cup {"none"}]]
    BY <1>3 DEF TypeOK, BankTypeOK, SaveTruncate, Stage
  <2>3. users' = users
    BY <1>3 DEF SaveTruncate
  <2> QED
    BY <1>0, <1>1, <2>1, <2>2, <2>3 DEF TypeOK, BankTypeOK
<1> QED
  BY <1>2, <1>3 DEF BankSaves

LEMMA BankCleansType ==
  ASSUME TypeOK, NEW b \in Bank, NEW S \in SUBSET MayGoStale, BankCleans(b, S)
  PROVE  TypeOK'
<1>0. /\ UNCHANGED <<rpcVars, procVars, gatewayVars>>
      /\ UNCHANGED <<users, saving, csv, debits, credits, overlapped>>
  BY DEF BankCleans, CleanupStale, history
<1>1. PaymentsTypeOK' /\ GatewayTypeOK'
  BY <1>0, GatewayUnchanged DEF TypeOK, PaymentsTypeOK, rpcVars, procVars
<1>2. DeleteStale(b, S) \in [Tx -> Operation]
  BY DEF DeleteStale, TypeOK, BankTypeOK, Operation
<1>3. pending' \in [Bank -> [Tx -> Operation]] /\ pendingFile' \in [Tx -> Operation]
  BY <1>2 DEF BankCleans, CleanupStale, TypeOK, BankTypeOK
<1> QED
  BY <1>0, <1>1, <1>3 DEF TypeOK, BankTypeOK, IsAccounts

LEMMA BankComesUpType ==
  ASSUME TypeOK, NEW b \in Bank, BankComesUp(b) \/ BankDies(b)
  PROVE  TypeOK'
<1>1. CASE Start(b) /\ UNCHANGED gatewayVars
  <2>1. PaymentsTypeOK' /\ GatewayTypeOK'
    BY <1>1, GatewayUnchanged DEF TypeOK, PaymentsTypeOK, Start, rpcVars, Phase
  <2>2. users' = [d \in Bank |-> users'[d]] /\ \A d \in Bank : IsAccounts(users'[d])
    BY <1>1 DEF TypeOK, BankTypeOK, Start
  <2> QED
    BY <1>1, <2>1, <2>2 DEF TypeOK, BankTypeOK, Start, fileVars, history, IsAccounts
<1>2. CASE Serve(b) /\ UNCHANGED gatewayVars
  <2>1. PaymentsTypeOK' /\ GatewayTypeOK'
    BY <1>2, GatewayUnchanged DEF TypeOK, PaymentsTypeOK, Serve, rpcVars, Phase
  <2>2. pending' \in [Bank -> [Tx -> Operation]]
    BY <1>2 DEF TypeOK, BankTypeOK, Serve, NothingPending, Operation
  <2> QED
    BY <1>2, <2>1, <2>2 DEF TypeOK, BankTypeOK, Serve, fileVars, history, IsAccounts
<1>3. CASE RegisterServer(b) /\ UNCHANGED bankVars
  <2>1. PaymentsTypeOK'
    BY <1>3 DEF TypeOK, PaymentsTypeOK, RegisterServer, rpcVars, Phase
  <2>2. GatewayTypeOK'
    BY <1>3 DEF TypeOK, PaymentsTypeOK, GatewayTypeOK, RegisterServer
  <2> QED
    BY <1>3, <2>1, <2>2, BankUnchanged DEF TypeOK
<1>4. CASE RegisterFails(b) /\ UNCHANGED bankVars
  <2>1. PaymentsTypeOK'
    BY <1>4 DEF TypeOK, PaymentsTypeOK, RegisterFails, rpcVars, Phase
  <2> QED
    BY <1>4, <2>1, BankUnchanged, GatewayUnchanged DEF TypeOK, RegisterFails
<1>5. CASE BankDies(b)
  <2>1. PaymentsTypeOK' /\ GatewayTypeOK'
    BY <1>5, GatewayUnchanged DEF TypeOK, PaymentsTypeOK, BankDies, BankCrash, rpcVars, Phase
  <2>2. users' = [d \in Bank |-> users'[d]] /\ \A d \in Bank : IsAccounts(users'[d])
    BY <1>5 DEF TypeOK, BankTypeOK, BankDies, BankCrash, IsAccounts, NoAccounts
  <2>3. pending' \in [Bank -> [Tx -> Operation]]
    BY <1>5 DEF TypeOK, BankTypeOK, BankDies, BankCrash, NothingPending, Operation
  <2>4. saving' \in [Bank -> [stage: Stage, user: User \cup {"none"}]]
    BY <1>5 DEF TypeOK, BankTypeOK, BankDies, BankCrash, Idle, Stage
  <2>5. overlapped' \in BOOLEAN
    BY <1>5 DEF BankDies, BankCrash
  <2> QED
    BY <1>5, <2>1, <2>2, <2>3, <2>4, <2>5
       DEF TypeOK, BankTypeOK, BankDies, BankCrash, fileVars, IsAccounts
<1> QED
  BY <1>1, <1>2, <1>3, <1>4, <1>5 DEF BankComesUp

-----------------------------------------------------------------------------
\* Sending a request and going to a label keep the types.
LEMMA SendType ==
  ASSUME PaymentsTypeOK, GatewayTypeOK, NEW c \in Call, NEW k \in Kind, Send(c, k)
  PROVE  /\ rpc' \in [Call -> [Kind -> RpcState]]
         /\ pc' \in [Call -> {"idle"} \cup Running \cup Ended]
<1>1. rpc' \in [Call -> [Kind -> RpcState]]
  BY DEF PaymentsTypeOK, Send, RpcState
<1>2. k \in Running
  BY DEF Running
<1> QED
  BY <1>1, <1>2 DEF GatewayTypeOK, Send, Goto

LEMMA GotoType ==
  ASSUME GatewayTypeOK, NEW c \in Call, NEW l \in {"idle"} \cup Running \cup Ended, Goto(c, l)
  PROVE  pc' \in [Call -> {"idle"} \cup Running \cup Ended]
BY DEF GatewayTypeOK, Goto

LEMMA LogType ==
  ASSUME GatewayTypeOK, NEW t \in Tx
  PROVE  /\ [transactionLogs EXCEPT ![t] = NewLog] \in [Tx -> TransactionLog]
         /\ [transactionLogs EXCEPT ![t].sourcePrepared = TRUE] \in [Tx -> TransactionLog]
         /\ [transactionLogs EXCEPT ![t].destPrepared = TRUE, ![t].status = "prepared"]
              \in [Tx -> TransactionLog]
         /\ \A s \in Status : [transactionLogs EXCEPT ![t].status = s] \in [Tx -> TransactionLog]
<1>1. NewLog \in TransactionLog
  BY DEF NewLog, NoLog, TransactionLog, Status
<1>2. "prepared" \in Status
  BY DEF Status
<1> QED
  BY <1>1, <1>2 DEF GatewayTypeOK, TransactionLog

LEMMA PaymentBeginsType ==
  ASSUME TypeOK, NEW c \in Call, PaymentBegins(c)
  PROVE  TypeOK'
<1>0. /\ TxOf[c] \in Tx
      /\ UNCHANGED <<procVars, registry, logFile, cancelled>>
      /\ BankTypeOK'
  BY Constants, BankUnchanged DEF TypeOK, PaymentBegins, BeginPayment
<1>1. "done" \in {"idle"} \cup Running \cup Ended /\ "prepareSource" \in Kind
  BY DEF Ended, Kind, PrepareKind
<1>2. CASE RejectPayment(c)
  <2>1. pc' \in [Call -> {"idle"} \cup Running \cup Ended]
    BY <1>1, <1>2, GotoType DEF TypeOK, RejectPayment
  <2>2. reply' \in [Call -> Reply]
    BY <1>2 DEF TypeOK, GatewayTypeOK, RejectPayment, Reply
  <2> QED
    BY <1>0, <1>2, <2>1, <2>2
       DEF TypeOK, PaymentsTypeOK, GatewayTypeOK, RejectPayment, rpcVars, procVars, registry
<1>3. CASE AcceptPayment(c)
  <2> DEFINE src == bankservers_conns[Pay(c).fromBank]
             dst == bankservers_conns[Pay(c).toBank]
  <2>1. transactions' \subseteq Tx /\ transactionLogs' \in [Tx -> TransactionLog]
    BY <1>0, <1>3, LogType DEF TypeOK, GatewayTypeOK, AcceptPayment
  <2>2. CASE /\ Goto(c, "done")
             /\ reply' = [reply EXCEPT ![c] = "failed"]
             /\ UNCHANGED rpcVars
    <3>1. pc' \in [Call -> {"idle"} \cup Running \cup Ended]
      BY <1>1, <2>2, GotoType DEF TypeOK
    <3>2. reply' \in [Call -> Reply]
      BY <2>2 DEF TypeOK, GatewayTypeOK, Reply
    <3> QED
      BY <1>0, <2>1, <2>2, <3>1, <3>2
         DEF TypeOK, PaymentsTypeOK, GatewayTypeOK, rpcVars, procVars, registry
  <2>3. CASE /\ client' = [client EXCEPT ![c] = [k \in Kind |->
                   IF k \in AbortKind THEN @[k]
                   ELSE IF k \in SourceKind THEN src ELSE dst]]
             /\ Send(c, "prepareSource")
             /\ UNCHANGED reply
    <3>1. src \in Nat /\ dst \in Nat
      BY Constants DEF TypeOK, GatewayTypeOK, PaymentDetails
    <3>2. client' \in [Call -> [Kind -> Nat]]
      BY <2>3, <3>1 DEF TypeOK, PaymentsTypeOK
    <3>3. /\ rpc' \in [Call -> [Kind -> RpcState]]
          /\ pc' \in [Call -> {"idle"} \cup Running \cup Ended]
      BY <1>1, <2>3, SendType DEF TypeOK
    <3> QED
      BY <1>0, <2>1, <2>3, <3>2, <3>3
         DEF TypeOK, PaymentsTypeOK, GatewayTypeOK, procVars, registry
  <2> QED
    BY <1>3, <2>2, <2>3 DEF AcceptPayment
<1> QED
  BY <1>2, <1>3 DEF PaymentBegins, BeginPayment

LEMMA FinishType ==
  ASSUME GatewayTypeOK, NEW c \in Call, NEW s \in Status, Finish(c, s)
  PROVE  /\ transactionLogs' \in [Tx -> TransactionLog]
         /\ pc' \in [Call -> {"idle"} \cup Running \cup Ended]
<1>1. "persist" \in {"idle"} \cup Running \cup Ended
  BY DEF Running
<1> QED
  BY <1>1, Constants, LogType, GotoType DEF Finish

LEMMA PaymentGoesOnType ==
  ASSUME TypeOK, NEW c \in Call, PaymentGoesOn(c)
  PROVE  TypeOK'
<1>0. TxOf[c] \in Tx /\ BankTypeOK'
  BY Constants, BankUnchanged DEF TypeOK, PaymentGoesOn
<1>1. /\ Kind \subseteq {"idle"} \cup Running \cup Ended
      /\ "done" \in {"idle"} \cup Running \cup Ended
      /\ {"prepareDest", "commitSource", "commitDest", "abortSource", "abortDest"} \subseteq Kind
      /\ {"committed", "partial-commit", "aborted"} \subseteq Status
  BY DEF Running, Ended, Kind, PrepareKind, CommitKind, AbortKind, Status
<1>2. CASE PrepareSourceReturns(c)
  <2>1. transactionLogs' \in [Tx -> TransactionLog]
    <3>1. \/ transactionLogs' = transactionLogs
          \/ transactionLogs' = [transactionLogs EXCEPT ![TxOf[c]].sourcePrepared = TRUE]
      BY <1>2 DEF PrepareSourceReturns
    <3>2. GatewayTypeOK
      BY DEF TypeOK
    <3>3. [transactionLogs EXCEPT ![TxOf[c]].sourcePrepared = TRUE]
            \in [Tx -> TransactionLog]
      BY <1>0, <3>2, LogType
    <3>4. transactionLogs \in [Tx -> TransactionLog]
      BY <3>2 DEF GatewayTypeOK
    <3> QED
      BY <3>1, <3>3, <3>4
  <2>2. Send(c, "prepareDest") \/ (Goto(c, "abortSource") /\ UNCHANGED rpc)
    BY <1>2 DEF PrepareSourceReturns, StartAbort
  <2>3. /\ rpc' \in [Call -> [Kind -> RpcState]]
        /\ pc' \in [Call -> {"idle"} \cup Running \cup Ended]
    BY <1>1, <2>2, SendType, GotoType DEF TypeOK, PaymentsTypeOK
  <2> QED
    BY <1>0, <1>2, <2>1, <2>3
       DEF TypeOK, PaymentsTypeOK, GatewayTypeOK, PrepareSourceReturns, procVars, registry
<1>3. CASE PrepareDestReturns(c)
  <2>1. transactionLogs' \in [Tx -> TransactionLog]
    <3>1. \/ transactionLogs' = transactionLogs
          \/ transactionLogs' = [transactionLogs EXCEPT ![TxOf[c]].destPrepared = TRUE,
                                                    ![TxOf[c]].status = "prepared"]
      BY <1>3 DEF PrepareDestReturns
    <3>2. GatewayTypeOK
      BY DEF TypeOK
    <3>3. [transactionLogs EXCEPT ![TxOf[c]].destPrepared = TRUE,
                                  ![TxOf[c]].status = "prepared"]
            \in [Tx -> TransactionLog]
      BY <1>0, <3>2, LogType
    <3>4. transactionLogs \in [Tx -> TransactionLog]
      BY <3>2 DEF GatewayTypeOK
    <3> QED
      BY <3>1, <3>3, <3>4
  <2>2. Send(c, "commitSource") \/ (Goto(c, "abortSource") /\ UNCHANGED rpc)
    BY <1>3 DEF PrepareDestReturns, StartAbort
  <2>3. /\ rpc' \in [Call -> [Kind -> RpcState]]
        /\ pc' \in [Call -> {"idle"} \cup Running \cup Ended]
    BY <1>1, <2>2, SendType, GotoType DEF TypeOK, PaymentsTypeOK
  <2> QED
    BY <1>0, <1>3, <2>1, <2>3
       DEF TypeOK, PaymentsTypeOK, GatewayTypeOK, PrepareDestReturns, procVars, registry
<1>4. CASE CommitSourceReturns(c)
  <2>2. Send(c, "commitDest") \/ (Goto(c, "abortSource") /\ UNCHANGED rpc)
    BY <1>4 DEF CommitSourceReturns, AfterCommitSource, StartAbort
  <2>3. /\ rpc' \in [Call -> [Kind -> RpcState]]
        /\ pc' \in [Call -> {"idle"} \cup Running \cup Ended]
    BY <1>1, <2>2, SendType, GotoType DEF TypeOK, PaymentsTypeOK
  <2> QED
    BY <1>0, <1>4, <2>3
       DEF TypeOK, PaymentsTypeOK, GatewayTypeOK, CommitSourceReturns, procVars, registry
<1>5. CASE CommitDestReturns(c)
  <2>1. \E s \in Status : Finish(c, s)
    BY <1>1, <1>5 DEF CommitDestReturns, PartialCommit
  <2>2. /\ transactionLogs' \in [Tx -> TransactionLog]
        /\ pc' \in [Call -> {"idle"} \cup Running \cup Ended]
    BY <2>1, FinishType DEF TypeOK
  <2> QED
    BY <1>0, <1>5, <2>2
       DEF TypeOK, PaymentsTypeOK, GatewayTypeOK, CommitDestReturns, rpcVars, procVars, registry
<1>6. CASE AbortSourceReturns(c)
  <2>1. pc' \in [Call -> {"idle"} \cup Running \cup Ended]
    BY <1>1, <1>6, GotoType DEF TypeOK, AbortSourceReturns
  <2> QED
    BY <1>0, <1>6, <2>1
       DEF TypeOK, PaymentsTypeOK, GatewayTypeOK, AbortSourceReturns, rpcVars, procVars, registry
<1>7. CASE AbortDestReturns(c)
  <2>1. \E s \in Status : Finish(c, s)
    BY <1>1, <1>7 DEF AbortDestReturns
  <2>2. /\ transactionLogs' \in [Tx -> TransactionLog]
        /\ pc' \in [Call -> {"idle"} \cup Running \cup Ended]
    BY <2>1, FinishType DEF TypeOK
  <2> QED
    BY <1>0, <1>7, <2>2
       DEF TypeOK, PaymentsTypeOK, GatewayTypeOK, AbortDestReturns, rpcVars, procVars, registry
<1>8. CASE PersistTransactionLogs(c)
  <2>1. pc' \in [Call -> {"idle"} \cup Running \cup Ended]
    BY <1>1, <1>8, GotoType DEF TypeOK, PersistTransactionLogs, Written
  <2>2. reply' \in [Call -> Reply]
    BY <1>8 DEF TypeOK, GatewayTypeOK, PersistTransactionLogs, Written, Reply
  <2> QED
    BY <1>0, <1>8, <2>1, <2>2
       DEF TypeOK, PaymentsTypeOK, GatewayTypeOK, PersistTransactionLogs, Written, rpcVars, procVars,
           registry
<1>9. ASSUME NEW k \in AbortKind, SendAbort(c, k) PROVE TypeOK'
  <2>1. k \in Kind /\ Target(c, k) \in Bank
    BY Constants DEF Kind
  <2>2. client' \in [Call -> [Kind -> Nat]]
    BY <1>9, <2>1 DEF TypeOK, PaymentsTypeOK, GatewayTypeOK, SendAbort
  <2>3. /\ rpc' \in [Call -> [Kind -> RpcState]]
        /\ pc' \in [Call -> {"idle"} \cup Running \cup Ended]
    BY <1>9, <2>1, SendType DEF TypeOK, SendAbort
  <2> QED
    BY <1>0, <1>9, <2>2, <2>3
       DEF TypeOK, PaymentsTypeOK, GatewayTypeOK, SendAbort, procVars, registry
<1> QED
  BY <1>2, <1>3, <1>4, <1>5, <1>6, <1>7, <1>8, <1>9 DEF PaymentGoesOn, GatewayHandler

LEMMA OthersType ==
  ASSUME TypeOK,
         \/ \E u \in User, b \in Bank : ClientLogsIn(u, b)
         \/ \E u \in Mortal : ClientFails(u)
         \/ GatewayFails
         \/ GatewayComesUp
  PROVE  TypeOK'
<1>1. ASSUME NEW u \in User, NEW b \in Bank, ClientLogsIn(u, b) PROVE TypeOK'
  BY <1>1, BankUnchanged
     DEF TypeOK, PaymentsTypeOK, GatewayTypeOK, ClientLogsIn, RegisterClient, rpcVars, procVars
<1>2. ASSUME NEW u \in Mortal, ClientFails(u) PROVE TypeOK'
  BY <1>2, BankUnchanged
     DEF TypeOK, PaymentsTypeOK, GatewayTypeOK, ClientFails, ClientDies, rpcVars, procVars,
         registry
<1>3. CASE GatewayFails
  <2>1. GatewayDies /\ BankTypeOK'
    BY <1>3, BankUnchanged DEF TypeOK, GatewayFails, GatewayCrash, FatalBankCall
  <2>2. NoLogs \in [Tx -> TransactionLog]
    BY DEF NoLogs, NoLog, TransactionLog, Status
  <2>3. pc' \in [Call -> {"idle"} \cup Running \cup Ended]
    BY <2>1 DEF TypeOK, GatewayTypeOK, GatewayDies, Ended
  <2> QED
    BY <2>1, <2>2, <2>3
       DEF TypeOK, PaymentsTypeOK, GatewayTypeOK, GatewayDies, rpcVars, procVars
<1>4. CASE GatewayComesUp
  BY <1>4, BankUnchanged
     DEF TypeOK, PaymentsTypeOK, GatewayTypeOK, GatewayComesUp, GatewayRestart,
         LoadTransactionLogs, rpcVars, procVars
<1> QED
  BY <1>1, <1>2, <1>3, <1>4

LEMMA TypeStep == TypeOK /\ [Next]_vars => TypeOK'
<1>1. CASE UNCHANGED vars
  BY <1>1, BankUnchanged, GatewayUnchanged DEF vars, TypeOK, PaymentsTypeOK
<1> QED
  BY <1>1, BankServesType, BankSavesType, BankCleansType, BankComesUpType, PaymentBeginsType,
     PaymentGoesOnType, OthersType DEF Next

(***************************************************************************)
(* Every variable of the gateway and the banks keeps its type, whatever    *)
(* main.go of either process does: no account, entry or status appears     *)
(* that the files could not hold.                                          *)
(***************************************************************************)
THEOREM TypeCorrect == Spec => []TypeOK
  BY InitType, TypeStep, PTL DEF Spec

-----------------------------------------------------------------------------
\* What a bank does to the remote calls when it serves one.
LEMMA BankServesEffect ==
  ASSUME NEW c \in Call, NEW k \in Kind, BankServes(c, k)
  PROVE  /\ UNCHANGED <<client, procVars, gatewayVars>>
         /\ Reachable(c, k)
         /\ \/ rpc[c][k] = "sent" /\ \E a \in {"busy", "yes", "no"} : Answer(c, k, a)
            \/ k \in CommitKind /\ rpc[c][k] = "busy" /\ Answer(c, k, "yes")
BY DEF BankServes, Prepare, CommitUnknown, CommitApply, SaveFlush, Abort, Served

\* An invocation that a step does not concern stays in order.
LEMMA OthersInOrder ==
  ASSUME NEW d \in Call, InOrder(d),
         rpc'[d] = rpc[d], pc'[d] = pc[d], transactions \subseteq transactions',
         d \in cancelled' => d \in cancelled \/ pc[d] # "idle"
  PROVE  InOrder(d)'
BY DEF InOrder, Owner, Over

LEMMA ServedInOrder ==
  ASSUME TypeOK, CallsInOrder, OneOwner, NEW c \in Call, NEW k \in Kind, BankServes(c, k)
  PROVE  CallsInOrder' /\ OneOwner'
<1>1. /\ UNCHANGED <<pc, transactions, cancelled>>
      /\ rpc[c][k] \in {"sent", "busy"}
      /\ \E a \in {"busy", "yes", "no"} : rpc' = [rpc EXCEPT ![c][k] = a]
  BY BankServesEffect DEF gatewayVars, Answer
<1>2. /\ rpc \in [Call -> [Kind -> RpcState]]
      /\ \A d \in Call \ {c} : rpc'[d] = rpc[d]
      /\ \A j \in Kind \ {k} : rpc'[c][j] = rpc[c][j]
      /\ rpc'[c][k] \in {"busy", "yes", "no"}
  BY <1>1 DEF TypeOK, PaymentsTypeOK
<1>3. "prepareSource" \in Kind /\ "prepareDest" \in Kind
      /\ "commitSource" \in Kind /\ "commitDest" \in Kind
  BY DEF Kind, PrepareKind, CommitKind
<1>4. InOrder(c)'
  <2>1. InOrder(c)
    BY DEF CallsInOrder
  <2> QED
    BY <1>1, <1>2, <1>3, <2>1 DEF InOrder, Owner, Over
<1>5. ASSUME NEW d \in Call \ {c} PROVE InOrder(d)'
  BY <1>1, <1>2, OthersInOrder DEF CallsInOrder
<1>6. \A d \in Call : Owner(d)' => Owner(d)
  BY <1>1, <1>2, <1>3 DEF Owner
<1> QED
  BY <1>4, <1>5, <1>6 DEF CallsInOrder, OneOwner

LEMMA BeginInOrder ==
  ASSUME TypeOK, CallsInOrder, OneOwner, NEW c \in Call, PaymentBegins(c)
  PROVE  CallsInOrder' /\ OneOwner'
<1>1. pc[c] = "idle" /\ UNCHANGED cancelled /\ InOrder(c)
  BY DEF PaymentBegins, BeginPayment, CallsInOrder
<1>2. /\ rpc \in [Call -> [Kind -> RpcState]]
      /\ pc \in [Call -> {"idle"} \cup Running \cup Ended]
  BY DEF TypeOK, PaymentsTypeOK, GatewayTypeOK
<1>3. "prepareSource" \in Kind /\ "prepareDest" \in Kind
      /\ "commitSource" \in Kind /\ "commitDest" \in Kind
  BY DEF Kind, PrepareKind, CommitKind
<1>4. CASE /\ UNCHANGED rpc /\ Goto(c, "done")
           /\ transactions \subseteq transactions'
  <2>1. pc' = [pc EXCEPT ![c] = "done"]
    BY <1>4 DEF Goto
  <2>2. InOrder(c)'
    BY <1>1, <1>2, <1>3, <1>4, <2>1 DEF InOrder, Owner, Over, Running, Kind, PrepareKind,
       CommitKind, AbortKind
  <2>3. ASSUME NEW d \in Call \ {c} PROVE InOrder(d)'
    BY <1>1, <1>2, <1>4, <2>1, OthersInOrder DEF CallsInOrder
  <2>4. \A d \in Call : Owner(d)' <=> Owner(d)
    BY <1>4 DEF Owner
  <2> QED
    BY <2>2, <2>3, <2>4 DEF CallsInOrder, OneOwner
<1>5. CASE /\ Send(c, "prepareSource")
           /\ TxOf[c] \notin transactions
           /\ transactions' = transactions \cup {TxOf[c]}
  <2>1. /\ pc' = [pc EXCEPT ![c] = "prepareSource"]
        /\ rpc' = [rpc EXCEPT ![c]["prepareSource"] = "sent"]
    BY <1>1, <1>5 DEF Send, Goto, InOrder
  <2>2. /\ pc'[c] = "prepareSource"
        /\ rpc'[c]["prepareSource"] = "sent"
        /\ \A k \in Kind \ {"prepareSource"} : rpc'[c][k] = "none"
        /\ \A d \in Call \ {c} : rpc'[d] = rpc[d] /\ pc'[d] = pc[d]
    BY <1>1, <1>2, <1>3, <2>1 DEF InOrder
  <2>3. InOrder(c)'
    BY <1>3, <1>5, <2>2 DEF InOrder, Owner, Over
  <2>4. ASSUME NEW d \in Call \ {c} PROVE InOrder(d)'
    BY <1>1, <1>5, <2>2, OthersInOrder DEF CallsInOrder
  <2>5. ASSUME NEW d \in Call \ {c}, Owner(d)' PROVE TxOf[d] # TxOf[c] /\ Owner(d)
    BY <1>3, <1>5, <2>2, <2>5 DEF CallsInOrder, InOrder, Owner
  <2> QED
    BY <2>3, <2>4, <2>5 DEF CallsInOrder, OneOwner
<1>6. \/ /\ UNCHANGED rpc /\ Goto(c, "done")
         /\ transactions \subseteq transactions'
      \/ /\ Send(c, "prepareSource")
         /\ TxOf[c] \notin transactions
         /\ transactions' = transactions \cup {TxOf[c]}
  BY DEF PaymentBegins, BeginPayment, RejectPayment, AcceptPayment, Seen, rpcVars
<1> QED
  BY <1>4, <1>5, <1>6

\* Invocation c moves on and stays in order; nothing else moves.
LEMMA MoveInOrder ==
  ASSUME CallsInOrder, OneOwner, NEW c \in Call,
         UNCHANGED <<transactions, cancelled>>,
         \A d \in Call \ {c} : rpc'[d] = rpc[d] /\ pc'[d] = pc[d],
         Owner(c), InOrder(c)'
  PROVE  CallsInOrder' /\ OneOwner'
<1>1. ASSUME NEW d \in Call \ {c} PROVE InOrder(d)'
  BY OthersInOrder DEF CallsInOrder
<1>2. \A d \in Call : Owner(d)' => Owner(d)
  BY DEF Owner
<1> QED
  BY <1>1, <1>2 DEF CallsInOrder, OneOwner

\* What Send and Goto do to the tables.
LEMMA SendEffect ==
  ASSUME TypeOK, NEW c \in Call, NEW k \in Kind, Send(c, k)
  PROVE  /\ pc'[c] = k
         /\ rpc'[c][k] = IF c \in cancelled THEN rpc[c][k] ELSE "sent"
         /\ \A j \in Kind \ {k} : rpc'[c][j] = rpc[c][j]
         /\ \A d \in Call \ {c} : rpc'[d] = rpc[d] /\ pc'[d] = pc[d]
<1>1. /\ rpc \in [Call -> [Kind -> RpcState]]
      /\ pc \in [Call -> {"idle"} \cup Running \cup Ended]
  BY DEF TypeOK, PaymentsTypeOK, GatewayTypeOK
<1> QED
  BY <1>1 DEF Send, Goto

LEMMA GotoEffect ==
  ASSUME TypeOK, NEW c \in Call, NEW l, Goto(c, l)
  PROVE  pc'[c] = l /\ \A d \in Call \ {c} : pc'[d] = pc[d]
BY DEF TypeOK, GatewayTypeOK, Goto

LEMMA GoesOnInOrder ==
  ASSUME TypeOK, CallsInOrder, OneOwner, NEW c \in Call, PaymentGoesOn(c)
  PROVE  CallsInOrder' /\ OneOwner'
<1> USE DEF Kind, PrepareKind, CommitKind, AbortKind
<1>1. InOrder(c)
  BY DEF CallsInOrder
<1>2. UNCHANGED <<transactions, cancelled>>
  BY DEF PaymentGoesOn, GatewayHandler, PrepareSourceReturns, PrepareDestReturns,
         CommitSourceReturns, CommitDestReturns, AbortSourceReturns, AbortDestReturns,
         PersistTransactionLogs, Written, SendAbort
<1>3. ASSUME NEW k \in Kind, NEW j \in Kind, Accepted(c, k), Send(c, j),
             \/ k = "prepareSource" /\ j = "prepareDest"
             \/ k = "prepareDest" /\ j = "commitSource"
             \/ k = "commitSource" /\ j = "commitDest"
      PROVE  CallsInOrder' /\ OneOwner'
  <2>1. /\ pc'[c] = j
        /\ rpc'[c][j] \in {rpc[c][j], "sent"}
        /\ \A i \in Kind \ {j} : rpc'[c][i] = rpc[c][i]
        /\ \A d \in Call \ {c} : rpc'[d] = rpc[d] /\ pc'[d] = pc[d]
    BY <1>3, SendEffect
  <2>2. pc[c] = k /\ rpc[c][k] = "yes" /\ Owner(c)
    BY <1>1, <1>3 DEF Accepted, InOrder
  <2>3. InOrder(c)'
    BY <1>1, <1>2, <1>3, <2>1, <2>2 DEF InOrder, Owner, Over, Running
  <2> QED
    BY <1>2, <2>1, <2>2, <2>3, MoveInOrder
<1>4. ASSUME NEW l \in {"abortSource", "abortDest"}, Goto(c, l), UNCHANGED rpc,
             pc[c] \in Running, rpc[c]["commitDest"] = "none"
      PROVE  CallsInOrder' /\ OneOwner'
  <2>1. pc'[c] = l /\ \A d \in Call \ {c} : pc'[d] = pc[d]
    BY <1>4, GotoEffect
  <2>2. InOrder(c)'
    BY <1>1, <1>2, <1>4, <2>1 DEF InOrder, Owner, Over, Running
  <2>3. Owner(c)
    BY <1>1, <1>4 DEF InOrder
  <2> QED
    BY <1>2, <1>4, <2>1, <2>2, <2>3, MoveInOrder
<1>5. ASSUME NEW l \in {"persist", "done"}, Goto(c, l), UNCHANGED rpc, pc[c] \in Running
      PROVE  CallsInOrder' /\ OneOwner'
  <2>1. pc'[c] = l /\ \A d \in Call \ {c} : pc'[d] = pc[d]
    BY <1>5, GotoEffect
  <2>2. InOrder(c)'
    BY <1>1, <1>2, <1>5, <2>1 DEF InOrder, Owner, Over, Running, Ended
  <2>3. Owner(c)
    BY <1>1, <1>5 DEF InOrder
  <2> QED
    BY <1>2, <1>5, <2>1, <2>2, <2>3, MoveInOrder
<1>6. CASE PrepareSourceReturns(c)
  BY <1>1, <1>3, <1>4, <1>6 DEF PrepareSourceReturns, StartAbort, Failed, Refused, Error,
     InOrder, Over, Running, Ended
<1>7. CASE PrepareDestReturns(c)
  BY <1>1, <1>3, <1>4, <1>7 DEF PrepareDestReturns, StartAbort, Failed, Refused, Error,
     InOrder, Over, Running, Ended
<1>8. CASE CommitSourceReturns(c)
  BY <1>1, <1>3, <1>4, <1>8 DEF CommitSourceReturns, AfterCommitSource, StartAbort, Failed,
     Refused, Error, InOrder, Over, Running, Ended
<1>9. CASE CommitDestReturns(c)
  BY <1>5, <1>9 DEF CommitDestReturns, Finish, Accepted, Failed, Refused, Error, Running, rpcVars
<1>10. CASE AbortSourceReturns(c)
  <2>1. pc[c] = "abortSource" /\ Goto(c, "abortDest") /\ UNCHANGED rpc
    BY <1>10 DEF AbortSourceReturns, AbortOver, Accepted, Failed, Refused, Error, rpcVars
  <2>2. rpc[c]["commitDest"] = "none"
    BY <1>1, <2>1 DEF InOrder, Over, Ended
  <2> QED
    BY <1>4, <2>1, <2>2 DEF Running
<1>11. CASE AbortDestReturns(c)
  BY <1>5, <1>11 DEF AbortDestReturns, AbortOver, Finish, Accepted, Failed, Refused, Error,
     Running, rpcVars
<1>12. CASE PersistTransactionLogs(c)
  BY <1>5, <1>12 DEF PersistTransactionLogs, Written, Running, rpcVars
<1>13. ASSUME NEW k \in AbortKind, SendAbort(c, k) PROVE CallsInOrder' /\ OneOwner'
  <2>1. pc[c] = k /\ pc'[c] = k
        /\ (\A i \in Kind \ {k} : rpc'[c][i] = rpc[c][i])
        /\ (\A d \in Call \ {c} : rpc'[d] = rpc[d] /\ pc'[d] = pc[d])
    BY <1>13, SendEffect DEF SendAbort
  <2>2. Owner(c)
    BY <1>1, <2>1 DEF InOrder, Running
  <2>3. InOrder(c)'
    BY <1>1, <1>2, <2>1, <2>2 DEF InOrder, Owner, Over, Running, Ended
  <2> QED
    BY <1>2, <2>1, <2>2, <2>3, MoveInOrder
<1> QED
  BY <1>6, <1>7, <1>8, <1>9, <1>10, <1>11, <1>12, <1>13 DEF PaymentGoesOn, GatewayHandler

\* The steps that neither begin nor continue a payment nor serve a request.
Bystander == \/ \E b \in Bank : BankSaves(b) \/ BankComesUp(b) \/ BankDies(b)
             \/ \E b \in Bank, S \in SUBSET MayGoStale : BankCleans(b, S)
             \/ \E u \in User, b \in Bank : ClientLogsIn(u, b)
             \/ \E u \in Mortal : ClientFails(u)
             \/ GatewayComesUp
             \/ UNCHANGED vars

LEMMA BystanderEffect ==
  ASSUME Bystander
  PROVE  /\ UNCHANGED <<rpc, client, pc, transactions, logFile, reply, debits, credits>>
         /\ \A c \in Call : c \in cancelled' => c \in cancelled \/ pc[c] \in Running
BY DEF Bystander, BankSaves, SaveRead, SaveTruncate, BankComesUp, Start, Serve, RegisterServer,
       RegisterFails, BankDies, BankCrash, BankCleans, CleanupStale, ClientLogsIn,
       RegisterClient, ClientFails, ClientDies, GatewayComesUp, GatewayRestart, vars, bankVars,
       gatewayVars, rpcVars, history, registry

LEMMA NextCases ==
  ASSUME [Next]_vars
  PROVE  \/ \E c \in Call, k \in Kind : BankServes(c, k)
         \/ \E c \in Call : PaymentBegins(c)
         \/ \E c \in Call : PaymentGoesOn(c)
         \/ GatewayFails
         \/ Bystander
BY DEF Next, Bystander

LEMMA GatewayFailsEffect ==
  ASSUME GatewayFails
  PROVE  /\ GatewayDies
         /\ UNCHANGED <<rpcVars, procVars, bankVars, transactions, cancelled, reply>>
         /\ pc' = [c \in Call |-> IF pc[c] \in Running THEN "dead" ELSE pc[c]]
         /\ logFile' \in {logFile, NoLogs} /\ transactionLogs' = NoLogs /\ ~gatewayUp'
BY DEF GatewayFails, GatewayCrash, FatalBankCall, GatewayDies

LEMMA OrderStep ==
  TypeOK /\ CallsInOrder /\ OneOwner /\ [Next]_vars => CallsInOrder' /\ OneOwner'
<1> SUFFICES ASSUME TypeOK, CallsInOrder, OneOwner, [Next]_vars PROVE CallsInOrder' /\ OneOwner'
  OBVIOUS
<1>1. CASE Bystander
  <2>1. "idle" \notin Running
    BY DEF Running, Kind, PrepareKind, CommitKind, AbortKind
  <2>2. ASSUME NEW c \in Call PROVE InOrder(c)'
    BY <1>1, <2>1, BystanderEffect, OthersInOrder DEF CallsInOrder
  <2>3. \A c \in Call : Owner(c)' <=> Owner(c)
    BY <1>1, BystanderEffect DEF Owner
  <2> QED
    BY <2>2, <2>3 DEF CallsInOrder, OneOwner
<1>2. CASE GatewayFails
  <2>1. ASSUME NEW c \in Call PROVE InOrder(c)'
    BY <1>2, GatewayFailsEffect
       DEF CallsInOrder, InOrder, Owner, Over, Running, Ended, Kind, PrepareKind, CommitKind,
           AbortKind, rpcVars
  <2>2. \A c \in Call : Owner(c)' <=> Owner(c)
    BY <1>2, GatewayFailsEffect DEF Owner, rpcVars
  <2> QED
    BY <2>1, <2>2 DEF CallsInOrder, OneOwner
<1> QED
  BY <1>1, <1>2, NextCases, ServedInOrder, BeginInOrder, GoesOnInOrder

-----------------------------------------------------------------------------
\* Connections: which step changes which of the tables it speaks about.
LEMMA ConnectionsStep ==
  TypeOK /\ CallsInOrder /\ Connections /\ [Next]_vars => Connections'
<1> SUFFICES ASSUME TypeOK, CallsInOrder, Connections, [Next]_vars PROVE Connections'
  OBVIOUS
<1>1. ASSUME NEW c \in Call, NEW k \in Kind, BankServes(c, k) PROVE Connections'
  <2>1. /\ UNCHANGED <<client, phase, incarnation, bankservers_conns>>
        /\ Reachable(c, k)
        /\ \E a \in {"busy", "yes", "no"} : rpc' = [rpc EXCEPT ![c][k] = a]
    BY <1>1, BankServesEffect DEF procVars, gatewayVars, Answer
  <2>2. \A d \in Call, j \in Kind : d # c \/ j # k => rpc'[d][j] = rpc[d][j]
    BY <2>1 DEF TypeOK, PaymentsTypeOK
  <2>3. phase[Target(c, k)] = "serving"
    BY <2>1 DEF Reachable
  <2> QED
    BY <2>1, <2>2, <2>3 DEF Connections
<1>2. ASSUME NEW c \in Call, PaymentBegins(c) PROVE Connections'
  <2>1. UNCHANGED <<phase, incarnation, bankservers_conns>> /\ pc[c] = "idle"
    BY <1>2 DEF PaymentBegins, BeginPayment, procVars, registry
  <2>2. CASE UNCHANGED rpcVars
    BY <2>1, <2>2 DEF Connections, rpcVars
  <2>3. CASE \E src, dst \in Nat :
               /\ src = bankservers_conns[Pay(c).fromBank]
               /\ dst = bankservers_conns[Pay(c).toBank]
               /\ client' = [client EXCEPT ![c] = [k \in Kind |->
                    IF k \in AbortKind THEN @[k]
                    ELSE IF k \in SourceKind THEN src ELSE dst]]
               /\ Send(c, "prepareSource")
    <3>1. PICK src \in Nat, dst \in Nat :
               /\ src = bankservers_conns[Pay(c).fromBank]
               /\ dst = bankservers_conns[Pay(c).toBank]
               /\ client' = [client EXCEPT ![c] = [k \in Kind |->
                    IF k \in AbortKind THEN @[k]
                    ELSE IF k \in SourceKind THEN src ELSE dst]]
               /\ Send(c, "prepareSource")
      BY <2>3
    <3>2. /\ \A d \in Call \ {c} : rpc'[d] = rpc[d] /\ client'[d] = client[d]
          /\ \A k \in Kind : client'[c][k] = IF k \in AbortKind THEN client[c][k]
                                             ELSE IF k \in SourceKind THEN src ELSE dst
      BY <3>1, SendEffect DEF TypeOK, PaymentsTypeOK, Kind, PrepareKind
    <3>3. \A k \in Kind : rpc'[c][k] \in {"none", "sent"}
      <4>1. \A k \in Kind : rpc[c][k] = "none"
        BY <2>1 DEF CallsInOrder, InOrder
      <4> QED
        BY <3>1, <4>1, SendEffect DEF Kind, PrepareKind
    <3>4. /\ Pay(c).fromBank \in Bank /\ Pay(c).toBank \in Bank
          /\ src <= incarnation[Pay(c).fromBank] /\ dst <= incarnation[Pay(c).toBank]
      BY <3>1, Constants DEF Connections, PaymentDetails
    <3>5. \A k \in Kind : client'[c][k] <= incarnation[Target(c, k)]
      BY <3>2, <3>4 DEF Connections, Target
    <3>6. /\ client'[c]["commitSource"] = client'[c]["prepareSource"]
          /\ client'[c]["commitDest"] = client'[c]["prepareDest"]
      BY <3>2 DEF Kind, PrepareKind, CommitKind, AbortKind, SourceKind
    <3> QED
      BY <2>1, <3>2, <3>3, <3>5, <3>6 DEF Connections
  <2>4. UNCHANGED rpcVars \/
          \E src, dst \in Nat :
               /\ src = bankservers_conns[Pay(c).fromBank]
               /\ dst = bankservers_conns[Pay(c).toBank]
               /\ client' = [client EXCEPT ![c] = [k \in Kind |->
                    IF k \in AbortKind THEN @[k]
                    ELSE IF k \in SourceKind THEN src ELSE dst]]
               /\ Send(c, "prepareSource")
    <3>1. /\ bankservers_conns[Pay(c).fromBank] \in Nat
          /\ bankservers_conns[Pay(c).toBank] \in Nat
      BY Constants DEF TypeOK, GatewayTypeOK, PaymentDetails
    <3> QED
      BY <1>2, <3>1 DEF PaymentBegins, BeginPayment, RejectPayment, AcceptPayment
  <2> QED
    BY <2>2, <2>3, <2>4
<1>3. ASSUME NEW c \in Call, PaymentGoesOn(c) PROVE Connections'
  <2>1. UNCHANGED <<phase, incarnation, bankservers_conns>>
    BY <1>3 DEF PaymentGoesOn, GatewayHandler, PrepareSourceReturns, PrepareDestReturns,
         CommitSourceReturns, CommitDestReturns, AbortSourceReturns, AbortDestReturns,
         PersistTransactionLogs, Written, SendAbort, procVars, registry
  <2>2. CASE UNCHANGED rpcVars
    BY <2>1, <2>2 DEF Connections, rpcVars
  <2>3. CASE /\ UNCHANGED client
             /\ UNCHANGED rpc \/ \E k \in Kind : Send(c, k)
    <3>1. \A d \in Call, k \in Kind : rpc'[d][k] \in {rpc[d][k], "sent"}
      BY <2>3, SendEffect
    <3> QED
      BY <2>1, <2>3, <3>1 DEF Connections
  <2>4. ASSUME NEW k \in AbortKind, SendAbort(c, k) PROVE Connections'
    <3>1. k \in Kind /\ c \notin cancelled /\ Send(c, k)
          /\ client' = [client EXCEPT ![c][k] = bankservers_conns[Target(c, k)]]
      BY <2>4 DEF Kind, SendAbort, MustAbort
    <3>2. /\ \A d \in Call, j \in Kind : d # c \/ j # k => rpc'[d][j] = rpc[d][j]
          /\ \A d \in Call, j \in Kind : d # c \/ j # k => client'[d][j] = client[d][j]
          /\ rpc'[c][k] = "sent"
          /\ client'[c][k] = bankservers_conns[Target(c, k)]
      BY <3>1, SendEffect DEF TypeOK, PaymentsTypeOK
    <3>3. /\ k # "commitSource" /\ k # "commitDest"
          /\ k # "prepareSource" /\ k # "prepareDest"
          /\ {"commitSource", "commitDest", "prepareSource", "prepareDest"} \subseteq Kind
      BY DEF AbortKind, Kind, PrepareKind, CommitKind
    <3>4. client'[c][k] <= incarnation[Target(c, k)]
      BY <3>1, <3>2, Constants DEF Connections
    <3>5. \A d \in Call : /\ client'[d]["commitSource"] = client'[d]["prepareSource"]
                          /\ client'[d]["commitDest"] = client'[d]["prepareDest"]
      BY <3>2, <3>3 DEF Connections
    <3> QED
      BY <2>1, <3>2, <3>4, <3>5 DEF Connections
  <2>5. \/ UNCHANGED rpcVars
        \/ UNCHANGED client /\ (UNCHANGED rpc \/ \E k \in Kind : Send(c, k))
        \/ \E k \in AbortKind : SendAbort(c, k)
    BY <1>3 DEF PaymentGoesOn, GatewayHandler, PrepareSourceReturns, PrepareDestReturns,
         CommitSourceReturns, AfterCommitSource, CommitDestReturns, AbortSourceReturns,
         AbortDestReturns, PersistTransactionLogs, Written, StartAbort, Kind, PrepareKind, CommitKind
  <2> QED
    BY <2>2, <2>3, <2>4, <2>5
<1>4. CASE GatewayFails
  <2>1. UNCHANGED <<rpc, client, phase, incarnation>> /\ bankservers_conns' = [b \in Bank |-> 0]
    BY <1>4, GatewayFailsEffect DEF GatewayDies, rpcVars, procVars
  <2> QED
    BY <2>1 DEF Connections, TypeOK, PaymentsTypeOK
<1>5. CASE Bystander
  <2>1. UNCHANGED <<rpc, client>>
    BY <1>5, BystanderEffect
  <2>2. CASE UNCHANGED <<phase, incarnation, bankservers_conns>>
    BY <2>1, <2>2 DEF Connections
  <2>3. ASSUME NEW b \in Bank, BankComesUp(b) \/ BankDies(b) PROVE Connections'
    <3>1. CASE Start(b) /\ UNCHANGED gatewayVars
      <4>1. /\ incarnation' = [incarnation EXCEPT ![b] = @ + 1]
            /\ phase' = [phase EXCEPT ![b] = "loaded"]
            /\ UNCHANGED bankservers_conns
        BY <3>1 DEF Start, gatewayVars
      <4>2. /\ incarnation'[b] = incarnation[b] + 1
            /\ \A d \in Bank \ {b} : incarnation'[d] = incarnation[d] /\ phase'[d] = phase[d]
        BY <4>1 DEF TypeOK, PaymentsTypeOK
      <4>3. \A d \in Bank : incarnation[d] \in Nat /\ bankservers_conns[d] \in Nat
        BY DEF TypeOK, PaymentsTypeOK, GatewayTypeOK
      <4>4. \A c \in Call, k \in Kind : client[c][k] \in Nat /\ Target(c, k) \in Bank
        BY Constants DEF TypeOK, PaymentsTypeOK
      <4>5. \A c \in Call, k \in Kind : Target(c, k) = b => client[c][k] < incarnation'[b]
        BY <4>2, <4>3, <4>4 DEF Connections
      <4> QED
        BY <2>1, <4>1, <4>2, <4>3, <4>4, <4>5 DEF Connections
    <3>2. CASE Serve(b) \/ BankDies(b)
      <4>1. UNCHANGED <<incarnation, bankservers_conns>>
        BY <2>3, <3>2 DEF BankComesUp, Serve, BankDies, BankCrash, Start, RegisterServer,
              RegisterFails, gatewayVars
      <4>2. phase' = [phase EXCEPT ![b] = "serving"] \/ phase' = [phase EXCEPT ![b] = "down"]
        BY <3>2 DEF Serve, BankDies, BankCrash
      <4>3. \A d \in Bank : phase'[d] \in {phase[d], "serving", "down"}
        BY <4>2 DEF TypeOK, PaymentsTypeOK
      <4> QED
        BY <2>1, <4>1, <4>3, Constants DEF Connections
    <3>3. CASE RegisterServer(b) \/ RegisterFails(b)
      <4>1. /\ UNCHANGED incarnation
            /\ phase[b] = "loaded"
            /\ \A d \in Bank \ {b} : phase'[d] = phase[d]
            /\ \A d \in Bank : bankservers_conns'[d] \in {bankservers_conns[d], incarnation[d]}
        BY <3>3 DEF RegisterServer, RegisterFails, TypeOK, PaymentsTypeOK, GatewayTypeOK,
              gatewayVars
      <4>2. \A d \in Bank : incarnation[d] \in Nat
        BY DEF TypeOK, PaymentsTypeOK
      <4> QED
        BY <2>1, <4>1, <4>2, Constants DEF Connections
    <3> QED
      BY <2>3, <3>1, <3>2, <3>3 DEF BankComesUp
  <2>4. \/ UNCHANGED <<phase, incarnation, bankservers_conns>>
        \/ \E b \in Bank : BankComesUp(b) \/ BankDies(b)
    BY <1>5 DEF Bystander, BankSaves, BankCleans, ClientLogsIn, RegisterClient, ClientFails,
          ClientDies, GatewayComesUp, GatewayRestart, vars, gatewayVars, procVars, registry
  <2> QED
    BY <2>2, <2>3, <2>4
<1> QED
  BY <1>1, <1>2, <1>3, <1>4, <1>5, NextCases

-----------------------------------------------------------------------------
\* What the handlers of the gateway leave to the banks.
LEMMA PaymentEffect ==
  ASSUME TypeOK, CallsInOrder, NEW c \in Call, PaymentBegins(c) \/ PaymentGoesOn(c)
  PROVE  /\ UNCHANGED <<phase, incarnation, bankVars>>
         /\ \A d \in Call, k \in Kind : rpc'[d][k] \in {rpc[d][k], "sent"}
         /\ \A d \in Call : Owner(d) => \A k \in PrepareKind \cup CommitKind :
                              client'[d][k] = client[d][k]
         /\ \A d \in Call : ~Owner(d) => rpc'[d]["prepareSource"] \in {"none", "sent"}
                                         /\ rpc'[d]["prepareDest"] \in {"none", "sent"}
<1> USE DEF Kind, PrepareKind, CommitKind, AbortKind
<1>1. CASE PaymentBegins(c)
  <2>1. UNCHANGED <<phase, incarnation, bankVars>> /\ ~Owner(c)
    BY <1>1 DEF PaymentBegins, BeginPayment, procVars, CallsInOrder, InOrder, Owner
  <2>2. CASE UNCHANGED rpcVars
    BY <2>1, <2>2 DEF rpcVars, CallsInOrder, InOrder, Owner, TypeOK, PaymentsTypeOK
  <2>3. CASE Send(c, "prepareSource") /\ \E f : client' = [client EXCEPT ![c] = f]
    <3>1. \A d \in Call, k \in Kind : rpc'[d][k] \in {rpc[d][k], "sent"}
      BY <2>3, SendEffect
    <3>2. \A d \in Call \ {c} : client'[d] = client[d]
      BY <2>3 DEF TypeOK, PaymentsTypeOK
    <3> QED
      BY <2>1, <3>1, <3>2 DEF CallsInOrder, InOrder, Owner
  <2>4. UNCHANGED rpcVars \/ (Send(c, "prepareSource")
                              /\ \E f : client' = [client EXCEPT ![c] = f])
    BY <1>1 DEF PaymentBegins, BeginPayment, RejectPayment, AcceptPayment
  <2> QED
    BY <2>2, <2>3, <2>4
<1>2. CASE PaymentGoesOn(c)
  <2>1. UNCHANGED <<phase, incarnation, bankVars>>
    BY <1>2 DEF PaymentGoesOn, GatewayHandler, PrepareSourceReturns, PrepareDestReturns,
         CommitSourceReturns, CommitDestReturns, AbortSourceReturns, AbortDestReturns,
         PersistTransactionLogs, Written, SendAbort, procVars
  <2>2. \/ UNCHANGED rpc \/ \E k \in Kind : Send(c, k)
    BY <1>2 DEF PaymentGoesOn, GatewayHandler, PrepareSourceReturns, PrepareDestReturns,
         CommitSourceReturns, AfterCommitSource, CommitDestReturns, AbortSourceReturns,
         AbortDestReturns, PersistTransactionLogs, Written, StartAbort, SendAbort, rpcVars
  <2>3. \A d \in Call, k \in Kind : rpc'[d][k] \in {rpc[d][k], "sent"}
    BY <2>2, SendEffect
  <2>4. \/ UNCHANGED client
        \/ \E k \in AbortKind : \E n : client' = [client EXCEPT ![c][k] = n]
    BY <1>2 DEF PaymentGoesOn, GatewayHandler, PrepareSourceReturns, PrepareDestReturns,
         CommitSourceReturns, CommitDestReturns, AbortSourceReturns, AbortDestReturns,
         PersistTransactionLogs, Written, SendAbort, rpcVars
  <2>5. \A d \in Call, k \in PrepareKind \cup CommitKind : client'[d][k] = client[d][k]
    <3>1. client \in [Call -> [Kind -> Nat]]
      BY DEF TypeOK, PaymentsTypeOK
    <3>2. ASSUME NEW j \in AbortKind, NEW n, client' = [client EXCEPT ![c][j] = n]
          PROVE  \A d \in Call, k \in PrepareKind \cup CommitKind : client'[d][k] = client[d][k]
      BY <3>1, <3>2
    <3> QED
      BY <2>4, <3>2
  <2> QED
    BY <2>1, <2>3, <2>5 DEF CallsInOrder, InOrder, Owner
<1> QED
  BY <1>1, <1>2

LEMMA ServedEntries ==
  ASSUME CrossBank, TypeOK, CallsInOrder, OneOwner, Entries,
         NEW d \in Call, NEW k \in Kind, BankServes(d, k)
  PROVE  Entries'
<1> USE DEF Kind, PrepareKind, CommitKind, AbortKind
<1> DEFINE b == Target(d, k)
           t == TxOf[d]
<1>1. /\ UNCHANGED <<client, phase, incarnation>>
      /\ b \in Bank /\ t \in Tx
      /\ rpc[d][k] # "none" /\ Owner(d)
  BY BankServesEffect, Constants DEF procVars, CallsInOrder, InOrder
<1>2. \A c \in Call, j \in Kind : c # d \/ j # k => rpc'[c][j] = rpc[c][j]
  <2>1. \E a \in {"busy", "yes", "no"} : rpc' = [rpc EXCEPT ![d][k] = a]
    BY BankServesEffect DEF Answer
  <2> QED
    BY <2>1 DEF TypeOK, PaymentsTypeOK
<1>3. CASE /\ k \in PrepareKind /\ rpc'[d][k] = "yes"
           /\ pending' = [pending EXCEPT ![b][t] = OperationOf(k)]
  <2>1. /\ pending'[b][t] = OperationOf(k)
        /\ \A c \in Call, e \in Bank : e # b \/ TxOf[c] # t => pending'[e][TxOf[c]] = pending[e][TxOf[c]]
    BY <1>1, <1>3, Constants DEF TypeOK, BankTypeOK
  <2>2. \A c \in Call : Pay(c).fromBank \in Bank /\ Pay(c).toBank \in Bank
                        /\ Pay(c).fromBank # Pay(c).toBank
    BY Constants DEF PaymentDetails, CrossBank, Pay
  <2>3. ASSUME NEW c \in Call, rpc'[c]["prepareSource"] = "yes", Reachable(c, "prepareSource")'
        PROVE  pending'[Pay(c).fromBank][TxOf[c]] # "credit"
    <3>1. CASE c = d
      <4>1. CASE k = "prepareSource"
        BY <2>1, <3>1, <4>1 DEF OperationOf, SourceKind, Target
      <4>2. CASE k = "prepareDest"
        <5>1. b # Pay(c).fromBank /\ rpc[c]["prepareSource"] = "yes"
          BY <1>2, <2>2, <2>3, <3>1, <4>2 DEF Target, SourceKind
        <5> QED
          BY <1>1, <2>1, <2>2, <2>3, <5>1 DEF Entries, Reachable, Target
      <4> QED
        BY <1>3, <4>1, <4>2
    <3>2. CASE c # d
      <4>1. rpc[c]["prepareSource"] = "yes" /\ TxOf[c] # t
        BY <1>1, <1>2, <2>3, <3>2 DEF OneOwner, Owner
      <4> QED
        BY <1>1, <2>1, <2>2, <2>3, <4>1 DEF Entries, Reachable, Target
    <3> QED
      BY <3>1, <3>2
  <2>4. ASSUME NEW c \in Call, rpc'[c]["prepareDest"] = "yes", Reachable(c, "prepareDest")'
        PROVE  pending'[Pay(c).toBank][TxOf[c]] # "debit"
    <3>1. CASE c = d
      <4>1. CASE k = "prepareDest"
        BY <2>1, <3>1, <4>1 DEF OperationOf, SourceKind, Target
      <4>2. CASE k = "prepareSource"
        <5>1. b # Pay(c).toBank /\ rpc[c]["prepareDest"] = "yes"
          BY <1>2, <2>2, <2>4, <3>1, <4>2 DEF Target, SourceKind
        <5> QED
          BY <1>1, <2>1, <2>2, <2>4, <5>1 DEF Entries, Reachable, Target
      <4> QED
        BY <1>3, <4>1, <4>2
    <3>2. CASE c # d
      <4>0. Owner(c)
        BY <1>2, <2>4, <3>2 DEF CallsInOrder, InOrder, Owner
      <4>1. rpc[c]["prepareDest"] = "yes" /\ TxOf[c] # t
        BY <1>1, <1>2, <2>4, <3>2, <4>0 DEF OneOwner
      <4> QED
        BY <1>1, <2>1, <2>2, <2>4, <4>1 DEF Entries, Reachable, Target
    <3> QED
      BY <3>1, <3>2
  <2> QED
    BY <2>3, <2>4 DEF Entries
<1>4. CASE /\ k \notin PrepareKind \/ rpc'[d][k] # "yes"
           /\ UNCHANGED pending \/ pending' = [pending EXCEPT ![b][t] = "none"]
  <2>1. \A e \in Bank, u \in Tx : pending'[e][u] \in {pending[e][u], "none"}
    BY <1>1, <1>4 DEF TypeOK, BankTypeOK
  <2>2. \A c \in Call, j \in PrepareKind : rpc'[c][j] = "yes" => rpc[c][j] = "yes"
    BY <1>2, <1>4
  <2>3. \A c \in Call : Pay(c).fromBank \in Bank /\ Pay(c).toBank \in Bank /\ TxOf[c] \in Tx
    BY Constants DEF PaymentDetails
  <2>4. \A c \in Call, j \in Kind : Reachable(c, j)' <=> Reachable(c, j)
    BY <1>1 DEF Reachable, Target
  <2> QED
    BY <2>1, <2>2, <2>3, <2>4 DEF Entries
<1>5. \/ /\ k \in PrepareKind /\ rpc'[d][k] = "yes"
         /\ pending' = [pending EXCEPT ![b][t] = OperationOf(k)]
      \/ /\ k \notin PrepareKind \/ rpc'[d][k] # "yes"
         /\ UNCHANGED pending \/ pending' = [pending EXCEPT ![b][t] = "none"]
  <2>1. ASSUME NEW a, Answer(d, k, a) PROVE rpc'[d][k] = a
    BY <2>1 DEF Answer, TypeOK, PaymentsTypeOK
  <2>2. CASE Prepare(d, k)
    BY <2>1, <2>2 DEF Prepare
  <2>3. CASE CommitUnknown(d, k)
    BY <2>3 DEF CommitUnknown, bankVars
  <2>4. CASE CommitApply(d, k)
    BY <2>4 DEF CommitApply
  <2>5. CASE SaveFlush(d, k)
    BY <2>5 DEF SaveFlush
  <2>6. CASE Abort(d, k)
    BY <2>6 DEF Abort
  <2> QED
    BY <2>2, <2>3, <2>4, <2>5, <2>6 DEF BankServes
<1> QED
  BY <1>3, <1>4, <1>5

LEMMA EntriesStep ==
  ASSUME CrossBank
  PROVE  TypeOK /\ CallsInOrder /\ OneOwner /\ Connections /\ Entries /\ [Next]_vars => Entries'
<1> SUFFICES ASSUME TypeOK, CallsInOrder, OneOwner, Connections, Entries, [Next]_vars
             PROVE  Entries'
  OBVIOUS
<1> USE DEF Kind, PrepareKind, CommitKind, AbortKind
<1>1. \A c \in Call : Pay(c).fromBank \in Bank /\ Pay(c).toBank \in Bank /\ TxOf[c] \in Tx
  BY Constants DEF PaymentDetails
\* It is enough that answered calls stay reachable and entries stay or vanish.
<1>2. ASSUME \A c \in Call, j \in PrepareKind :
               rpc'[c][j] = "yes" /\ Reachable(c, j)' => rpc[c][j] = "yes" /\ Reachable(c, j),
             \A c \in Call, j \in PrepareKind : Reachable(c, j)' =>
               pending'[Target(c, j)][TxOf[c]] \in {pending[Target(c, j)][TxOf[c]], "none"}
      PROVE  Entries'
  <2>1. \A c \in Call : /\ Target(c, "prepareSource") = Pay(c).fromBank
                        /\ Target(c, "prepareDest") = Pay(c).toBank
    BY DEF Target, SourceKind
  <2> QED
    BY <1>2, <2>1 DEF Entries
<1>3. ASSUME NEW c \in Call, NEW k \in Kind, BankServes(c, k) PROVE Entries'
  BY <1>3, ServedEntries
<1>4. ASSUME NEW c \in Call, PaymentBegins(c) \/ PaymentGoesOn(c) PROVE Entries'
  <2>1. /\ UNCHANGED <<phase, incarnation, pending>>
        /\ \A d \in Call, k \in Kind : rpc'[d][k] \in {rpc[d][k], "sent"}
        /\ \A d \in Call : Owner(d) => \A k \in PrepareKind \cup CommitKind :
                             client'[d][k] = client[d][k]
        /\ \A d \in Call : ~Owner(d) => rpc'[d]["prepareSource"] \in {"none", "sent"}
                                        /\ rpc'[d]["prepareDest"] \in {"none", "sent"}
    BY <1>4, PaymentEffect DEF bankVars
  <2>2. ASSUME NEW d \in Call, NEW j \in PrepareKind, rpc'[d][j] = "yes", Reachable(d, j)'
        PROVE  rpc[d][j] = "yes" /\ Reachable(d, j)
    <3>1. Owner(d) /\ rpc[d][j] = "yes"
      BY <2>1, <2>2
    <3>2. client'[d][j] = client[d][j]
      BY <2>1, <3>1
    <3> QED
      BY <2>1, <2>2, <3>1, <3>2 DEF Reachable, Target
  <2> QED
    BY <1>2, <2>1, <2>2
<1>5. CASE GatewayFails
  BY <1>2, <1>5, GatewayFailsEffect DEF rpcVars, procVars, bankVars, Reachable, Target
<1>6. CASE Bystander
  <2>1. UNCHANGED <<rpc, client>>
    BY <1>6, BystanderEffect
  <2>2. CASE UNCHANGED <<phase, incarnation, pending>>
    BY <1>2, <2>1, <2>2 DEF Reachable, Target
  <2>3. ASSUME NEW b \in Bank, NEW S \in SUBSET MayGoStale, BankCleans(b, S) PROVE Entries'
    <3>1. UNCHANGED <<phase, incarnation>> /\ pending' = [pending EXCEPT ![b] = DeleteStale(b, S)]
      BY <2>3 DEF BankCleans, CleanupStale, procVars
    <3>2. \A e \in Bank, u \in Tx : pending'[e][u] \in {pending[e][u], "none"}
      BY <3>1 DEF DeleteStale, TypeOK, BankTypeOK
    <3> QED
      BY <1>2, <2>1, <3>1, <3>2, Constants DEF Reachable, Target
  <2>4. ASSUME NEW b \in Bank,
               \/ Start(b) \/ Serve(b) \/ BankDies(b)
               \/ (RegisterServer(b) \/ RegisterFails(b)) /\ UNCHANGED bankVars
        PROVE  Entries'
    <3>1. /\ \A d \in Bank \ {b} : /\ phase'[d] = phase[d]
                                   /\ incarnation'[d] = incarnation[d]
                                   /\ pending'[d] = pending[d]
          /\ phase'[b] # "serving" \/ Serve(b)
      <4>1. \/ UNCHANGED phase \/ \E l : phase' = [phase EXCEPT ![b] = l]
        BY <2>4 DEF Start, Serve, RegisterServer, RegisterFails, BankDies, BankCrash
      <4>2. \/ UNCHANGED incarnation \/ \E n : incarnation' = [incarnation EXCEPT ![b] = n]
        BY <2>4 DEF Start, Serve, RegisterServer, RegisterFails, BankDies, BankCrash
      <4>3. \/ UNCHANGED pending \/ \E f : pending' = [pending EXCEPT ![b] = f]
        <5>1. CASE Serve(b)
          BY <5>1 DEF Serve
        <5>2. CASE (RegisterServer(b) \/ RegisterFails(b)) /\ UNCHANGED bankVars
          BY <5>2 DEF bankVars
        <5>3. CASE Start(b) \/ BankDies(b)
          BY <5>3 DEF Start, BankDies, BankCrash
        <5> QED
          BY <2>4, <5>1, <5>2, <5>3
      <4>4. phase'[b] # "serving" \/ Serve(b)
        BY <2>4 DEF Start, RegisterServer, RegisterFails, BankDies, BankCrash, TypeOK,
              PaymentsTypeOK
      <4> QED
        BY <4>1, <4>2, <4>3, <4>4 DEF TypeOK, PaymentsTypeOK, BankTypeOK
    <3>2. Serve(b) => phase[b] = "registered" /\ incarnation' = incarnation
      BY DEF Serve
    <3>3. ASSUME NEW c \in Call, NEW j \in PrepareKind, rpc[c][j] = "yes", Reachable(c, j)'
          PROVE  Target(c, j) # b
      BY <2>1, <3>1, <3>2, <3>3 DEF Connections, Reachable, Target
    <3>4. \A c \in Call, j \in PrepareKind : Target(c, j) \in Bank
      BY Constants
    <3>5. ASSUME NEW c \in Call, rpc'[c]["prepareSource"] = "yes", Reachable(c, "prepareSource")'
          PROVE  pending'[Pay(c).fromBank][TxOf[c]] # "credit"
      <4>1. Pay(c).fromBank # b
        BY <2>1, <3>3, <3>5 DEF Target, SourceKind
      <4> QED
        BY <1>1, <2>1, <3>1, <3>5, <4>1 DEF Entries, Reachable, Target, SourceKind
    <3>6. ASSUME NEW c \in Call, rpc'[c]["prepareDest"] = "yes", Reachable(c, "prepareDest")'
          PROVE  pending'[Pay(c).toBank][TxOf[c]] # "debit"
      <4>1. Pay(c).toBank # b
        BY <2>1, <3>3, <3>6 DEF Target, SourceKind
      <4> QED
        BY <1>1, <2>1, <3>1, <3>6, <4>1 DEF Entries, Reachable, Target, SourceKind
    <3> QED
      BY <3>5, <3>6 DEF Entries
  <2>5. \/ UNCHANGED <<phase, incarnation, pending>>
        \/ \E b \in Bank, S \in SUBSET MayGoStale : BankCleans(b, S)
        \/ \E b \in Bank :
             \/ Start(b) \/ Serve(b) \/ BankDies(b)
             \/ (RegisterServer(b) \/ RegisterFails(b)) /\ UNCHANGED bankVars
    BY <1>6 DEF Bystander, BankSaves, SaveRead, SaveTruncate, BankComesUp, BankDies, ClientLogsIn,
          RegisterClient, ClientFails, ClientDies, GatewayComesUp, GatewayRestart, vars, bankVars,
          procVars
  <2> QED
    BY <2>2, <2>3, <2>4, <2>5
<1> QED
  BY <1>3, <1>4, <1>5, <1>6, NextCases

-----------------------------------------------------------------------------
\* The gateway makes a call only once.
LEMMA SentOnce ==
  ASSUME TypeOK, CallsInOrder, NEW c \in Call, PaymentBegins(c) \/ PaymentGoesOn(c)
  PROVE  \A d \in Call, k \in Kind : \/ rpc'[d][k] = rpc[d][k]
                                     \/ rpc[d][k] = "none" /\ rpc'[d][k] = "sent"
<1> USE DEF Kind, PrepareKind, CommitKind, AbortKind
<1>1. InOrder(c)
  BY DEF CallsInOrder
<1>2. ASSUME NEW k \in Kind, Send(c, k), rpc[c][k] = "none"
      PROVE  \A d \in Call, j \in Kind : \/ rpc'[d][j] = rpc[d][j]
                                         \/ rpc[d][j] = "none" /\ rpc'[d][j] = "sent"
  BY <1>2, SendEffect
<1>3. \/ UNCHANGED rpc
      \/ \E k \in Kind : Send(c, k) /\ rpc[c][k] = "none"
  <2>1. CASE PaymentBegins(c)
    BY <1>1, <2>1 DEF PaymentBegins, BeginPayment, RejectPayment, AcceptPayment, InOrder, rpcVars
  <2>2. CASE PrepareSourceReturns(c)
    BY <1>1, <2>2 DEF PrepareSourceReturns, Accepted, StartAbort, InOrder
  <2>3. CASE PrepareDestReturns(c)
    BY <1>1, <2>3 DEF PrepareDestReturns, Accepted, StartAbort, InOrder
  <2>4. CASE CommitSourceReturns(c)
    BY <1>1, <2>4 DEF CommitSourceReturns, AfterCommitSource, Accepted, StartAbort, InOrder, Over,
                      Ended
  <2>5. CASE CommitDestReturns(c) \/ AbortSourceReturns(c) \/ AbortDestReturns(c)
             \/ PersistTransactionLogs(c)
    BY <2>5 DEF CommitDestReturns, AbortSourceReturns, AbortDestReturns, PersistTransactionLogs, Written,
                rpcVars
  <2>6. ASSUME NEW k \in AbortKind, SendAbort(c, k)
        PROVE  Send(c, k) /\ rpc[c][k] = "none"
    BY <2>6 DEF SendAbort, MustAbort
  <2> QED
    BY <2>1, <2>2, <2>3, <2>4, <2>5, <2>6 DEF PaymentGoesOn, GatewayHandler
<1> QED
  BY <1>2, <1>3

LEMMA CountsOnce ==
  ASSUME NEW f \in [Tx -> Nat], NEW t \in Tx, NEW P \in BOOLEAN
  PROVE  [f EXCEPT ![t] = IF P THEN @ + 1 ELSE @] = IF P THEN [f EXCEPT ![t] = @ + 1] ELSE f
OBVIOUS

\* A commit applies the half of the payment it is meant to apply.
LEMMA CommitEffect ==
  ASSUME CrossBank, TypeOK, CallsInOrder, Connections, Entries,
         NEW c \in Call, NEW k \in Kind, CommitApply(c, k)
  PROVE  /\ Answer(c, k, "busy") /\ rpc[c][k] = "sent"
         /\ \/ /\ k = "commitSource"
               /\ debits' = [debits EXCEPT ![TxOf[c]] = @ + 1]
               /\ credits' = credits
            \/ /\ k = "commitDest"
               /\ credits' = [credits EXCEPT ![TxOf[c]] = @ + 1]
               /\ debits' = debits
<1> DEFINE t == TxOf[c]
           op == pending[Target(c, k)][t]
<1> USE DEF Kind, PrepareKind, CommitKind, AbortKind
<1>1. /\ Answer(c, k, "busy") /\ rpc[c][k] = "sent" /\ Reachable(c, k)
      /\ k \in CommitKind /\ op # "none" /\ t \in Tx /\ Target(c, k) \in Bank
  BY Constants DEF CommitApply, Served
<1>2. /\ debits' = [debits EXCEPT ![t] = IF op = "debit" THEN @ + 1 ELSE @]
      /\ credits' = [credits EXCEPT ![t] = IF op = "credit" THEN @ + 1 ELSE @]
  BY DEF CommitApply
<1>3. rpc[c]["prepareSource"] = "yes" /\ rpc[c]["prepareDest"] = "yes"
  BY <1>1 DEF CallsInOrder, InOrder
<1>4. op \in {"debit", "credit"}
  BY <1>1 DEF TypeOK, BankTypeOK, Operation
<1>5. /\ debits \in [Tx -> Nat] /\ credits \in [Tx -> Nat]
      /\ debits' = IF op = "debit" THEN [debits EXCEPT ![t] = @ + 1] ELSE debits
      /\ credits' = IF op = "credit" THEN [credits EXCEPT ![t] = @ + 1] ELSE credits
  BY <1>1, <1>2, CountsOnce DEF TypeOK, BankTypeOK
<1>6. CASE k = "commitSource"
  <2>1. Target(c, k) = Pay(c).fromBank /\ Reachable(c, "prepareSource")
    BY <1>1, <1>6 DEF Target, SourceKind, Reachable, Connections
  <2>2. op = "debit"
    BY <1>3, <1>4, <2>1 DEF Entries
  <2> QED
    BY <1>1, <1>5, <1>6, <2>2
<1>7. CASE k = "commitDest"
  <2>1. Target(c, k) = Pay(c).toBank /\ Reachable(c, "prepareDest")
    BY <1>1, <1>7 DEF Target, SourceKind, Reachable, Connections
  <2>2. op = "credit"
    BY <1>3, <1>4, <2>1 DEF Entries
  <2> QED
    BY <1>1, <1>5, <1>7, <2>2
<1> QED
  BY <1>1, <1>6, <1>7

\* An id is counted at most once, because it has one owner.
LEMMA FirstApplied ==
  ASSUME CallsInOrder, OneOwner, Counts, NEW c \in Call, NEW t \in Tx, t = TxOf[c]
  PROVE  /\ rpc[c]["commitSource"] = "sent" => debits[t] = 0
         /\ rpc[c]["commitDest"] = "sent" => credits[t] = 0
<1> USE DEF Kind, PrepareKind, CommitKind, AbortKind
<1>1. ASSUME NEW d \in Call, TxOf[d] = t, NEW k \in CommitKind, rpc[c][k] = "sent", Applied(d, k)
      PROVE  FALSE
  <2>1. Owner(c) /\ Owner(d)
    BY <1>1 DEF CallsInOrder, InOrder, Applied
  <2> QED
    BY <1>1, <2>1 DEF OneOwner, Applied
<1> QED
  BY <1>1 DEF Counts

LEMMA CountsStep ==
  ASSUME CrossBank
  PROVE  TypeOK /\ CallsInOrder /\ OneOwner /\ Connections /\ Entries /\ Counts /\ [Next]_vars
            => Counts'
<1> SUFFICES ASSUME TypeOK, CallsInOrder, OneOwner, Connections, Entries, Counts, [Next]_vars
             PROVE  Counts'
  OBVIOUS
<1> USE DEF Kind, PrepareKind, CommitKind, AbortKind
\* It is enough that neither the counters nor what was applied changes.
<1>1. ASSUME UNCHANGED <<debits, credits>>,
             \A d \in Call, k \in CommitKind : Applied(d, k)' <=> Applied(d, k)
      PROVE  Counts'
  BY <1>1 DEF Counts
<1>2. ASSUME NEW c \in Call, NEW k \in Kind, BankServes(c, k) PROVE Counts'
  <2>1. ASSUME NEW a, Answer(c, k, a)
        PROVE  /\ rpc'[c][k] = a
               /\ \A d \in Call, j \in Kind : d # c \/ j # k => rpc'[d][j] = rpc[d][j]
    BY <2>1 DEF Answer, TypeOK, PaymentsTypeOK
  <2>2. CASE Prepare(c, k) \/ Abort(c, k)
    <3>1. UNCHANGED <<debits, credits>> /\ k \notin CommitKind
      BY <2>2 DEF Prepare, Abort, history
    <3>2. \E a : Answer(c, k, a)
      BY <2>2 DEF Prepare, Abort
    <3> QED
      BY <1>1, <2>1, <3>1, <3>2 DEF Applied
  <2>3. CASE CommitUnknown(c, k)
    <3>1. UNCHANGED <<debits, credits>> /\ rpc[c][k] = "sent" /\ Answer(c, k, "no")
      BY <2>3 DEF CommitUnknown, Served, bankVars
    <3> QED
      BY <1>1, <2>1, <3>1 DEF Applied
  <2>4. CASE SaveFlush(c, k)
    <3>1. UNCHANGED <<debits, credits>> /\ rpc[c][k] = "busy" /\ Answer(c, k, "yes")
      BY <2>4 DEF SaveFlush, history
    <3> QED
      BY <1>1, <2>1, <3>1 DEF Applied
  <2>5. CASE CommitApply(c, k)
    <3>1. /\ Answer(c, k, "busy") /\ rpc[c][k] = "sent"
          /\ \/ /\ k = "commitSource"
                /\ debits' = [debits EXCEPT ![TxOf[c]] = @ + 1]
                /\ credits' = credits
             \/ /\ k = "commitDest"
                /\ credits' = [credits EXCEPT ![TxOf[c]] = @ + 1]
                /\ debits' = debits
      BY <2>5, CommitEffect
    <3> SUFFICES ASSUME NEW t \in Tx, t = TxOf[c] PROVE Counts'
      BY Constants
    <3>2. Applied(c, k)' /\ \A d \in Call, j \in CommitKind : d # c \/ j # k =>
                              (Applied(d, j)' <=> Applied(d, j))
      BY <2>1, <3>1 DEF Applied
    <3>3. CASE k = "commitSource"
      <4>1. debits[t] = 0 /\ debits' = [debits EXCEPT ![t] = @ + 1] /\ credits' = credits
        BY <3>1, <3>3, FirstApplied
      <4>2. debits'[t] = 1 /\ \A u \in Tx \ {t} : debits'[u] = debits[u]
        BY <4>1 DEF TypeOK, BankTypeOK
      <4> QED
        BY <3>2, <3>3, <4>1, <4>2, Constants DEF Counts
    <3>4. CASE k = "commitDest"
      <4>1. credits[t] = 0 /\ credits' = [credits EXCEPT ![t] = @ + 1] /\ debits' = debits
        BY <3>1, <3>4, FirstApplied
      <4>2. credits'[t] = 1 /\ \A u \in Tx \ {t} : credits'[u] = credits[u]
        BY <4>1 DEF TypeOK, BankTypeOK
      <4> QED
        BY <3>2, <3>4, <4>1, <4>2, Constants DEF Counts
    <3> QED
      BY <3>1, <3>3, <3>4
  <2> QED
    BY <1>2, <2>2, <2>3, <2>4, <2>5 DEF BankServes
<1>3. ASSUME NEW c \in Call, PaymentBegins(c) \/ PaymentGoesOn(c) PROVE Counts'
  <2>1. UNCHANGED <<debits, credits>>
    BY <1>3, PaymentEffect DEF bankVars
  <2>2. \A d \in Call, k \in CommitKind : Applied(d, k)' <=> Applied(d, k)
    BY <1>3, SentOnce DEF Applied
  <2> QED
    BY <1>1, <2>1, <2>2
<1>4. CASE GatewayFails
  BY <1>1, <1>4, GatewayFailsEffect DEF rpcVars, bankVars, Applied
<1>5. CASE Bystander
  BY <1>1, <1>5, BystanderEffect DEF Applied
<1> QED
  BY <1>2, <1>3, <1>4, <1>5, NextCases

-----------------------------------------------------------------------------
\* What backs a status stays: answers and what was never asked do not change.
LEMMA StillBacked ==
  ASSUME NEW d \in Call, NEW status, Backed(status, d),
         \A k \in CommitKind \cup {"prepareSource"} :
            /\ rpc[d][k] \in {"none", "yes"} => rpc'[d][k] = rpc[d][k]
            /\ rpc'[d][k] = "none" => rpc[d][k] = "none",
         Over(d) => Over(d)'
  PROVE  Backed(status, d)'
BY DEF Backed, Owner, CommitKind

LEMMA OutcomesStep ==
  TypeOK /\ CallsInOrder /\ OneOwner /\ Outcomes /\ [Next]_vars => Outcomes'
<1> SUFFICES ASSUME TypeOK, CallsInOrder, OneOwner, Outcomes, [Next]_vars
             PROVE  Outcomes'
  OBVIOUS
<1> USE DEF Kind, PrepareKind, CommitKind, AbortKind
\* It is enough that backing stays and that the statuses hardly change.
<1>1. ASSUME \A d \in Call : \A s \in Status : Backed(s, d) => Backed(s, d)',
             \A t \in Tx : \/ logFile'[t].status = logFile[t].status
                           \/ logFile'[t].status \notin Final,
             \A t \in Tx : \/ transactionLogs'[t].status = transactionLogs[t].status
                           \/ /\ transactionLogs'[t].status \notin Final
                              /\ ~gatewayUp' \/ logFile'[t].status \notin Final,
             gatewayUp' => gatewayUp,
             ~gatewayUp' => \A c \in Call : pc'[c] \notin Running
      PROVE  Outcomes'
  <2>1. \A t \in Tx : transactionLogs[t].status \in Status /\ logFile[t].status \in Status
    BY DEF TypeOK, GatewayTypeOK, TransactionLog
  <2> QED
    BY <1>1, <2>1 DEF Outcomes, StatusBacked
<1>2. ASSUME NEW c \in Call, NEW k \in Kind, BankServes(c, k) PROVE Outcomes'
  <2>1. /\ UNCHANGED <<gatewayUp, transactionLogs, logFile, pc>>
        /\ rpc[c][k] \in {"sent", "busy"}
        /\ \E a \in {"busy", "yes", "no"} : Answer(c, k, a)
    BY <1>2, BankServesEffect DEF gatewayVars
  <2>2. \A d \in Call, j \in Kind : \/ rpc'[d][j] = rpc[d][j]
                                    \/ /\ rpc[d][j] \in {"sent", "busy"}
                                       /\ rpc'[d][j] # "none"
    BY <2>1 DEF Answer, TypeOK, PaymentsTypeOK
  <2>3. \A d \in Call : \A s \in Status : Backed(s, d) => Backed(s, d)'
    BY <2>1, <2>2, StillBacked DEF Over
  <2> QED
    BY <1>1, <2>1, <2>3 DEF Outcomes
<1>3. ASSUME NEW c \in Call, PaymentBegins(c) PROVE Outcomes'
  <2>1. \A d \in Call, j \in Kind : \/ rpc'[d][j] = rpc[d][j]
                                    \/ d = c /\ rpc[d][j] = "none"
    <3>1. UNCHANGED rpc \/ Send(c, "prepareSource")
      BY <1>3 DEF PaymentBegins, BeginPayment, RejectPayment, AcceptPayment, rpcVars
    <3>2. \A j \in Kind : rpc[c][j] = "none"
      BY <1>3 DEF PaymentBegins, BeginPayment, CallsInOrder, InOrder
    <3> QED
      BY <3>1, <3>2, SendEffect
  <2>2. ~Owner(c) /\ UNCHANGED <<gatewayUp, logFile>> /\ gatewayUp
    BY <1>3 DEF PaymentBegins, BeginPayment, CallsInOrder, InOrder, Owner, registry
  <2>3. \A d \in Call \ {c} : pc'[d] = pc[d]
    <3>1. \E l : Goto(c, l)
      BY <1>3 DEF PaymentBegins, BeginPayment, RejectPayment, AcceptPayment, Send
    <3> QED
      BY <3>1, GotoEffect
  <2>4. \A d \in Call : \A s \in Status : Backed(s, d) => Backed(s, d)'
    <3> SUFFICES ASSUME NEW d \in Call, NEW s \in Status, Backed(s, d)
                 PROVE  Backed(s, d)'
      OBVIOUS
    <3>1. d # c
      BY <2>2 DEF Backed
    <3> QED
      BY <2>1, <2>3, <3>1, StillBacked DEF Over
  <2>5. \A t \in Tx : \/ transactionLogs'[t].status = transactionLogs[t].status
                      \/ /\ transactionLogs'[t].status \notin Final
                         /\ logFile'[t].status \notin Final
    <3>1. CASE RejectPayment(c)
      BY <3>1 DEF RejectPayment
    <3>2. CASE AcceptPayment(c)
      <4> SUFFICES ASSUME NEW u \in Tx, u = TxOf[c]
                   PROVE  \A t \in Tx : \/ transactionLogs'[t] = transactionLogs[t]
                                        \/ /\ transactionLogs'[t].status \notin Final
                                           /\ logFile'[t].status \notin Final
        BY Constants
      <4>1. u \notin transactions /\ transactionLogs' = [transactionLogs EXCEPT ![u] = NewLog]
        BY <3>2 DEF AcceptPayment, Seen
      <4>2. transactionLogs'[u].status \notin Final
            /\ \A t \in Tx \ {u} : transactionLogs'[t] = transactionLogs[t]
        BY <4>1 DEF TypeOK, GatewayTypeOK, NewLog, NoLog, Final
      <4>3. logFile[u].status \notin Final
        <5>1. \A d \in Call : TxOf[d] = u => ~Owner(d)
          BY <4>1 DEF CallsInOrder, InOrder, Owner
        <5> QED
          BY <5>1 DEF Outcomes, StatusBacked, Backed
      <4> QED
        BY <2>2, <4>2, <4>3
    <3> QED
      BY <1>3, <3>1, <3>2 DEF PaymentBegins, BeginPayment
  <2> QED
    BY <1>1, <2>2, <2>4, <2>5
<1>4. ASSUME NEW c \in Call, PaymentGoesOn(c) PROVE Outcomes'
  <2> SUFFICES ASSUME NEW u \in Tx, u = TxOf[c] PROVE Outcomes'
    BY Constants
  <2>1. /\ pc[c] \in Running /\ UNCHANGED gatewayUp
        /\ \E l : Goto(c, l)
    BY <1>4 DEF PaymentGoesOn, GatewayHandler, PrepareSourceReturns, PrepareDestReturns,
       CommitSourceReturns, AfterCommitSource, CommitDestReturns, AbortSourceReturns,
       AbortDestReturns, AbortOver, PersistTransactionLogs, Written, SendAbort, Finish, StartAbort, Send,
       Accepted, Refused, Error, Failed, Running, registry
  <2>2. gatewayUp /\ Owner(c)
    BY <2>1 DEF Outcomes, CallsInOrder, InOrder
  <2>3. \A d \in Call \ {c} : pc'[d] = pc[d]
    BY <2>1, GotoEffect
  <2>4. \A d \in Call : \A s \in Status : Backed(s, d) /\ (d = c => Over(c)') => Backed(s, d)'
    <3>1. \A d \in Call, j \in Kind : \/ rpc'[d][j] = rpc[d][j]
                                      \/ rpc[d][j] = "none" /\ d = c /\ ~Over(c)
      <4>1. CASE pc[c] # "persist"
        <5>1. \A d \in Call \ {c} : rpc'[d] = rpc[d]
          <6>1. UNCHANGED rpc \/ \E k \in Kind : Send(c, k)
            BY <1>4 DEF PaymentGoesOn, GatewayHandler, PrepareSourceReturns, PrepareDestReturns,
               CommitSourceReturns, AfterCommitSource, CommitDestReturns, AbortSourceReturns,
               AbortDestReturns, PersistTransactionLogs, Written, SendAbort, StartAbort, rpcVars
          <6> QED
            BY <6>1, SendEffect
        <5>2. ~Over(c)
          BY <2>1, <4>1 DEF Over, Running, Ended
        <5> QED
          BY <1>4, <5>1, <5>2, SentOnce
      <4>2. CASE pc[c] = "persist"
        BY <1>4, <4>2 DEF PaymentGoesOn, GatewayHandler, PrepareSourceReturns, PrepareDestReturns,
           CommitSourceReturns, AfterCommitSource, CommitDestReturns, AbortSourceReturns,
           AbortDestReturns, AbortOver, PersistTransactionLogs, Written, SendAbort, Accepted, Refused,
           Error, Failed, rpcVars
      <4> QED
        BY <4>1, <4>2
    <3>2. \A d \in Call : Over(d) /\ (d = c => Over(c)') => Over(d)'
      BY <2>3 DEF Over
    <3> QED
      BY <3>1, <3>2, StillBacked DEF Backed
  \* Before its decision is made, nothing backs an outcome of this id.
  <2>5. ASSUME ~Over(c) PROVE \A d \in Call, s \in Status : Backed(s, d) => TxOf[d] # u
    BY <2>2, <2>5 DEF Backed, OneOwner
  <2>6. ASSUME UNCHANGED logFile, ~Over(c),
               \E entry \in TransactionLog :
                 /\ transactionLogs' = [transactionLogs EXCEPT ![u] = entry]
                 /\ \/ entry.status = transactionLogs[u].status
                    \/ entry.status \notin Final
                    \/ Backed(entry.status, c)'
        PROVE  Outcomes'
    <3> PICK entry \in TransactionLog :
                 /\ transactionLogs' = [transactionLogs EXCEPT ![u] = entry]
                 /\ \/ entry.status = transactionLogs[u].status
                    \/ entry.status \notin Final
                    \/ Backed(entry.status, c)'
      BY <2>6
    <3>1. transactionLogs'[u] = entry /\ \A t \in Tx \ {u} : transactionLogs'[t] = transactionLogs[t]
      BY DEF TypeOK, GatewayTypeOK
    <3>2. \A t \in Tx : transactionLogs[t].status \in Status /\ logFile[t].status \in Status
      BY DEF TypeOK, GatewayTypeOK, TransactionLog
    <3>3. \A t \in Tx, s \in Status : StatusBacked(s, t) => StatusBacked(s, t)'
      BY <2>4, <2>6 DEF StatusBacked, Backed
    <3>4. logFile[u].status \notin Final
      BY <2>5, <2>6, <3>2 DEF Outcomes, StatusBacked
    <3>5. StatusBacked(entry.status, u)'
      <4>1. CASE entry.status = transactionLogs[u].status
        BY <3>2, <3>3, <4>1 DEF Outcomes
      <4>2. CASE entry.status \notin Final
        BY <4>2 DEF StatusBacked
      <4>3. CASE Backed(entry.status, c)'
        BY <4>3 DEF StatusBacked
      <4> QED
        BY <4>1, <4>2, <4>3
    <3>6. \A t \in Tx : StatusBacked(transactionLogs[t].status, t)'
      BY <3>1, <3>2, <3>3, <3>5 DEF Outcomes, StatusBacked
    <3>7. \A t \in Tx : StatusBacked(logFile[t].status, t)'
      BY <2>6, <3>2, <3>3 DEF Outcomes, StatusBacked
    <3> QED
      BY <2>1, <2>2, <2>6, <3>1, <3>4, <3>6, <3>7 DEF Outcomes
  <2>7. transactionLogs[u] \in TransactionLog
    BY DEF TypeOK, GatewayTypeOK
  <2>8. CASE PrepareSourceReturns(c)
    <3>1. UNCHANGED logFile /\ ~Over(c)
      BY <2>8 DEF PrepareSourceReturns, Accepted, Failed, Refused, Error, Over, Ended
    <3>2. \/ UNCHANGED transactionLogs
          \/ transactionLogs' = [transactionLogs EXCEPT ![u].sourcePrepared = TRUE]
      BY <2>8 DEF PrepareSourceReturns
    <3>3. \E entry \in TransactionLog : /\ transactionLogs' = [transactionLogs EXCEPT ![u] = entry]
                                        /\ entry.status = transactionLogs[u].status
      <4>1. CASE UNCHANGED transactionLogs
        BY <2>7, <4>1 DEF TypeOK, GatewayTypeOK
      <4>2. CASE transactionLogs' = [transactionLogs EXCEPT ![u].sourcePrepared = TRUE]
        <5> DEFINE entry == [transactionLogs[u] EXCEPT !.sourcePrepared = TRUE]
        <5>1. entry \in TransactionLog /\ entry.status = transactionLogs[u].status
          BY <2>7 DEF TransactionLog
        <5>2. transactionLogs' = [transactionLogs EXCEPT ![u] = entry]
          BY <4>2
        <5> QED
          BY <5>1, <5>2
      <4> QED
        BY <3>2, <4>1, <4>2
    <3> QED
      BY <2>6, <3>1, <3>3
  <2>9. CASE PrepareDestReturns(c)
    <3>1. UNCHANGED logFile /\ ~Over(c)
      BY <2>9 DEF PrepareDestReturns, Accepted, Failed, Refused, Error, Over, Ended
    <3>2. \/ UNCHANGED transactionLogs
          \/ transactionLogs' = [transactionLogs EXCEPT ![u].destPrepared = TRUE,
                                                        ![u].status = "prepared"]
      BY <2>9 DEF PrepareDestReturns
    <3>3. \E entry \in TransactionLog : /\ transactionLogs' = [transactionLogs EXCEPT ![u] = entry]
                                        /\ \/ entry.status = transactionLogs[u].status
                                           \/ entry.status \notin Final
      <4>1. CASE UNCHANGED transactionLogs
        BY <2>7, <4>1 DEF TypeOK, GatewayTypeOK
      <4>2. CASE transactionLogs' = [transactionLogs EXCEPT ![u].destPrepared = TRUE,
                                                            ![u].status = "prepared"]
        <5> DEFINE entry == [transactionLogs[u] EXCEPT !.destPrepared = TRUE, !.status = "prepared"]
        <5>1. entry \in TransactionLog /\ entry.status \notin Final
          BY <2>7 DEF TransactionLog, Status, Final
        <5>2. transactionLogs' = [transactionLogs EXCEPT ![u] = entry]
          BY <4>2 DEF TypeOK, GatewayTypeOK
        <5> QED
          BY <5>1, <5>2
      <4> QED
        BY <3>2, <4>1, <4>2
    <3> QED
      BY <2>6, <3>1, <3>3
  <2>10. CASE CommitSourceReturns(c) \/ AbortSourceReturns(c) \/ \E k \in AbortKind : SendAbort(c, k)
    <3>1. UNCHANGED <<logFile, transactionLogs>> /\ ~Over(c)
      BY <2>10 DEF CommitSourceReturns, AfterCommitSource, AbortSourceReturns, AbortOver, SendAbort,
         Accepted, Failed, Refused, Error, Over, Ended
    <3>2. \E entry \in TransactionLog : /\ transactionLogs' = [transactionLogs EXCEPT ![u] = entry]
                                        /\ entry.status = transactionLogs[u].status
      BY <2>7, <3>1 DEF TypeOK, GatewayTypeOK
    <3> QED
      BY <2>6, <3>1, <3>2
  \* The decision: the status follows from the answers.
  <2>11. ASSUME NEW s \in Final, Finish(c, s), UNCHANGED <<rpc, logFile>>, ~Over(c),
                s = "committed" => rpc[c]["commitDest"] = "yes",
                s = "aborted" => rpc[c]["commitDest"] = "none",
                s = "partial-commit" => rpc[c]["commitSource"] = "yes"
         PROVE  Outcomes'
    <3>1. Owner(c)' /\ Over(c)'
      BY <2>2, <2>11, GotoEffect DEF Finish, Owner, Over
    <3>2. Backed(s, c)'
      BY <2>11, <3>1 DEF Backed
    <3>3. \E entry \in TransactionLog : /\ transactionLogs' = [transactionLogs EXCEPT ![u] = entry]
                                        /\ entry.status = s
      <4> DEFINE entry == [transactionLogs[u] EXCEPT !.status = s]
      <4>1. entry \in TransactionLog /\ entry.status = s
        BY <2>7 DEF TransactionLog, Status, Final
      <4>2. transactionLogs' = [transactionLogs EXCEPT ![u] = entry]
        BY <2>11 DEF Finish
      <4> QED
        BY <4>1, <4>2
    <3> QED
      BY <2>6, <2>11, <3>2, <3>3
  <2>12. CASE CommitDestReturns(c)
    <3>1. UNCHANGED <<rpc, logFile>> /\ pc[c] = "commitDest" /\ ~Over(c)
      BY <2>12 DEF CommitDestReturns, Accepted, Failed, Refused, Error, Over, Ended, rpcVars
    <3>2. rpc[c]["commitSource"] = "yes"
      BY <3>1 DEF CallsInOrder, InOrder
    <3>3. \/ Finish(c, "committed") /\ rpc[c]["commitDest"] = "yes"
          \/ Finish(c, "partial-commit")
      BY <2>12 DEF CommitDestReturns, Accepted, PartialCommit
    <3> QED
      BY <2>11, <3>1, <3>2, <3>3 DEF Final
  <2>13. CASE AbortDestReturns(c)
    <3>1. UNCHANGED <<rpc, logFile>> /\ pc[c] = "abortDest" /\ ~Over(c) /\ Finish(c, "aborted")
      BY <2>13 DEF AbortDestReturns, AbortOver, Accepted, Failed, Refused, Error, Over, Ended,
         rpcVars
    <3>2. rpc[c]["commitDest"] = "none"
      BY <3>1 DEF CallsInOrder, InOrder
    <3> QED
      BY <2>11, <3>1, <3>2 DEF Final
  <2>14. CASE PersistTransactionLogs(c)
    <3>1. logFile' = transactionLogs /\ UNCHANGED <<transactionLogs, gatewayUp>> /\ Over(c)'
      BY <2>14, GotoEffect DEF PersistTransactionLogs, Written, Over, Ended, registry
    <3>2. \A t \in Tx : transactionLogs[t].status \in Status
      BY DEF TypeOK, GatewayTypeOK, TransactionLog
    <3>3. \A t \in Tx : StatusBacked(transactionLogs[t].status, t)'
      BY <2>4, <3>1, <3>2 DEF Outcomes, StatusBacked
    <3> QED
      BY <2>2, <3>1, <3>3 DEF Outcomes
  <2> QED
    BY <1>4, <2>8, <2>9, <2>10, <2>12, <2>13, <2>14 DEF PaymentGoesOn, GatewayHandler
<1>5. CASE GatewayFails
  <2>1. UNCHANGED rpc /\ ~gatewayUp' /\ logFile' \in {logFile, NoLogs} /\ transactionLogs' = NoLogs
        /\ pc' = [c \in Call |-> IF pc[c] \in Running THEN "dead" ELSE pc[c]]
    BY <1>5, GatewayFailsEffect DEF rpcVars
  <2>2. \A d \in Call : \A s \in Status : Backed(s, d) => Backed(s, d)'
    BY <2>1, StillBacked DEF Over, Running, Ended
  <2>3. \A t \in Tx : NoLogs[t].status \notin Final
    BY DEF NoLogs, NoLog, Final
  <2>4. \A c \in Call : pc'[c] \notin Running
    BY <2>1 DEF Running
  <2> QED
    BY <1>1, <2>1, <2>2, <2>3, <2>4
<1>6. CASE Bystander
  <2>1. UNCHANGED <<rpc, pc, logFile>>
    BY <1>6, BystanderEffect
  <2>2. \A d \in Call : \A s \in Status : Backed(s, d) => Backed(s, d)'
    BY <2>1 DEF Backed, Owner, Over
  <2>3. CASE UNCHANGED <<gatewayUp, transactionLogs>>
    BY <1>1, <2>1, <2>2, <2>3 DEF Outcomes
  <2>4. CASE GatewayComesUp
    <3>1. gatewayUp' /\ transactionLogs' = logFile
      BY <2>4 DEF GatewayComesUp, GatewayRestart, LoadTransactionLogs
    <3>2. \A t \in Tx : logFile[t].status \in Status
      BY DEF TypeOK, GatewayTypeOK, TransactionLog
    <3>3. \A t \in Tx : StatusBacked(logFile[t].status, t)'
      BY <2>1, <2>2, <3>2 DEF Outcomes, StatusBacked
    <3> QED
      BY <2>1, <3>1, <3>3 DEF Outcomes
  <2> QED
    BY <1>6, <2>3, <2>4 DEF Bystander, BankSaves, BankComesUp, Start, Serve, RegisterServer,
       RegisterFails, BankDies, BankCleans, ClientLogsIn, RegisterClient, ClientFails, ClientDies,
       registry, gatewayVars, vars
<1> QED
  BY <1>2, <1>3, <1>4, <1>5, <1>6, NextCases

-----------------------------------------------------------------------------
\* The answer "ok" is given in one step only, to a payment logged committed.
LEMMA ReplyEffect ==
  ASSUME TypeOK, CallsInOrder, OneOwner, Outcomes,
         NEW c \in Call, PaymentBegins(c) \/ PaymentGoesOn(c)
  PROVE  /\ pc[c] # "done"
         /\ \A d \in Call \ {c} : reply'[d] = reply[d] /\ pc'[d] = pc[d]
         /\ reply'[c] = "ok" => \/ reply[c] = "ok"
                                \/ pc'[c] = "done" /\ rpc'[c]["commitDest"] = "yes"
         /\ reply' # reply => \/ reply' = [reply EXCEPT ![c] = "failed"]
                              \/ /\ reply' = [reply EXCEPT ![c] = "ok"]
                                 /\ rpc[c]["commitDest"] = "yes"
<1>1. CASE PaymentBegins(c)
  <2>1. /\ pc[c] = "idle"
        /\ \E l : Goto(c, l)
        /\ UNCHANGED reply \/ reply' = [reply EXCEPT ![c] = "failed"]
    BY <1>1 DEF PaymentBegins, BeginPayment, RejectPayment, AcceptPayment, Send
  <2> QED
    BY <2>1, GotoEffect DEF TypeOK, GatewayTypeOK
<1>2. CASE PaymentGoesOn(c)
  <2>1. CASE PersistTransactionLogs(c)
    <3>1. /\ pc[c] = "persist" /\ Goto(c, "done") /\ UNCHANGED rpc
          /\ reply' = [reply EXCEPT ![c] =
                         IF transactionLogs[TxOf[c]].status = "committed" THEN "ok" ELSE "failed"]
      BY <2>1 DEF PersistTransactionLogs, Written, rpcVars
    <3>2. ASSUME transactionLogs[TxOf[c]].status = "committed"
          PROVE  rpc[c]["commitDest"] = "yes"
      <4>1. Owner(c)
        BY <3>1 DEF CallsInOrder, InOrder, Running
      <4>2. PICK d \in Call : TxOf[d] = TxOf[c] /\ Backed("committed", d)
        BY <3>2, Constants DEF Outcomes, StatusBacked, Final
      <4> QED
        BY <4>1, <4>2 DEF OneOwner, Backed
    <3> QED
      BY <3>1, <3>2, GotoEffect DEF TypeOK, GatewayTypeOK
  <2>2. CASE ~PersistTransactionLogs(c)
    <3>1. UNCHANGED reply /\ pc[c] \in Kind /\ \E l : Goto(c, l)
      BY <1>2, <2>2 DEF PaymentGoesOn, GatewayHandler, PrepareSourceReturns, PrepareDestReturns,
         CommitSourceReturns, AfterCommitSource, CommitDestReturns, AbortSourceReturns,
         AbortDestReturns, AbortOver, SendAbort, Finish, StartAbort, Send, Accepted, Refused,
         Error, Failed, Kind, PrepareKind, CommitKind, AbortKind
    <3> QED
      BY <3>1, GotoEffect DEF Kind, PrepareKind, CommitKind, AbortKind
  <2> QED
    BY <2>1, <2>2
<1> QED
  BY <1>1, <1>2

LEMMA RepliesStep ==
  TypeOK /\ CallsInOrder /\ OneOwner /\ Outcomes /\ Replies /\ [Next]_vars => Replies'
<1> SUFFICES ASSUME TypeOK, CallsInOrder, OneOwner, Outcomes, Replies, [Next]_vars
             PROVE  Replies'
  OBVIOUS
<1> USE DEF Kind, PrepareKind, CommitKind, AbortKind
<1>1. ASSUME NEW c \in Call, NEW k \in Kind, BankServes(c, k) PROVE Replies'
  <2>1. UNCHANGED <<reply, pc>> /\ rpc[c][k] # "yes" /\ \E a : Answer(c, k, a)
    BY <1>1, BankServesEffect DEF gatewayVars
  <2>2. \A d \in Call : rpc[d]["commitDest"] = "yes" => rpc'[d]["commitDest"] = "yes"
    BY <2>1 DEF Answer, TypeOK, PaymentsTypeOK
  <2> QED
    BY <2>1, <2>2 DEF Replies
<1>2. ASSUME NEW c \in Call, PaymentBegins(c) \/ PaymentGoesOn(c) PROVE Replies'
  <2>1. \A d \in Call : rpc[d]["commitDest"] = "yes" => rpc'[d]["commitDest"] = "yes"
    BY <1>2, SentOnce
  <2> QED
    BY <1>2, <2>1, ReplyEffect DEF Replies
<1>3. CASE GatewayFails
  BY <1>3, GatewayFailsEffect DEF Replies, rpcVars, Running
<1>4. CASE Bystander
  BY <1>4, BystanderEffect DEF Replies
<1> QED
  BY <1>1, <1>2, <1>3, <1>4, NextCases

-----------------------------------------------------------------------------
LEMMA InitInvariant == Init => IInv
<1> SUFFICES ASSUME Init PROVE IInv
  OBVIOUS
<1> USE DEF Init, PaymentsInit, BankInit, GatewayInit, Kind, PrepareKind, CommitKind, AbortKind
<1>1. TypeOK
  BY InitType
<1>2. CallsInOrder /\ OneOwner
  BY DEF CallsInOrder, OneOwner, InOrder, Owner, Over, Running, Ended
<1>3. Connections /\ Entries
  BY Constants DEF Connections, Entries
<1>4. Counts
  BY Constants DEF Counts, Applied
<1>5. Outcomes /\ Replies
  BY DEF Outcomes, Replies, StatusBacked, NoLogs, NoLog, Final, Running
<1> QED
  BY <1>1, <1>2, <1>3, <1>4, <1>5 DEF IInv

\* The invariant of all payments, also those inside one bank: what the gateway
\* knows and writes does not depend on what the banks do with an entry.
GatewayInv == TypeOK /\ CallsInOrder /\ OneOwner /\ Outcomes

\* The gateway's half of the invariant holds whatever the payments are.
THEOREM GatewayInvariant == Spec => []GatewayInv
<1>1. Init => GatewayInv
  BY InitInvariant DEF IInv, GatewayInv
<1>2. GatewayInv /\ [Next]_vars => GatewayInv'
  BY TypeStep, OrderStep, OutcomesStep DEF GatewayInv
<1> QED
  BY <1>1, <1>2, PTL DEF Spec

\* The whole invariant is inductive when no payment is inside one bank.
THEOREM Invariant == ASSUME CrossBank PROVE Spec => []IInv
<1>1. Init => IInv
  BY InitInvariant
<1>2. IInv /\ [Next]_vars => IInv'
  BY TypeStep, OrderStep, ConnectionsStep, EntriesStep, CountsStep, OutcomesStep, RepliesStep
     DEF IInv
<1> QED
  BY <1>1, <1>2, PTL DEF Spec

LEMMA InvariantOnce == IInv => OnceAndInOrder
<1> SUFFICES ASSUME IInv, NEW t \in Tx, credits[t] = 1 PROVE debits[t] = 1
  BY DEF IInv, Counts, OnceAndInOrder
<1>1. PICK c \in Call : TxOf[c] = t /\ Applied(c, "commitDest")
  BY DEF IInv, Counts
<1>2. Applied(c, "commitSource")
  BY <1>1 DEF IInv, CallsInOrder, InOrder, Applied
<1> QED
  BY <1>1, <1>2 DEF IInv, Counts

\* No payment between two banks debits or credits twice, or credits without
\* debiting, under any interleaving, loss, death or restart.
THEOREM Once == ASSUME CrossBank PROVE Spec => []OnceAndInOrder
BY Invariant, InvariantOnce, PTL

LEMMA InvariantPrepared == IInv => BothPrepared
<1> SUFFICES ASSUME IInv, NEW t \in Tx, debits[t] = 1 \/ credits[t] = 1
             PROVE  \E c \in Call : /\ TxOf[c] = t
                                    /\ rpc[c]["prepareSource"] = "yes"
                                    /\ rpc[c]["prepareDest"] = "yes"
  BY DEF IInv, Counts, BothPrepared
<1>1. PICK c \in Call : TxOf[c] = t /\ (Applied(c, "commitSource") \/ Applied(c, "commitDest"))
  BY DEF IInv, Counts
<1> QED
  BY <1>1 DEF IInv, CallsInOrder, InOrder, Applied

\* No bank applies a half of a payment that one of the banks did not prepare.
THEOREM Prepared == ASSUME CrossBank PROVE Spec => []BothPrepared
BY Invariant, InvariantPrepared, PTL

LEMMA BackedIsTrue ==
  ASSUME IInv, NEW t \in Tx, NEW s \in Status, StatusBacked(s, t)
  PROVE  StatusIsTrue(s, t)
<1> USE DEF Kind, PrepareKind, CommitKind, AbortKind
<1>1. CASE s \notin Final
  BY <1>1 DEF Final, StatusIsTrue
<1>2. CASE s \in Final
  <2>1. PICK c \in Call : TxOf[c] = t /\ Backed(s, c)
    BY <1>2 DEF StatusBacked
  <2>2. rpc[c]["commitDest"] = "yes" => rpc[c]["commitSource"] = "yes"
    BY DEF IInv, CallsInOrder, InOrder
  <2>3. ASSUME rpc[c]["commitDest"] = "none" PROVE credits[t] = 0
    <3>1. ASSUME NEW d \in Call, TxOf[d] = t, Applied(d, "commitDest") PROVE FALSE
      BY <2>1, <2>3, <3>1 DEF IInv, CallsInOrder, InOrder, OneOwner, Backed, Applied
    <3> QED
      BY <3>1 DEF IInv, Counts
  <2> QED
    BY <2>1, <2>2, <2>3 DEF IInv, Counts, Backed, Applied, StatusIsTrue
<1> QED
  BY <1>1, <1>2

LEMMA InvariantLog == IInv => LogIsTrue
BY BackedIsTrue DEF IInv, LogIsTrue, Outcomes, TypeOK, GatewayTypeOK, TransactionLog

\* What the log says of a payment's money is true, in memory and on disk.
THEOREM Log == ASSUME CrossBank PROVE Spec => []LogIsTrue
BY Invariant, InvariantLog, PTL

LEMMA OutcomeStep ==
  GatewayInv /\ [Next]_vars =>
    \A t \in Tx : logFile[t].status \in Final =>
      logFile'[t].status = logFile[t].status \/ (gatewayUp /\ ~gatewayUp')
<1> SUFFICES ASSUME GatewayInv, [Next]_vars, NEW t \in Tx, logFile[t].status \in Final
             PROVE  logFile'[t].status = logFile[t].status \/ (gatewayUp /\ ~gatewayUp')
  OBVIOUS
<1>1. CASE UNCHANGED logFile
  BY <1>1
<1>2. ASSUME NEW c \in Call, PersistTransactionLogs(c)
      PROVE  logFile'[t].status = logFile[t].status
  <2>1. logFile' = transactionLogs /\ pc[c] \in Running
    BY <1>2 DEF PersistTransactionLogs, Written, Running
  <2>2. gatewayUp
    BY <2>1 DEF GatewayInv, Outcomes
  <2> QED
    BY <2>1, <2>2 DEF GatewayInv, Outcomes
<1>3. CASE GatewayFails
  BY <1>3, GatewayFailsEffect DEF GatewayDies
<1>4. ASSUME NEW c \in Call, NEW k \in Kind, BankServes(c, k) PROVE UNCHANGED logFile
  BY <1>4 DEF BankServes, gatewayVars
<1>5. ASSUME NEW c \in Call, PaymentBegins(c) PROVE UNCHANGED logFile
  BY <1>5 DEF PaymentBegins, BeginPayment
<1>6. ASSUME NEW c \in Call, PaymentGoesOn(c) PROVE UNCHANGED logFile \/ PersistTransactionLogs(c)
  BY <1>6 DEF PaymentGoesOn, GatewayHandler, PrepareSourceReturns, PrepareDestReturns,
     CommitSourceReturns, CommitDestReturns, AbortSourceReturns, AbortDestReturns, SendAbort
<1> QED
  BY <1>1, <1>2, <1>3, <1>4, <1>5, <1>6, NextCases, BystanderEffect

\* A final status on disk is overwritten by nothing but a death of the gateway.
THEOREM Kept == Spec => OutcomeIsKept
<1>1. GatewayInv /\ [Next]_vars =>
        [\A t \in Tx : logFile[t].status \in Final =>
           logFile'[t].status = logFile[t].status \/ (gatewayUp /\ ~gatewayUp')]_vars
  BY OutcomeStep
<1> QED
  BY <1>1, GatewayInvariant, PTL DEF Spec, OutcomeIsKept

-----------------------------------------------------------------------------
LEMMA ContractInit == Init => Contract!Init
BY DEF Init, BankInit, GatewayInit, Contract!Init, Confirmed

LEMMA ContractStep ==
  ASSUME CrossBank, IInv, [Next]_vars
  PROVE  [Contract!Next]_(Contract!contractVars)
<1> USE DEF IInv
<1>1. ASSUME UNCHANGED <<debits, credits, reply>> PROVE UNCHANGED Contract!contractVars
  BY <1>1 DEF Contract!contractVars, Confirmed
<1>2. ASSUME NEW c \in Call, NEW k \in Kind, BankServes(c, k)
      PROVE  Contract!Next \/ UNCHANGED Contract!contractVars
  <2>1. UNCHANGED reply
    BY <1>2 DEF BankServes, gatewayVars
  <2>2. CASE ~CommitApply(c, k)
    BY <1>1, <1>2, <2>1, <2>2 DEF BankServes, Prepare, CommitUnknown, SaveFlush, Abort, bankVars,
       history
  <2>3. CASE CommitApply(c, k)
    <3> SUFFICES ASSUME NEW t \in Tx, t = TxOf[c] PROVE Contract!Next
      BY Constants
    <3>1. UNCHANGED Confirmed
      BY <2>1 DEF Confirmed
    <3>2. \/ /\ debits[t] = 0
             /\ debits' = [debits EXCEPT ![t] = 1] /\ credits' = credits
          \/ /\ credits[t] = 0 /\ debits[t] = 1
             /\ credits' = [credits EXCEPT ![t] = 1] /\ debits' = debits
      <4>1. /\ rpc[c][k] = "sent"
            /\ \/ /\ k = "commitSource"
                  /\ debits' = [debits EXCEPT ![t] = @ + 1] /\ credits' = credits
               \/ /\ k = "commitDest"
                  /\ credits' = [credits EXCEPT ![t] = @ + 1] /\ debits' = debits
        BY <2>3, CommitEffect
      <4>2. CASE k = "commitSource"
        BY <4>1, <4>2, FirstApplied DEF TypeOK, BankTypeOK
      <4>3. CASE k = "commitDest"
        <5>1. rpc[c]["commitSource"] = "yes"
          BY <4>1, <4>3 DEF CallsInOrder, InOrder
        <5>2. debits[t] = 1
          BY <5>1 DEF Counts, Applied
        <5> QED
          BY <4>1, <4>3, <5>2, FirstApplied DEF TypeOK, BankTypeOK
      <4> QED
        BY <4>1, <4>2, <4>3
    <3> QED
      BY <3>1, <3>2 DEF Contract!Next, Contract!Take, Contract!Give
  <2> QED
    BY <2>2, <2>3
<1>3. ASSUME NEW c \in Call, PaymentBegins(c) \/ PaymentGoesOn(c)
      PROVE  Contract!Next \/ UNCHANGED Contract!contractVars
  <2>1. UNCHANGED <<debits, credits>>
    BY <1>3, PaymentEffect DEF bankVars
  <2>2. reply[c] # "ok"
    BY <1>3, ReplyEffect DEF Replies
  <2>3. CASE reply' = reply
    BY <1>1, <2>1, <2>3
  <2>4. CASE reply' = [reply EXCEPT ![c] = "failed"]
    <3>1. \A d \in Call : reply'[d] = "ok" <=> reply[d] = "ok"
      BY <2>2, <2>4 DEF TypeOK, GatewayTypeOK
    <3>2. Confirmed' = Confirmed
      BY <3>1 DEF Confirmed
    <3> QED
      BY <2>1, <3>2 DEF Contract!contractVars
  <2>5. CASE reply' = [reply EXCEPT ![c] = "ok"] /\ rpc[c]["commitDest"] = "yes"
    <3>1. \A d \in Call : reply'[d] = "ok" <=> reply[d] = "ok" \/ d = c
      BY <2>5 DEF TypeOK, GatewayTypeOK
    <3>2. Confirmed' = Confirmed \cup {TxOf[c]}
      BY <3>1 DEF Confirmed
    <3>3. credits[TxOf[c]] = 1 /\ TxOf[c] \in Tx
      BY <2>5, Constants DEF Counts, Applied
    <3> QED
      BY <2>1, <3>2, <3>3 DEF Contract!Next, Contract!Confirm
  <2> QED
    BY <1>3, <2>3, <2>4, <2>5, ReplyEffect
<1>4. CASE GatewayFails
  BY <1>1, <1>4, GatewayFailsEffect DEF bankVars
<1>5. CASE Bystander
  BY <1>1, <1>5, BystanderEffect
<1> QED
  BY <1>2, <1>3, <1>4, <1>5, NextCases

\* The gateway and the banks implement the contract: every step takes, gives
\* or confirms one payment, or changes nothing the contract speaks about.
THEOREM Refinement == ASSUME CrossBank PROVE Spec => KeepsContract
<1>1. IInv /\ [Next]_vars => [Contract!Next]_(Contract!contractVars)
  BY ContractStep
<1> QED
  BY <1>1, ContractInit, Invariant, PTL DEF Spec, KeepsContract, Contract!Spec
=============================================================================
