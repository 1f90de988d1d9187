--------------------------- MODULE PaymentGateway ---------------------------
(***************************************************************************)
(* The payment gateway, payment_gateway/main.go: registration of banks and *)
(* clients, MakePayment with its two-phase commit, abortTransaction and    *)
(* the two files it keeps.  Every invocation of MakePayment is a goroutine *)
(* of its own; pc[c] is the remote call invocation c waits for.  The steps *)
(* between two remote calls touch only the log under its mutex, and are    *)
(* one step here.                                                          *)
(*                                                                         *)
(* Every remote call uses the context of the client's request.  When the   *)
(* client dies the context is cancelled: the call being waited for returns *)
(* an error, whatever the bank does with it, and later calls are not sent. *)
(***************************************************************************)
EXTENDS Payments

CONSTANTS MaxGatewayRuns,   \* bound: how often the gateway is started
          Mortal            \* bound: the users whose client may die

ASSUME GatewayAssumption == /\ MaxGatewayRuns \in Nat \ {0}
                            /\ Mortal \subseteq User

VARIABLES
  gatewayUp,
  gatewayRuns,
  users_loggedin,     \* the users whose client logged in since the start
  bankservers_conns,  \* per bank the incarnation registered last, 0 for none
  transactions,       \* transactions.txt, the ids that were ever begun
  transactionLogs,    \* the log entries in memory
  logFile,            \* transaction_logs.json
  pc,                 \* where each invocation is
  cancelled,          \* the invocations whose client died
  reply               \* what each invocation answered

gatewayVars == <<gatewayUp, gatewayRuns, users_loggedin, bankservers_conns,
                 transactions, transactionLogs, logFile, pc, cancelled, reply>>

Status == {"none", "preparing", "prepared", "committed", "aborted", "partial-commit"}
Final  == {"committed", "aborted", "partial-commit"}
TransactionLog == [status: Status, sourcePrepared: BOOLEAN, destPrepared: BOOLEAN]
NoLog   == [status |-> "none", sourcePrepared |-> FALSE, destPrepared |-> FALSE]
NewLog  == [NoLog EXCEPT !.status = "preparing"]
NoLogs  == [t \in Tx |-> NoLog]

\* Faulty variant: the status is a bare literal in the code, and misspelt.
PartialCommitMisspelt == "partial_commit"
PartialCommit == "partial-commit"

Ended   == {"done", "dead"}
Running == Kind \cup {"persist"}
Reply   == {"none", "ok", "failed"}

GatewayTypeOK == /\ gatewayUp \in BOOLEAN
                 /\ gatewayRuns \in Nat
                 /\ users_loggedin \subseteq User
                 /\ bankservers_conns \in [Bank -> Nat]
                 /\ transactions \subseteq Tx
                 /\ transactionLogs \in [Tx -> TransactionLog]
                 /\ logFile \in [Tx -> TransactionLog]
                 /\ pc \in [Call -> {"idle"} \cup Running \cup Ended]
                 /\ cancelled \subseteq Call
                 /\ reply \in [Call -> Reply]

GatewayInit == /\ gatewayUp = TRUE
               /\ gatewayRuns = 1
               /\ users_loggedin = {}
               /\ bankservers_conns = [b \in Bank |-> 0]
               /\ transactions = {}
               /\ transactionLogs = NoLogs
               /\ logFile = NoLogs
               /\ pc = [c \in Call |-> "idle"]
               /\ cancelled = {}
               /\ reply = [c \in Call |-> "none"]

registry == <<gatewayUp, gatewayRuns, users_loggedin, bankservers_conns>>

Live(b) == phase[b] = "serving" /\ bankservers_conns[b] = incarnation[b]

Goto(c, l) == pc' = [pc EXCEPT ![c] = l]

\* Invocation c makes remote call k: nothing is sent on a cancelled context.
Send(c, k) == /\ Goto(c, k)
              /\ rpc' = [rpc EXCEPT ![c][k] = IF c \in cancelled THEN @ ELSE "sent"]

\* What becomes of the remote call that invocation c waits for.
Refused(c, k)  == pc[c] = k /\ rpc[c][k] = "no"
\* Faulty variant: a bank that is gone is waited for.
ErrorOnCancelOnly(c, k) == pc[c] = k /\ c \in cancelled
Error(c, k)    == pc[c] = k /\ (~Reachable(c, k) \/ c \in cancelled)
\* Faulty variant: neither err nor Ready or Success is looked at.
AcceptedUnchecked(c, k) == Error(c, k) \/ (pc[c] = k /\ rpc[c][k] \in {"yes", "no"})
Accepted(c, k) == pc[c] = k /\ rpc[c][k] = "yes"
Failed(c, k)   == Refused(c, k) \/ Error(c, k)

\* abortTransaction starts at the source bank; the entry decides what is sent.
StartAbort(c) == Goto(c, "abortSource") /\ UNCHANGED rpc

-----------------------------------------------------------------------------
\* RegisterServer: from now on new payments use this incarnation of the bank.
RegisterServer(b) ==
  /\ gatewayUp
  /\ phase[b] = "loaded"
  /\ phase' = [phase EXCEPT ![b] = "registered"]
  /\ bankservers_conns' = [bankservers_conns EXCEPT ![b] = incarnation[b]]
  /\ UNCHANGED <<rpcVars, incarnation, gatewayUp, gatewayRuns, users_loggedin,
                 transactions, transactionLogs, logFile, pc, cancelled, reply>>

\* A bank that finds no gateway to register with exits.
RegisterFails(b) ==
  /\ ~gatewayUp
  /\ phase[b] = "loaded"
  /\ phase' = [phase EXCEPT ![b] = "down"]
  /\ UNCHANGED <<rpcVars, incarnation, gatewayVars>>

\* RegisterClient, once bank b has confirmed the login: see AuthenticateUser.
RegisterClient(u, b) ==
  /\ gatewayUp
  /\ Live(b)
  /\ users_loggedin' = users_loggedin \cup {u}
  /\ UNCHANGED <<rpcVars, procVars, gatewayUp, gatewayRuns, bankservers_conns,
                 transactions, transactionLogs, logFile, pc, cancelled, reply>>

-----------------------------------------------------------------------------
\* The first part of MakePayment: the login, the id in transactions.txt, the log
\* entry and the two connections, all before the first remote call.
Seen(c) == TxOf[c] \in transactions

RejectPayment(c) ==
  /\ Pay(c).from \notin users_loggedin \/ Seen(c)
  /\ Goto(c, "done")
  /\ reply' = [reply EXCEPT ![c] = "failed"]
  /\ UNCHANGED <<rpcVars, transactions, transactionLogs>>

AcceptPayment(c) ==
  LET src == bankservers_conns[Pay(c).fromBank]
      dst == bankservers_conns[Pay(c).toBank]
  IN  /\ Pay(c).from \in users_loggedin
      /\ ~Seen(c)
      /\ transactions' = transactions \cup {TxOf[c]}
      /\ transactionLogs' = [transactionLogs EXCEPT ![TxOf[c]] = NewLog]
      /\ \/ /\ src = 0 \/ dst = 0
            /\ Goto(c, "done")
            /\ reply' = [reply EXCEPT ![c] = "failed"]
            /\ UNCHANGED rpcVars
         \/ /\ src # 0 /\ dst # 0
            /\ client' = [client EXCEPT ![c] = [k \in Kind |->
                 IF k \in AbortKind THEN @[k]
                 ELSE IF k \in SourceKind THEN src ELSE dst]]
            /\ Send(c, "prepareSource")
            /\ UNCHANGED reply

\* Faulty variant: a new entry is on disk before the id was looked up.
BeginPaymentLogged(c) ==
  /\ gatewayUp
  /\ pc[c] = "idle"
  /\ logFile' = [logFile EXCEPT ![TxOf[c]] = NewLog]
  /\ RejectPayment(c) \/ AcceptPayment(c)
  /\ UNCHANGED <<procVars, registry, cancelled>>

BeginPayment(c) ==
  /\ gatewayUp
  /\ pc[c] = "idle"
  /\ RejectPayment(c) \/ AcceptPayment(c)
  /\ UNCHANGED <<procVars, registry, logFile, cancelled>>

PrepareSourceReturns(c) ==
  /\ \/ /\ Accepted(c, "prepareSource")
        /\ transactionLogs' = [transactionLogs EXCEPT ![TxOf[c]].sourcePrepared = TRUE]
        /\ Send(c, "prepareDest")
     \/ /\ Failed(c, "prepareSource")
        /\ StartAbort(c)
        /\ UNCHANGED transactionLogs
  /\ UNCHANGED <<client, procVars, registry, transactions, logFile, cancelled, reply>>

PrepareDestReturns(c) ==
  /\ \/ /\ Accepted(c, "prepareDest")
        /\ transactionLogs' = [transactionLogs EXCEPT ![TxOf[c]].destPrepared = TRUE,
                                                      ![TxOf[c]].status = "prepared"]
        /\ Send(c, "commitSource")
     \/ /\ Failed(c, "prepareDest")
        /\ StartAbort(c)
        /\ UNCHANGED transactionLogs
  /\ UNCHANGED <<client, procVars, registry, transactions, logFile, cancelled, reply>>

\* Faulty variant: an error of the first commit is only logged.
AfterCommitSourceGoesOn(c) ==
  \/ Accepted(c, "commitSource") /\ Send(c, "commitDest")
  \/ Error(c, "commitSource") /\ Send(c, "commitDest")
  \/ Refused(c, "commitSource") /\ StartAbort(c)
AfterCommitSource(c) ==
  \/ Accepted(c, "commitSource") /\ Send(c, "commitDest")
  \/ Failed(c, "commitSource") /\ StartAbort(c)

CommitSourceReturns(c) ==
  /\ AfterCommitSource(c)
  /\ UNCHANGED <<client, procVars, registry, transactions, transactionLogs, logFile,
                 cancelled, reply>>

\* Set the final status in memory, then write the file.
Finish(c, status) ==
  /\ transactionLogs' = [transactionLogs EXCEPT ![TxOf[c]].status = status]
  /\ Goto(c, "persist")

\* Once the source bank has committed there is no way back.
CommitDestReturns(c) ==
  /\ \/ Accepted(c, "commitDest") /\ Finish(c, "committed")
     \/ Failed(c, "commitDest") /\ Finish(c, PartialCommit)
  /\ UNCHANGED <<rpcVars, procVars, registry, transactions, logFile, cancelled, reply>>

-----------------------------------------------------------------------------
\* abortTransaction calls only a bank that is marked prepared in the log, on the
\* connection registered now, and goes on whatever comes back.
\* Faulty variant: only a payment that both banks prepared is aborted.
MustAbortBoth(c, k) ==
  LET entry == transactionLogs[TxOf[c]]
  IN  /\ rpc[c][k] = "none"
      /\ c \notin cancelled
      /\ bankservers_conns[Target(c, k)] # 0
      /\ entry.sourcePrepared /\ entry.destPrepared
MustAbort(c, k) ==
  LET entry == transactionLogs[TxOf[c]]
  IN  /\ rpc[c][k] = "none"
      /\ c \notin cancelled
      /\ bankservers_conns[Target(c, k)] # 0
      /\ IF k = "abortSource" THEN entry.sourcePrepared ELSE entry.destPrepared

SendAbort(c, k) ==
  /\ k \in AbortKind
  /\ pc[c] = k
  /\ MustAbort(c, k)
  /\ client' = [client EXCEPT ![c][k] = bankservers_conns[Target(c, k)]]
  /\ Send(c, k)
  /\ UNCHANGED <<procVars, registry, transactions, transactionLogs, logFile,
                 cancelled, reply>>

\* Abort k is over, or was never needed.
AbortOver(c, k) == \/ rpc[c][k] = "none" /\ pc[c] = k /\ ~MustAbort(c, k)
                   \/ rpc[c][k] # "none" /\ (Accepted(c, k) \/ Failed(c, k))

AbortSourceReturns(c) ==
  /\ AbortOver(c, "abortSource")
  /\ Goto(c, "abortDest")
  /\ UNCHANGED <<rpcVars, procVars, registry, transactions, transactionLogs, logFile,
                 cancelled, reply>>

AbortDestReturns(c) ==
  /\ AbortOver(c, "abortDest")
  /\ Finish(c, "aborted")
  /\ UNCHANGED <<rpcVars, procVars, registry, transactions, logFile, cancelled, reply>>

\* What persistTransactionLogs writes: every entry in memory.  Faulty variant: the
\* entry of the payment that has just ended.
WrittenOwn(c) == [NoLogs EXCEPT ![TxOf[c]] = transactionLogs[TxOf[c]]]
Written(c) == transactionLogs

\* After it MakePayment answers.
PersistTransactionLogs(c) ==
  /\ pc[c] = "persist"
  /\ logFile' = Written(c)
  /\ Goto(c, "done")
  /\ reply' = [reply EXCEPT ![c] =
       IF transactionLogs[TxOf[c]].status = "committed" THEN "ok" ELSE "failed"]
  /\ UNCHANGED <<rpcVars, procVars, registry, transactions, transactionLogs, cancelled>>

-----------------------------------------------------------------------------
\* The client process of user u dies: the contexts of its running requests are cancelled.
ClientDies(u) ==
  /\ \E c \in Call \ cancelled : Pay(c).from = u /\ pc[c] \in Running
  /\ cancelled' = cancelled \cup {c \in Call : Pay(c).from = u /\ pc[c] \in Running}
  /\ UNCHANGED <<rpcVars, procVars, registry, transactions, transactionLogs, logFile,
                 pc, reply>>

\* The process dies, and with it every invocation; requests that were sent stay
\* sent.  A death inside a write of the log file leaves it unreadable, which the
\* next start treats as empty.
GatewayDies ==
  /\ gatewayUp
  /\ gatewayUp' = FALSE
  /\ users_loggedin' = {}
  /\ bankservers_conns' = [b \in Bank |-> 0]
  /\ transactionLogs' = NoLogs
  /\ \/ UNCHANGED logFile
     \/ (\E c \in Call : pc[c] = "persist") /\ logFile' = NoLogs
  /\ pc' = [c \in Call |-> IF pc[c] \in Running THEN "dead" ELSE pc[c]]
  /\ UNCHANGED <<rpcVars, procVars, gatewayRuns, transactions, cancelled, reply>>

GatewayCrash == gatewayRuns < MaxGatewayRuns /\ GatewayDies

\* RegisterClient and ViewBalance take the whole gateway down when the bank they
\* name is not connected (nil client) or does not answer (log.Fatalf).
FatalBankCall(b) == gatewayRuns < MaxGatewayRuns /\ ~Live(b) /\ GatewayDies

\* loadTransactionLogs.
LoadTransactionLogs == logFile

\* main loads the log file; recoverPartialCommits only prints.
GatewayRestart ==
  /\ ~gatewayUp
  /\ gatewayUp' = TRUE
  /\ gatewayRuns' = gatewayRuns + 1
  /\ transactionLogs' = LoadTransactionLogs
  /\ UNCHANGED <<rpcVars, procVars, users_loggedin, bankservers_conns, transactions,
                 logFile, pc, cancelled, reply>>

GatewayHandler(c) ==
  \/ PrepareSourceReturns(c) \/ PrepareDestReturns(c) \/ CommitSourceReturns(c)
  \/ CommitDestReturns(c) \/ AbortSourceReturns(c) \/ AbortDestReturns(c)
  \/ PersistTransactionLogs(c)
  \/ \E k \in AbortKind : SendAbort(c, k)
=============================================================================
