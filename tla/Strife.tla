------------------------------- MODULE Strife -------------------------------
(***************************************************************************)
(* The payment system: the gateway and the banks, each taking its steps on *)
(* its own, joined by the remote calls.                                    *)
(***************************************************************************)
EXTENDS BankServer, PaymentGateway, FiniteSetsExt

vars == <<rpc, client, phase, incarnation, bankVars, gatewayVars>>

Init == PaymentsInit /\ BankInit /\ GatewayInit

\* A bank executes request k of invocation c, or ends its execution.
BankServes(c, k) == /\ \/ Prepare(c, k) \/ CommitUnknown(c, k) \/ CommitApply(c, k)
                       \/ SaveFlush(c, k) \/ Abort(c, k)
                    /\ UNCHANGED <<procVars, gatewayVars>>

BankSaves(b) == /\ SaveRead(b) \/ SaveTruncate(b)
                /\ UNCHANGED <<procVars, gatewayVars>>

BankCleans(b, S) == CleanupStale(b, S) /\ UNCHANGED <<procVars, gatewayVars>>

BankComesUp(b) == /\ \/ Start(b) /\ UNCHANGED gatewayVars
                     \/ Serve(b) /\ UNCHANGED gatewayVars
                     \/ RegisterServer(b) /\ UNCHANGED bankVars
                     \/ RegisterFails(b) /\ UNCHANGED bankVars

BankDies(b) == BankCrash(b) /\ UNCHANGED gatewayVars

ClientLogsIn(u, b) == /\ RegisterClient(u, b)
                      /\ AuthenticateUser(u, b)
                      /\ UNCHANGED bankVars

PaymentBegins(c) == BeginPayment(c) /\ UNCHANGED bankVars

PaymentGoesOn(c) == GatewayHandler(c) /\ UNCHANGED bankVars

ClientFails(u) == ClientDies(u) /\ UNCHANGED bankVars

GatewayFails == /\ GatewayCrash \/ \E b \in Bank : FatalBankCall(b)
                /\ UNCHANGED bankVars

GatewayComesUp == GatewayRestart /\ UNCHANGED bankVars

Next == \/ \E c \in Call, k \in Kind : BankServes(c, k)
        \/ \E b \in Bank : BankSaves(b) \/ BankComesUp(b) \/ BankDies(b)
        \/ \E b \in Bank, S \in SUBSET MayGoStale : BankCleans(b, S)
        \/ \E u \in User, b \in Bank : ClientLogsIn(u, b)
        \/ \E c \in Call : PaymentBegins(c) \/ PaymentGoesOn(c)
        \/ \E u \in Mortal : ClientFails(u)
        \/ GatewayFails \/ GatewayComesUp

Spec == Init /\ [][Next]_vars

\* The state after a start-up without incidents, and the behaviours from there on:
\* every bank serves, the users who have an account are logged in.
WarmInit == /\ rpc = [c \in Call |-> [k \in Kind |-> "none"]]
            /\ client = [c \in Call |-> [k \in Kind |-> 0]]
            /\ phase = [b \in Bank |-> "serving"]
            /\ incarnation = [b \in Bank |-> 1]
            /\ users = [b \in Bank |-> InitialBalance]
            /\ pending = [b \in Bank |-> NothingPending]
            /\ saving = [b \in Bank |-> Idle]
            /\ csv = InitialBalance
            /\ pendingFile = NothingPending
            /\ debits = [t \in Tx |-> 0]
            /\ credits = [t \in Tx |-> 0]
            /\ overlapped = FALSE
            /\ gatewayUp = TRUE
            /\ gatewayRuns = 1
            /\ users_loggedin = DOMAIN InitialBalance
            /\ bankservers_conns = [b \in Bank |-> 1]
            /\ transactions = {}
            /\ transactionLogs = NoLogs
            /\ logFile = NoLogs
            /\ pc = [c \in Call |-> "idle"]
            /\ cancelled = {}
            /\ reply = [c \in Call |-> "none"]

WarmSpec == WarmInit /\ [][Next]_vars

(***************************************************************************)
(* A goroutine that can run runs at last, a mutex is not withheld for ever *)
(* (sync.Mutex), a connection to a process that is gone on the same host   *)
(* fails at last, and the cleanup ticker goes on ticking.  Nothing makes   *)
(* anybody restart a process, log in or begin a payment.                   *)
(***************************************************************************)
Fairness ==
  /\ \A c \in Call : /\ WF_vars(\E k \in Kind : BankServes(c, k))
                     /\ WF_vars(PaymentGoesOn(c))
  /\ \A b \in Bank : /\ WF_vars(BankSaves(b))
                     /\ WF_vars(\E S \in SUBSET MayGoStale \ {{}} : BankCleans(b, S))

FairSpec == Spec /\ Fairness

-----------------------------------------------------------------------------
TypeOK == PaymentsTypeOK /\ BankTypeOK /\ GatewayTypeOK

\* No payment is between two accounts of one bank.
CrossBank == \A t \in Tx : Payment[t].fromBank # Payment[t].toBank

(***************************************************************************)
(* However often a payment is sent, whatever dies and whatever is late:    *)
(* the sender is debited at most once, the receiver is credited at most    *)
(* once, and never before the sender is debited.  This is what the ids in  *)
(* transactions.txt and the order of the two commits in MakePayment are    *)
(* for.                                                                    *)
(***************************************************************************)
OnceAndInOrder == \A t \in Tx : credits[t] <= debits[t] /\ debits[t] <= 1

(***************************************************************************)
(* A bank applies its half of a payment only after both banks answered     *)
(* that they prepared it.                                                  *)
(***************************************************************************)
BothPrepared ==
  \A t \in Tx : debits[t] + credits[t] > 0 =>
     \E c \in Call : /\ TxOf[c] = t
                     /\ rpc[c]["prepareSource"] = "yes"
                     /\ rpc[c]["prepareDest"] = "yes"

\* What the status of a log entry says about the money of its payment.
StatusIsTrue(status, t) ==
  /\ status = "committed" => debits[t] = 1 /\ credits[t] = 1
  /\ status = "aborted" => credits[t] = 0
  /\ status = "partial-commit" => debits[t] = 1

(***************************************************************************)
(* The log of the gateway, in memory and on disk, never lies about the     *)
(* receiver: "committed" is written only when both halves are applied, and *)
(* nothing that is still under way can credit a payment logged "aborted".  *)
(* "partial-commit" is written only when the sender was debited.           *)
(***************************************************************************)
LogIsTrue == \A t \in Tx : /\ StatusIsTrue(transactionLogs[t].status, t)
                           /\ StatusIsTrue(logFile[t].status, t)

(***************************************************************************)
(* An outcome that is on disk is not overwritten: not by the log write of  *)
(* another payment, not by a second invocation with the same id, not by    *)
(* what a restarted gateway has in memory.  Only a death of the gateway in *)
(* the middle of a write can lose it.                                      *)
(***************************************************************************)
OutcomeIsKept ==
  [][\A t \in Tx : logFile[t].status \in Final =>
        logFile'[t].status = logFile[t].status \/ (gatewayUp /\ ~gatewayUp')]_vars

\* No client, bank or gateway of payment t died, and no entry grew stale.
Undisturbed(t) == /\ t \notin MayGoStale
                  /\ gatewayRuns = 1 /\ gatewayUp
                  /\ \A c \in Call : TxOf[c] = t => c \notin cancelled
                  /\ \A b \in {Payment[t].fromBank, Payment[t].toBank} :
                       phase[b] = "serving" /\ incarnation[b] = 1

(***************************************************************************)
(* A payment that nothing disturbed is atomic, whatever other payments do  *)
(* meanwhile and whether or not a bank refused it: when every invocation   *)
(* has ended, both halves are applied or neither is, one of them answered  *)
(* "ok" exactly in the first case, and neither bank keeps an entry for it. *)
(* (A third bank may: one that starts takes over whatever entries the bank *)
(* has that wrote pending_transactions.json last.  A bank that starts      *)
(* after the payment has begun may be one of its two, which is why this is *)
(* a property of WarmSpec.)                                                *)
(***************************************************************************)
UndisturbedIsAtomic ==
  \A t \in Tx :
    LET mine == {c \in Call : TxOf[c] = t}
    IN  Undisturbed(t) /\ (\A c \in mine : pc[c] = "done") =>
          /\ debits[t] = credits[t]
          /\ credits[t] = 1 <=> \E c \in mine : reply[c] = "ok"
          /\ pending[Payment[t].fromBank][t] = "none"
          /\ pending[Payment[t].toBank][t] = "none"

\* What the account of u holds after the halves of payments applied so far.
Effect(t, u) == (IF Payment[t].to = u THEN credits[t] * Payment[t].amount ELSE 0)
              - (IF Payment[t].from = u THEN debits[t] * Payment[t].amount ELSE 0)
Ledger(u) == InitialBalance[u] + MapThenSumSet(LAMBDA t : Effect(t, u), Tx)

BooksBalance == \A u \in DOMAIN InitialBalance : u \in DOMAIN csv /\ csv[u] = Ledger(u)

(***************************************************************************)
(* As long as the saves of different banks did not overlap and no bank     *)
(* died in one, the shared account file holds, between two saves, exactly  *)
(* what was applied: each bank takes over the accounts of the others       *)
(* before it writes.  (This is about payments that name the bank of each   *)
(* account: Prepare does not ask whether an account is its own.)           *)
(***************************************************************************)
BooksBalanceInTurn ==
  ~overlapped /\ (\A b \in Bank : saving[b].stage = "idle") => BooksBalance

\* The payments whose sender was told "Payment successful".
Confirmed == {TxOf[c] : c \in {d \in Call : reply[d] = "ok"}}

Contract == INSTANCE PaymentContract WITH confirmed <- Confirmed

(***************************************************************************)
(* The gateway and the banks together keep the contract of a payment.      *)
(***************************************************************************)
KeepsContract == Contract!Spec

(***************************************************************************)
(* Every payment that was begun is answered, unless the gateway dies: also *)
(* when a bank or the client goes away while the gateway waits.            *)
(***************************************************************************)
EveryPaymentEnds == \A c \in Call : pc[c] \in Running ~> pc[c] \in Ended

(***************************************************************************)
(* No entry stays in a bank for ever: neither one whose abort never came,  *)
(* nor one that arrived after the abort, nor one loaded from the file of   *)
(* another bank.                                                           *)
(***************************************************************************)
PendingDrains ==
  \A b \in Bank, t \in MayGoStale : pending[b][t] # "none" ~> pending[b][t] = "none"

(***************************************************************************)
(* What the documents say and the code does not do.                        *)
(***************************************************************************)
\* README.md:205, "Atomic transaction processing": a payment that is logged as
\* aborted has taken no money.
AbortedIsRolledBack ==
  \A t \in Tx : logFile[t].status = "aborted" => debits[t] = 0

\* README.md:136, the prepare phase "validates and reserves resources": no
\* account is ever overdrawn.
NoOverdraft == \A b \in Bank : \A u \in DOMAIN users[b] : users[b][u] >= 0
=============================================================================
