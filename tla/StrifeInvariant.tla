--------------------------- MODULE StrifeInvariant ---------------------------
(***************************************************************************)
(* The inductive invariant behind the safety properties of Strife.  The    *)
(* properties speak about money and log entries; what makes them true is   *)
(* how far the remote calls of the one invocation that owns an id have     *)
(* come, and which incarnation of a bank they were sent to.                *)
(***************************************************************************)
EXTENDS Strife

\* Invocation c got past the idempotency check and made its first call.
Owner(c) == rpc[c]["prepareSource"] # "none"

\* Invocation c has decided, and calls no bank any more.
Over(c) == pc[c] \in {"persist"} \cup Ended

\* The remote calls of MakePayment are made in order, each after the answer to
\* the one before, and what was not yet called was not yet sent.
InOrder(c) ==
  /\ pc[c] = "idle" => c \notin cancelled /\ \A k \in Kind : rpc[c][k] = "none"
  /\ pc[c] \in Running => Owner(c)
  /\ \A k \in Kind : rpc[c][k] # "none" => Owner(c) /\ TxOf[c] \in transactions
  /\ rpc[c]["prepareDest"] # "none" =>
        rpc[c]["prepareSource"] = "yes" /\ pc[c] # "prepareSource"
  /\ rpc[c]["commitSource"] # "none" =>
        rpc[c]["prepareDest"] = "yes" /\ pc[c] \notin PrepareKind
  /\ rpc[c]["commitDest"] # "none" =>
        rpc[c]["commitSource"] = "yes" /\ (pc[c] = "commitDest" \/ Over(c))
  /\ pc[c] = "commitDest" => rpc[c]["commitSource"] = "yes"

CallsInOrder == \A c \in Call : InOrder(c)

\* An id has one owner: this is what transactions.txt is for.
OneOwner == \A c, d \in Call : Owner(c) /\ Owner(d) /\ TxOf[c] = TxOf[d] => c = d

\* Both calls to a bank use the connection taken at the start, no connection
\* leads to an incarnation that has not started yet, and only an incarnation
\* that got as far as serving has executed anything.
Connections ==
  /\ \A b \in Bank : bankservers_conns[b] <= incarnation[b]
  /\ \A c \in Call : /\ client[c]["commitSource"] = client[c]["prepareSource"]
                     /\ client[c]["commitDest"] = client[c]["prepareDest"]
  /\ \A c \in Call, k \in Kind :
       /\ client[c][k] <= incarnation[Target(c, k)]
       /\ rpc[c][k] \in {"busy", "yes", "no"} /\ client[c][k] = incarnation[Target(c, k)]
            => phase[Target(c, k)] \in {"serving", "down"}

\* What a bank prepared for the owner of an id is not turned into the other
\* half by anything it loads or is asked later.
Entries ==
  \A c \in Call :
    /\ rpc[c]["prepareSource"] = "yes" /\ Reachable(c, "prepareSource")
         => pending[Pay(c).fromBank][TxOf[c]] # "credit"
    /\ rpc[c]["prepareDest"] = "yes" /\ Reachable(c, "prepareDest")
         => pending[Pay(c).toBank][TxOf[c]] # "debit"

\* Commit k of invocation c was executed.
Applied(c, k) == rpc[c][k] \in {"busy", "yes"}

\* The two halves were applied exactly when the owner's commits were executed.
Counts ==
  /\ \A t \in Tx : debits[t] \in {0, 1} /\ credits[t] \in {0, 1}
  /\ \A t \in Tx : debits[t] = 1 => \E c \in Call : TxOf[c] = t /\ Applied(c, "commitSource")
  /\ \A t \in Tx : credits[t] = 1 => \E c \in Call : TxOf[c] = t /\ Applied(c, "commitDest")
  /\ \A c \in Call : Applied(c, "commitSource") => debits[TxOf[c]] = 1
  /\ \A c \in Call : Applied(c, "commitDest") => credits[TxOf[c]] = 1

\* A status stands on what the owner of the id saw.
Backed(status, c) ==
  /\ Owner(c) /\ Over(c)
  /\ status = "committed" => rpc[c]["commitDest"] = "yes"
  /\ status = "aborted" => rpc[c]["commitDest"] = "none"
  /\ status = "partial-commit" => rpc[c]["commitSource"] = "yes"

StatusBacked(status, t) ==
  status \in Final => \E c \in Call : TxOf[c] = t /\ Backed(status, c)

Outcomes ==
  /\ \A t \in Tx : StatusBacked(transactionLogs[t].status, t)
  /\ \A t \in Tx : StatusBacked(logFile[t].status, t)
  /\ gatewayUp => \A t \in Tx : logFile[t].status \in Final =>
                     transactionLogs[t].status = logFile[t].status
  /\ ~gatewayUp => \A c \in Call : pc[c] \notin Running

\* Only a payment that was settled is confirmed.
Replies ==
  \A c \in Call : reply[c] = "ok" => pc[c] = "done" /\ rpc[c]["commitDest"] = "yes"

IInv == /\ TypeOK
        /\ CallsInOrder
        /\ OneOwner
        /\ Connections
        /\ Entries
        /\ Counts
        /\ Outcomes
        /\ Replies

-----------------------------------------------------------------------------
(***************************************************************************)
(* The inductive invariant behind UndisturbedIsAtomic, for WarmSpec.  What *)
(* was not started again has not been down; so a payment that is           *)
(* undisturbed never was disturbed, and its calls neither fail nor wait    *)
(* for a bank that is gone.                                                *)
(***************************************************************************)
FirstRuns ==
  /\ gatewayRuns \in Nat \ {0}
  /\ \A b \in Bank : /\ incarnation[b] \in Nat \ {0}
                     /\ incarnation[b] = 1 => phase[b] \in {"serving", "down"}
                     /\ incarnation[b] = 1 /\ gatewayUp /\ gatewayRuns = 1 => bankservers_conns[b] = 1

\* Each call of invocation c went to the first run of a bank, was made when c came
\* to it, and was waited for; a bank has never forgotten what it prepared.
Calm(c) ==
  /\ \A k \in PrepareKind \cup CommitKind : client[c][k] = 1
  /\ \A k \in AbortKind : rpc[c][k] # "none" => client[c][k] = 1
  /\ \A k \in PrepareKind \cup CommitKind : pc[c] = k => rpc[c][k] # "none"
  /\ \A k \in Kind : rpc[c][k] \in {"sent", "busy"} => pc[c] = k
  /\ \A k \in CommitKind \cup AbortKind : rpc[c][k] # "no"

\* What the log entry of an undisturbed payment says of its prepares, and its end.
Logged(c) ==
  LET entry == transactionLogs[TxOf[c]]
  IN  /\ entry.sourcePrepared <=> rpc[c]["prepareSource"] = "yes" /\ pc[c] # "prepareSource"
      /\ entry.destPrepared <=> rpc[c]["prepareDest"] = "yes" /\ pc[c] # "prepareDest"
      /\ Over(c) => (entry.status = "committed" <=> rpc[c]["commitDest"] = "yes")
      /\ pc[c] = "done" => (reply[c] = "ok" <=> rpc[c]["commitDest"] = "yes")

\* Invocation c either commits or aborts, and in the end has committed both halves
\* or aborted what was prepared.
Aborting(c) == pc[c] \in AbortKind \/ Over(c)
EitherWay(c) ==
  /\ rpc[c]["commitSource"] # "none" =>
       pc[c] \notin AbortKind /\ \A k \in AbortKind : rpc[c][k] = "none"
  /\ rpc[c]["abortSource"] # "none" => rpc[c]["prepareSource"] = "yes" /\ Aborting(c)
  /\ rpc[c]["abortDest"] # "none" => /\ rpc[c]["prepareDest"] = "yes"
                                     /\ pc[c] = "abortDest" \/ Over(c)
  /\ rpc[c]["commitSource"] = "none" =>
       /\ pc[c] = "abortDest" \/ Over(c) =>
            (rpc[c]["prepareSource"] = "yes" => rpc[c]["abortSource"] = "yes")
       /\ Over(c) => (rpc[c]["prepareDest"] = "yes" => rpc[c]["abortDest"] = "yes")
  /\ Over(c) /\ rpc[c]["commitSource"] # "none" => rpc[c]["commitDest"] = "yes"

\* An entry is there from its prepare to its commit or abort.
Entry(c, prepare, commit, abort) ==
  IF rpc[c][prepare] = "yes" /\ rpc[c][commit] \in {"none", "sent"} /\ rpc[c][abort] # "yes"
  THEN OperationOf(prepare) ELSE "none"
Held(c) ==
  /\ pending[Pay(c).fromBank][TxOf[c]] = Entry(c, "prepareSource", "commitSource", "abortSource")
  /\ pending[Pay(c).toBank][TxOf[c]] = Entry(c, "prepareDest", "commitDest", "abortDest")

Steady(c) == Calm(c) /\ Logged(c) /\ EitherWay(c) /\ Held(c)

\* The same of payment t; before it has an owner, its two banks know nothing of it.
SteadyPayment(t) ==
  /\ \A c \in Call : TxOf[c] = t /\ Owner(c) => Steady(c)
  /\ (\A c \in Call : TxOf[c] = t => ~Owner(c)) =>
       pending[Payment[t].fromBank][t] = "none" /\ pending[Payment[t].toBank][t] = "none"

Steadiness == \A t \in Tx : Undisturbed(t) => SteadyPayment(t)

AtomicityInv == IInv /\ FirstRuns /\ Steadiness

-----------------------------------------------------------------------------
(***************************************************************************)
(* The inductive invariant behind BooksBalanceInTurn, for payments that    *)
(* name the bank at which each of their accounts is.  Only the bank of an  *)
(* account changes it; so that bank knows its balance, and the file knows  *)
(* it but while that bank is saving it.  (A bank also prepares and commits *)
(* for accounts of others; then two banks change one account, and the one  *)
(* that saves later brings back what it had in memory.)                    *)
(***************************************************************************)
AtHome == \A t \in Tx : /\ Payment[t].fromBank = HomeBank[Payment[t].from]
                        /\ Payment[t].toBank = HomeBank[Payment[t].to]

\* Who has an account, and what it means that a map of accounts is right about it.
Holder == DOMAIN InitialBalance
IsRight(accounts, u) == u \in DOMAIN accounts /\ accounts[u] = Ledger(u)

\* What this run of a bank has prepared is for an account it has in memory.
Known ==
  \A c \in Call, k \in PrepareKind :
    /\ rpc[c][k] = "yes"
    /\ client[c][k] = incarnation[Target(c, k)]
    /\ phase[Target(c, k)] # "down"
    => Account(TxOf[c], OperationOf(k)) \in DOMAIN users[Target(c, k)]

\* A bank that saves is serving, and saves an account of its own.
Savers ==
  \A b \in Bank : saving[b].stage # "idle" =>
    /\ phase[b] = "serving"
    /\ saving[b].user \in DOMAIN users[b] /\ HomeBank[saving[b].user] = b

\* As long as the saves did not overlap, at most one bank saves.
Alone == \A b, d \in Bank : saving[b].stage # "idle" /\ saving[d].stage # "idle" => b = d

\* The memory of a bank is right about its own accounts, ...
OwnAccounts ==
  \A u \in Holder : phase[HomeBank[u]] # "down" /\ u \in DOMAIN users[HomeBank[u]]
    => users[HomeBank[u]][u] = Ledger(u)

\* ... that of a bank that has read the file is right about all of them, ...
AllAccounts ==
  \A b \in Bank : saving[b].stage \in {"truncate", "flush"} =>
                    \A u \in Holder : IsRight(users[b], u)

\* ... and the file is, but for the account that is being saved.
BeingSaved(u) == \E b \in Bank : saving[b].stage # "idle" /\ saving[b].user = u
SharedFile ==
  IF \E b \in Bank : saving[b].stage = "flush" THEN csv = NoAccounts
  ELSE \A u \in Holder : ~BeingSaved(u) => IsRight(csv, u)

InTurn == ~overlapped => Alone /\ OwnAccounts /\ AllAccounts /\ SharedFile

BooksInv == IInv /\ Known /\ Savers /\ InTurn
=============================================================================
