----------------------------- MODULE BankServer -----------------------------
(***************************************************************************)
(* The bank server processes, server/main.go.  Every bank is a process of  *)
(* its own, but all of them are started in one directory: the account file *)
(* dummydata.csv and the file of prepared transactions                     *)
(* pending_transactions.json are shared by all banks and locked by none.   *)
(*                                                                         *)
(* pendingTxMutex is held for the whole of a handler.  Prepare and Abort   *)
(* are one step each.  Commit holds the mutex over several steps, because  *)
(* other processes can see the account file between them: it applies the   *)
(* operation in memory, reads the file, truncates it and writes it.  A     *)
(* bank holds the mutex exactly when saving[b].stage is not "idle".        *)
(*                                                                         *)
(* A process restarts on a new port, which is a new incarnation; requests  *)
(* sent to an earlier incarnation are never executed.                      *)
(***************************************************************************)
EXTENDS Payments, FiniteSets

CONSTANTS InitialBalance,   \* the account file the banks are first started on
          HomeBank,         \* its column "bank": where each user may log in
          MaxIncarnation,   \* bound: how often each bank process is started
          MayGoStale        \* bound: the ids whose entries may grow too old

\* Balances of some of the users.
IsAccounts(f) == DOMAIN f \subseteq User /\ f \in [DOMAIN f -> Int]

ASSUME BankAssumption == /\ IsAccounts(InitialBalance)
                         /\ HomeBank \in [User -> Bank]
                         /\ MaxIncarnation \in Nat
                         /\ MayGoStale \subseteq Tx

VARIABLES
  users,         \* each bank's in-memory copy of the accounts
  pending,       \* pendingTx of each bank: the operation prepared for an id
  saving,        \* where the holder of the mutex is in persistUserBalances
  csv,           \* dummydata.csv; no accounts while it is truncated
  pendingFile,   \* pending_transactions.json
  debits,        \* history: how often the debit of an id was applied
  credits,       \* history: how often its credit was applied
  overlapped     \* history: two saves overlapped, or a bank died in a save

fileVars == <<csv, pendingFile>>
history  == <<debits, credits, overlapped>>
bankVars == <<users, pending, saving, csv, pendingFile, debits, credits, overlapped>>

NoAccounts  == [u \in {} |-> 0]
Operation   == {"none", "debit", "credit"}
NothingPending == [t \in Tx |-> "none"]
Stage       == {"idle", "read", "truncate", "flush"}
Idle        == [stage |-> "idle", user |-> "none"]

BankTypeOK == /\ users = [b \in Bank |-> users[b]] /\ \A b \in Bank : IsAccounts(users[b])
              /\ pending \in [Bank -> [Tx -> Operation]]
              /\ saving \in [Bank -> [stage: Stage, user: User \cup {"none"}]]
              /\ IsAccounts(csv)
              /\ pendingFile \in [Tx -> Operation]
              /\ debits \in [Tx -> Nat]
              /\ credits \in [Tx -> Nat]
              /\ overlapped \in BOOLEAN

BankInit == /\ users = [b \in Bank |-> NoAccounts]
            /\ pending = [b \in Bank |-> NothingPending]
            /\ saving = [b \in Bank |-> Idle]
            /\ csv = InitialBalance
            /\ pendingFile = NothingPending
            /\ debits = [t \in Tx |-> 0]
            /\ credits = [t \in Tx |-> 0]
            /\ overlapped = FALSE

-----------------------------------------------------------------------------
\* The account an operation of transaction t touches, and by how much.
Account(t, op) == IF op = "debit" THEN Payment[t].from ELSE Payment[t].to
Change(t, op)  == IF op = "debit" THEN -Payment[t].amount ELSE Payment[t].amount

\* The operation a prepare request asks for.
OperationOf(k) == IF k \in SourceKind THEN "debit" ELSE "credit"

\* The map lookup of Go: a missing account reads as zero.
BalanceOf(accounts, u) == IF u \in DOMAIN accounts THEN accounts[u] ELSE 0

SetBalance(accounts, u, amount) ==
  [v \in DOMAIN accounts \cup {u} |-> IF v = u THEN amount ELSE accounts[v]]

\* persistUserBalances first takes every account but u from the file.
\* Faulty variant: it writes what it has in memory.
RefreshNothing(accounts, file, u) == accounts
Refresh(accounts, file, u) ==
  [v \in DOMAIN accounts \cup (DOMAIN file \ {u}) |->
     IF v \in DOMAIN file \ {u} THEN file[v] ELSE accounts[v]]

\* Request k of invocation c has arrived at a live bank whose mutex is free.
Served(c, k) == /\ rpc[c][k] = "sent"
                /\ Reachable(c, k)
                /\ saving[Target(c, k)].stage = "idle"

Answer(c, k, a) == rpc' = [rpc EXCEPT ![c][k] = a]

-----------------------------------------------------------------------------
\* Bank b knows user u as its own; the client is taken to know the password.
AuthenticateUser(u, b) == u \in DOMAIN users[b] /\ HomeBank[u] = b

\* The account exists and, for a debit, holds the amount.
CanPrepare(b, t, op) ==
  /\ Account(t, op) \in DOMAIN users[b]
  /\ op = "debit" => Payment[t].amount <= users[b][Account(t, op)]

\* Prepare remembers the operation and writes the file; it reserves nothing.
Prepare(c, k) ==
  /\ k \in PrepareKind
  /\ Served(c, k)
  /\ LET b == Target(c, k)  t == TxOf[c]  op == OperationOf(k)
     IN  \/ /\ CanPrepare(b, t, op)
            /\ pending' = [pending EXCEPT ![b][t] = op]
            /\ pendingFile' = pending'[b]
            /\ Answer(c, k, "yes")
         \/ /\ ~CanPrepare(b, t, op)
            /\ Answer(c, k, "no")
            /\ UNCHANGED <<pending, pendingFile>>
  /\ UNCHANGED <<client, users, saving, csv, history>>

\* Commit step 1 of a payment inside one bank keeps the entry for step 2.
KeepsPending(c, k) == Pay(c).fromBank = Pay(c).toBank /\ k = "commitSource"

CommitUnknown(c, k) ==
  /\ k \in CommitKind
  /\ Served(c, k)
  /\ pending[Target(c, k)][TxOf[c]] = "none"
  /\ Answer(c, k, "no")
  /\ UNCHANGED <<client, bankVars>>

\* The first part of Commit: the balance in memory, the entry, the pending file.
CommitApply(c, k) ==
  /\ k \in CommitKind
  /\ Served(c, k)
  /\ LET b == Target(c, k)  t == TxOf[c]  op == pending[b][t]  u == Account(t, op)
     IN  /\ op # "none"
         /\ users' = [users EXCEPT ![b] =
                        SetBalance(@, u, BalanceOf(@, u) + Change(t, op))]
         /\ debits' = [debits EXCEPT ![t] = IF op = "debit" THEN @ + 1 ELSE @]
         /\ credits' = [credits EXCEPT ![t] = IF op = "credit" THEN @ + 1 ELSE @]
         /\ IF KeepsPending(c, k)
            THEN UNCHANGED <<pending, pendingFile>>
            ELSE /\ pending' = [pending EXCEPT ![b][t] = "none"]
                 /\ pendingFile' = pending'[b]
         /\ saving' = [saving EXCEPT ![b] = [stage |-> "read", user |-> u]]
  /\ overlapped' = (overlapped \/ \E d \in Bank : saving[d].stage # "idle")
  /\ Answer(c, k, "busy")
  /\ UNCHANGED <<client, csv>>

\* persistUserBalances: read and merge the file ...
SaveRead(b) ==
  /\ saving[b].stage = "read"
  /\ users' = [users EXCEPT ![b] = Refresh(@, csv, saving[b].user)]
  /\ saving' = [saving EXCEPT ![b].stage = "truncate"]
  /\ UNCHANGED <<rpcVars, pending, csv, pendingFile, history>>

\* ... os.Create empties it ...
SaveTruncate(b) ==
  /\ saving[b].stage = "truncate"
  /\ csv' = NoAccounts
  /\ saving' = [saving EXCEPT ![b].stage = "flush"]
  /\ UNCHANGED <<rpcVars, users, pending, pendingFile, history>>

\* ... and the deferred Flush writes the whole map; Commit answers.
SaveFlush(c, k) ==
  /\ k \in CommitKind
  /\ rpc[c][k] = "busy"
  /\ Reachable(c, k)
  /\ LET b == Target(c, k)
     IN  /\ saving[b].stage = "flush"
         /\ csv' = users[b]
         /\ saving' = [saving EXCEPT ![b] = Idle]
  /\ Answer(c, k, "yes")
  /\ UNCHANGED <<client, users, pending, pendingFile, history>>

Abort(c, k) ==
  /\ k \in AbortKind
  /\ Served(c, k)
  /\ LET b == Target(c, k)  t == TxOf[c]
     IN  IF pending[b][t] = "none"
         THEN /\ Answer(c, k, "no")
              /\ UNCHANGED <<pending, pendingFile>>
         ELSE /\ pending' = [pending EXCEPT ![b][t] = "none"]
              /\ pendingFile' = pending'[b]
              /\ Answer(c, k, "yes")
  /\ UNCHANGED <<client, users, saving, csv, history>>

\* A tick of the cleanup goroutine drops the entries that are too old, which
\* may be any of them, and writes the file even when there are none.
\* Faulty variant: the entries are found and not deleted.
KeepStale(b, S) == pending[b]
DeleteStale(b, S) == [t \in Tx |-> IF t \in S THEN "none" ELSE pending[b][t]]

CleanupStale(b, S) ==
  /\ phase[b] = "serving"
  /\ saving[b].stage = "idle"
  /\ pending' = [pending EXCEPT ![b] = DeleteStale(b, S)]
  /\ pendingFile' = pending'[b]
  /\ UNCHANGED <<rpcVars, users, saving, csv, history>>

-----------------------------------------------------------------------------
\* main takes the next port and loads the accounts ...
Start(b) ==
  /\ phase[b] = "down"
  /\ incarnation[b] < MaxIncarnation
  /\ phase' = [phase EXCEPT ![b] = "loaded"]
  /\ incarnation' = [incarnation EXCEPT ![b] = @ + 1]
  /\ users' = [users EXCEPT ![b] = csv]
  /\ UNCHANGED <<rpcVars, pending, saving, fileVars, history>>

\* ... registers with the gateway, see PaymentGateway, and only then listens and
\* loads the pending file, whichever bank wrote it last.  A file that cannot be
\* parsed, because its writer died or two writers met, counts as empty.
Serve(b) ==
  /\ phase[b] = "registered"
  /\ phase' = [phase EXCEPT ![b] = "serving"]
  /\ \E entries \in {pendingFile, NothingPending} :
       pending' = [pending EXCEPT ![b] = entries]
  /\ UNCHANGED <<rpcVars, incarnation, users, saving, fileVars, history>>

\* The process dies anywhere, also in the middle of a save, and can be restarted.
BankCrash(b) ==
  /\ phase[b] # "down"
  /\ incarnation[b] < MaxIncarnation
  /\ phase' = [phase EXCEPT ![b] = "down"]
  /\ users' = [users EXCEPT ![b] = NoAccounts]
  /\ pending' = [pending EXCEPT ![b] = NothingPending]
  /\ saving' = [saving EXCEPT ![b] = Idle]
  /\ overlapped' = (overlapped \/ saving[b].stage # "idle")
  /\ UNCHANGED <<rpcVars, incarnation, fileVars, debits, credits>>
=============================================================================
