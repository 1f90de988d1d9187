# Verification of the four distributed programs

TLA+ models, model-checking runs and proofs for the programs of this repository:

| program | directory | here |
|---|---|---|
| Strife, a payment system with two-phase commit | `src/Strife` | modelled, checked and proved about |
| Byzantine generals | `src/Byzantine Failure Resolution` | modelled, checked and proved about |
| Map-reduce | `src/Distributed Map-Reduce` | modelled, checked and proved about |
| Load balancer and registry | `src/Server Registry and Load Balancing` | modelled, checked and proved about |

The programs share no state and no code. Paths below are relative to each program's directory.

## 1. Inventory

### Strife

One **payment gateway** (`payment_gateway/main.go`), several **bank servers** (`server/main.go`)
and **clients** (`client/main.go`) on one machine, joined by gRPC (`protofiles/services.proto`).

* *Gateway.* State: `users_loggedin` and `bankservers_conns` (memory only), `transactionLogs`
  (memory and `transaction_logs.json`), `transactions.txt` (the ids of all payments ever begun).
  Operations: `RegisterServer`, `RegisterClient` (asks the bank), `MakePayment` (login, idempotency,
  log entry, prepare source, prepare destination, commit source, commit destination, write the log),
  `abortTransaction`, `ViewBalance`, loading the log at start. Each `MakePayment` is a goroutine;
  every bank call it makes uses the context of the client's request.
* *Bank.* State: `users` (a copy of *all* accounts), `pendingTx`, and two files shared by all banks:
  `dummydata.csv` and `pending_transactions.json`. Operations: `Prepare`, `Commit`, `Abort` (each
  under `pendingTxMutex`), `persistUserBalances` (read, merge, truncate, write), a cleanup ticker,
  start-up (port, accounts, register, listen, load entries), `AuthenticateUser`, `SendBalanceReq`.
  `Transaction` is left over from before two-phase commit; nothing calls it.
* *Client.* State: `loggedIn`, and `offline_payments.json`, shared by all clients of the machine.
  Operations: the menu loop, each turn of which starts one more goroutine `checkOnline` that reads
  the file, sends the payments of its own user and writes back the rest. A payment is appended to the
  file before the login, sent to the gateway when that is up, written into the file when it is not.

Hard: every reply may be lost after the call was executed; banks, gateway and clients die between
any two steps; a bank restarts as a new process on a new port while the old connection is in use;
one entry per transaction id; shared files without locks. Correct means: a payment is debited and
credited at most once and in that order, only after both prepares; the log does not lie; nothing is
forgotten, lost or left waiting.

### Byzantine generals

A **commander** (`server/main.go`) and one process that hosts all **generals** (`client/main.go`).
The commander keeps two lists (`conns`, `generals`) under a mutex and a range of ports without one;
it waits until `conns` is full, calls every general once, and exits. The generals are servers on
ports of their own but share `order_global`, `min_port`, `max_port`. An order starts `consensus`:
sleep, `t` rounds of asking everybody in the range, majority into `order_global`, sleep, print, and
end the process for all. Hard: shared globals, rounds kept apart by sleeps only, registration racing
the orders. Correct means: an honest commander is obeyed, honest generals agree, the vote ends.

### Map-reduce

A **master** (`server/main.go`) with the list `conns` of workers, and one process that hosts all
**workers** (`client/main.go`). The master calls one worker after the other: map and reduce of the
inverted index, map and reduce of the word count, stop. Workers append to intermediate files, and
reducers to the output file; nothing is ever removed. Hard: workers register before they listen;
the list may be shorter than the phase needs; runs are broken off and repeated over the same files,
and an old worker process may still be writing. Correct means: the index names exactly the files
with the word, counts are right, a finished run is complete, the master does not hang.

### Load balancer

An **LB server** (`lb_server/main.go`) keeps the servers and their loads in etcd, the time of each
one's last update in `last_update`, and `rrIndex`, the place of the round robin. Operations:
`RegisterServer`, `UpdateLoad` (stamp, then store), `GetBestServer` under one of three policies,
`printAliveServers` (a goroutine that removes servers silent for 8 s, from the map first and from
etcd afterwards), `initEtcd`. **Backends** (`server/main.go`) register, listen, then report their
load every 5 s, and die if they cannot. **Clients** ask for the best server and call it: people one
request after the other (`client/main.go`), and a **load test** (`client_test/main.go`) with several
goroutines, a wait group and a channel of metrics that the main goroutine collects.

Hard: no lock anywhere, so check-then-delete races with a report, requests meet at `rrIndex`, and
maps are written by concurrent handlers; a new process inherits the stamp of the dead one on its
port; the LB server restarts behind the backs of the backends. Correct means: a backend that reports
in time stays listed, a dead one goes, a living one that was removed comes back, round robin takes
turns inside its list, the load test ends with a complete summary.

The hazards of each, with the line where they bite and the property that covers them, are listed
under `hazards` in `PROJECT.json`.

## 2. Modules

| module | what it is |
|---|---|
| `Payments` | what gateway and banks share: payments, the six remote calls of an invocation, the incarnations of the banks |
| `BankServer` | the bank processes and the files they share |
| `PaymentGateway` | the gateway, `MakePayment` step by step |
| `Strife` | gateway and banks together; fairness; all properties |
| `PaymentContract` | the abstract specification: take once, then give once, then confirm |
| `StrifeInvariant` | the inductive invariants of Strife |
| `StrifeProofs` | its theorems about the order of the calls, the log and the contract |
| `SettlementProofs` | its theorems about money: atomicity, and the account file |
| `MCStrife` | instances of Strife for TLC |
| `OfflineQueue`, `MCOfflineQueue`, `OfflineQueueProofs` | the offline payments of the clients |
| `Generals`, `MCGenerals`, `GeneralsProofs` | commander and generals |
| `MapReduce`, `MCMapReduce`, `MapReduceProofs` | master and workers |
| `Registry` | backends, etcd, stamps and the sweep; death and restart of the LB server |
| `LoadBalancer` | the handlers of `GetBestServer`, on the registry |
| `LoadTest` | load test and people, on the two above: the whole system, its fairness and most properties |
| `MCLoadTest` | instances, and the situations a run starts in |
| `LoadBalancerProofs` | the invariants of `Registry` and `LoadBalancer`, and that their steps keep them |
| `LoadTestProofs` | the invariant of the load test, and the theorems about the whole load balancer |
| `DataLemmas` | what several proofs need of sequences and of sums over finite sets |

Variables keep the names of the code where it has a name. `PROJECT.json` maps every definition to
the lines it stands for. Definitions whose comment says *Faulty variant* are plausible bugs; each
property has one that breaks it, and no specification uses them.

### Strife in detail

*Calls.* `rpc[c][k]` is how far remote call `k` of invocation `c` has come: `sent`, `busy` (executed
in memory, the bank is saving), `yes`, `no`. The bank and the gateway look at it independently, so
that a call may be executed after the gateway took it for failed, or executed with its reply lost.
`client[c][k]` is the incarnation of the bank the connection leads to; a call to an incarnation that
is gone fails, and is never executed by a later one. A transaction id is a hash of the fields of the
payment, so `Payment` is a constant function of the id; two invocations may carry one id.

*Gateway.* `pc[c]` is the call the invocation waits for. What lies between two remote calls touches
only the log under its mutex and `transactions.txt` under `mu1`, and is one step with the return of
the earlier call. The log write is a step of its own, and `Finish` (status in memory) precedes it:
another invocation may write the file in between.

*Banks.* `Prepare` and `Abort` run entirely under the mutex and touch only the bank's own memory and
one whole-file write: one step. `Commit` holds the mutex over `persistUserBalances`, whose read,
truncation and write other banks can see: four steps (`CommitApply`, `SaveRead`, `SaveTruncate`,
`SaveFlush`). Start-up is `Start` (port, accounts), `RegisterServer`, `Serve` (listen, load entries).

*History variables.* `debits`, `credits` count how often each half was applied in memory, including
halves whose save was lost with the bank; `overlapped` says that two saves overlapped or a bank died
in one.

*Abstractions.* `users_loggedin` is keyed by user rather than port (a client has one of each).
A write of a small file by one `WriteFile` is atomic, except that a death in it leaves a file that
does not parse, which the readers take for empty. CSV text garbled by two writers at the same moment
is not modelled. The Go runtime's fatal error on concurrent map writes appears as the death of the
process, which is possible at any time. Whether an entry is older than 30 minutes is a choice,
restricted to the ids in `MayGoStale`.

### The others in detail

*OfflineQueue.* A client's goroutines are its main loop, which waits while it makes a payment
directly, and its pollers. A poller is where `checkOnline` is: it has `read` some lines, `rest` are to be
scanned, `remaining` will be written back. Of the gateway only what a client can tell is here.
A line written over others may leave a torn line. `WriteBack` is one step. The code loses payments,
and every loss is on record: in `overwritten` what a main loop that queues in an outage writes over,
or does not store as there is no file (client/main.go:308); in `dropped` what a poller truncates
unread, writes over, or takes along when its client ends between truncation and writing back. The
repository ships an empty file; `Init` has both that and none.

*Generals.* Registration is split at every read and write of the range outside the mutex. `timely`
is whether the sleeps outlast what they are to outlast; both kinds of behaviour are explored. The
dishonest answer anything each time they are asked. `fooled` records a vote in which honest answers
had no majority. The ports are consecutive.

*MapReduce.* A run is one start of master and workers in the same directory. Words are opaque and `Part`
is the hash. No word has a colon, at which the reducers split their lines (client/main.go:126, 215):
with one a word would be misread; no file under `dataset/` has any. A map task appends line by line, a
reduce task reads file by file, so that a worker process left over from an earlier run interleaves with
the present one.

*Registry.* etcd is external, a map from servers to loads that always answers. Instead of a clock there
is the age of each stamp, which `Tick` advances up to the largest age anything tells apart; the second
to which the code truncates its stamps is not told apart either. A sweep reads the keys, then the clock,
and then takes up to three steps per key: `SweepCheck` looks at the stamp (lines 167-168), `SweepErase`
takes it out of the map (170), `SweepRemove` removes the key from etcd (172). Time and reports may come
between any two, so that a stamp may be erased that nobody looked at. `UpdateLoad` is `Stamp` and
`StoreLoad`; a backend waits for the reply, so that one is in flight per backend, and it goes on when
the backend dies. `Punctual` backends do not die by themselves, and time waits for their reports: this
is what "reports in time" means. What `getProcessCPUByPort` finds is any member of `Measured`.

*LoadBalancer.* A request is a goroutine. Policies other than round robin choose from one read of
etcd and are one step; round robin reads `rrIndex`, writes it and uses it in three, as nothing guards
it. `crossed` has the requests that met at the index, `round` what was chosen since the last complete
turn. An index outside the list is a panic, and with it the death of the LB server. Go's fatal error
on concurrent map writes is that same death, which is possible at any time.

*LoadTest.* Whether a call of a backend succeeds is whether it listens at that moment. Addresses
written as `localhost:port` and with the host's address are one backend: all run on one host. The
channel's order does not matter to the summary, so that it is a count per outcome.

## 3. Runs

`tlc -config <run>.cfg <module>`; the properties are stated with their comments in the modules.
Deadlock is not checked: all of these systems may stop for good (bounds reached, programs ended,
nobody starting anything); the liveness properties say where they must not.

| run | instance | states | shows |
|---|---|---|---|
| `strife_faults` | 2 banks, 1 payment sent twice, each process dies once | 0.62 M | `OnceAndInOrder`, `BothPrepared`, `LogIsTrue`, `KeepsContract`, `OutcomeIsKept` |
| `strife_concurrent` | 3 payments at once, one refused, one client dies | 0.5 M | `UndisturbedIsAtomic`, `BooksBalanceInTurn`, `OutcomeIsKept` |
| `strife_live` | 1 payment, everything dies once, stale entries | 0.16 M | `EveryPaymentEnds`, `PendingDrains` |
| `offline_queue` | 2 clients with 1 poller each and the empty file, or 1 with 2 and none; 2 payments, queued or direct, 1 outage, 2 lines | 0.14 M | `NothingIsLost`, `PaymentsAreAnswered` |
| `generals` | N = 5, two rounds of votes, one dishonest, the last general late | 0.44 M | `HonestOrderObeyed`, `Agreement`, `VotesEnd` |
| `map_reduce` | 2 mappers, 2 reducers, 2 runs | 0.25 M | `IndexIsExact`, `CountsHold`, `FinishedIsComplete`, `MasterEnds` |
| `load_balancer` | 2 backends, one punctual; LB server and backends die and restart, or 2 testers, or 1 with 3 requests, or a person | 76 k | `PunctualIsListed`, `IndexInList`, `TakesTurns`, `SummaryIsComplete`, `LoadTestEnds`, `DeadAreRemoved`, `LivingAreListed` |

Why these bounds are enough to be interesting. One payment and two invocations of it contain every order
of the six calls with deaths, late execution, lost replies and a resend; the safety properties are per
payment, and the proofs remove the bound. Payments meet only in the log file, the account file and the
balances: two or three of them with different banks, the same bank or the same sender cover each. One
restart of each process is the first after which stale connections, stale files and repeated ids exist.
A second goroutine at the offline file, or the end of its client, is what it takes for a poller to drop
a payment, and a second payment for an outage to overwrite one; two lines are what two payments make. N
= 5 is the smallest number for which one liar among those asked leaves an honest majority, and two
rounds (T = 2) the fewest in which one general can be a round ahead of another. Two runs are what it
takes to read what an earlier run left. Two backends are the fewest with which the list has a first and
a second place and shrinks to one, and two requests the fewest that meet at the index. A silent time of
2 ticks and a sweep of at most 1 keep the order of the code's 8 s and the milliseconds of a sweep; with
a sweep as long as the silent time the code's `math.Abs` would remove servers for stamps that are newer
than the sweep's clock, which `PunctualIsListed` excludes. That no log write of a restarted gateway
overwrites another payment's outcome is not seen by these runs (it takes two payments and a restart);
the theorem `Kept` covers it.

The starting states of `Strife!WarmInit`, `MCGenerals!LateInit` and `MCLoadTest!RegistryWarm` are
reachable: a start-up without incidents, generals that registered one after the other, and two backends
that reported before one of them died, overdue or with its last report under way. The situations of
`MCLoadTest` split what would be too much at once: restarts without requests, and requests with a dead
backend removed, or listed late and removed. With sleeps that are long enough, all of the last general's
registration races with the orders; without timing, where the votes themselves interleave freely, it has
registered and has yet to listen.

### Where the code does not do what the documents say

Each is a run whose expected result is the counterexample, and a finding in `PROJECT.json`.

| run | property | what happens |
|---|---|---|
| `strife_same_bank` | `OnceAndInOrder` | both accounts at one bank: the second prepare overwrites the first, the receiver is credited twice, the sender never debited |
| `strife_aborted` | `AbortedIsRolledBack` | the reply of the first commit is lost: debited, logged `aborted`, never credited |
| `strife_overdraft` | `NoOverdraft` | two payments prepared against one balance are both committed |
| `offline_promises` | `OfflineCapabilities` | an outage overwrites queued payments, or stores none; after it, the restarted gateway refuses queued payments, and the client drops them |
| `generals_tolerance` | `Tolerates` | N = 4, T = 1: one liar causes a tie, and a tie is an attack |

`OfflineCapabilities` is false only where both lines of README.md:165-166 are, so that one trace refutes
both: the main loop of one client writes its payment over the one another client queued before
(`StoredInOutage`), and its poller then drops it although the gateway has not begun it
(`RetriedUntilBegun`). It leaves out behaviours in which a poller dropped something: the client is
alone at the file when it goes wrong.

`DeadAreRemoved` is about a backend that died leaving a stamp, and no report under way. The code does
offer a dead backend for ever in two cases, and nothing in the repository promises otherwise: it never
reported; or its last report was stamped before the sweep erased the stamp (between lines 167 and 170,
or long before) and stored after the sweep removed the key (172). It is in etcd without a stamp then,
and no sweep looks at it. Of all others the property says that they are removed, and stay away until
they are started again.

### Fairness

Liveness is stated under weak fairness only. `Strife!Fairness`: a goroutine that can run does (Go's
scheduler), the bank's mutex is not withheld for ever (`sync.Mutex` is starvation free), a connection to
a process that is gone fails (same host), the cleanup ticker ticks and finds entries that stay old.
Nobody has to restart a process, log in or pay. `OfflineQueue!Fairness`: pollers and a main loop that
waits go on, and a gateway that is up answers; no outage has to end. `Generals!Fairness` is `WF(Next)`:
all behaviours are finite, so it only says that somebody goes on while anybody can.
`MapReduce!Fairness`: master and worker processes go on while they can. `LoadTest!Fairness`: a backend
that lives goes on reporting and its reports are handled, the sweep goes on, testers, their handlers and
the main goroutine go on, time passes; nobody has to restart and no person to ask. No fairness is put on
deaths, or on their absence.

## 4. Proofs

`tlapm <module>`, for every value of the constants: any banks, users, ids and invocations, any
payments, files and words, any number of processes, and any bound. The constants are assumed to be of
their types (the named `ASSUME` of each component, which TLC evaluates in the runs); whatever else a
theorem needs is in its statement.

| module | theorem | says | needs |
|---|---|---|---|
| `StrifeProofs` | `TypeCorrect` | `Spec => []TypeOK` | |
| | `GatewayInvariant` | calls in order, one owner per id, statuses backed by what the owner saw | |
| | `Invariant` | `Spec => []IInv` | `CrossBank` |
| | `Once`, `Prepared`, `Log` | `Spec =>` always `OnceAndInOrder`, `BothPrepared`, `LogIsTrue` | `CrossBank` |
| | `Kept` | `Spec => OutcomeIsKept` | |
| | `Refinement` | `Spec => KeepsContract`, that is `PaymentContract!Spec` | `CrossBank` |
| `SettlementProofs` | `Steadily` | `WarmSpec => []AtomicityInv` | `CrossBank` |
| | `Atomic` | `WarmSpec => []UndisturbedIsAtomic` | `CrossBank` |
| | `WarmSafety`, `WarmContract` | what holds of `Spec` holds of `WarmSpec` | `CrossBank` |
| | `Books` | `BooksBalanceInTurn`, of `Spec` and of `WarmSpec` | `CrossBank`, `AtHome`, finitely many ids |
| `OfflineQueueProofs` | `TypeCorrect`, `NothingLost` | `Spec =>` always `TypeOK`, `NothingIsLost` | |
| `GeneralsProofs` | `TypeCorrect`, `Obeyed`, `Agreed` | `Spec =>` always `TypeOK`, `HonestOrderObeyed`, `Agreement` | |
| | `Tolerated` | `Spec => []Tolerates` | not both T = 1 and N = 4 |
| `MapReduceProofs` | `TypeCorrect`, `IndexExact`, `FinishedComplete` | `Spec =>` always `TypeOK`, `IndexIsExact`, `FinishedIsComplete` | |
| | `CountsRight` | `Spec => []CountsHold` | |
| `LoadTestProofs` | `TypeCorrect`, `PunctualStay` | `Spec =>` always `TypeOK`, `PunctualIsListed` | |
| | `IndexSafe`, `TurnsTaken` | `Spec =>` always `IndexInList`, `TakesTurns` | |
| | `SummaryComplete` | `Spec => []SummaryIsComplete` | |

`DataLemmas` and `LoadBalancerProofs` hold lemmas only. Every inductive invariant was checked by TLC
on the instances of the runs before it was proved.

`CrossBank` says that no payment is between two accounts of one bank; without it `OnceAndInOrder` is
false, as `strife_same_bank` shows. `AtHome` says that a payment names the bank at which each of its
two accounts is. The bank's `Prepare` never asks whether an account is its own (server/main.go:197),
and without `AtHome` TLC finds `BooksBalanceInTurn` violated: two banks change one account, and the
one that saves later brings back what it had in memory. Nothing is assumed of amounts.
`WarmSpec` starts after a start-up without incidents. `UndisturbedIsAtomic` speaks of payments whose
banks did not restart, and is only meant from there: in a cold start every bank is started later.

### The arguments

*Strife, order and log (`IInv`).* `OnceAndInOrder` is not inductive: it speaks of money, and what
keeps a second debit out is where the calls are. `IInv` adds

* `OneOwner`: at most one invocation per id got past the idempotency check, since whoever got there
  has put the id into `transactions`, which nobody ever removes one from;
* `CallsInOrder`: the owner's calls are made in order, each after the `yes` to the one before, so a
  commit stands on two prepares;
* `Connections` and `Entries`: prepare and commit of one half go to the same incarnation of a bank;
  while that runs, its entry can disappear but never turn into the other half, not even by loading
  the file of another bank at start-up, which happens before it executes anything. This is where
  `CrossBank` is needed;
* `Counts`: a half was applied exactly if the owner's commit was executed. A commit is executed once,
  because it is a call and calls are not repeated;
* `Outcomes` and `Replies`: a status, in memory or on disk, and the answer "ok", stand on what the
  owner saw when it ended.

The proof has a lemma per conjunct for the steps it can notice, each with a case per action, and one
lemma that the remaining steps leave its variables alone. `Kept` needs only the gateway's part, which
holds without `CrossBank`. `Refinement` maps `debits`, `credits` and the set of confirmed ids; every
step is a `Take`, a `Give`, a `Confirm` or a stutter by `Counts` and `Replies`.

*Strife, atomicity (`AtomicityInv`).* What is undisturbed now was never disturbed (`FirstRuns`: what
has not restarted has not been down). So no call of its owner failed or was given up (`Calm`), and how
far the calls have come determines everything else (`Steadiness`): what the log entry says of the
prepares, whether the invocation commits or aborts, and what the two banks hold for the id, from
prepare to commit or abort. Only these two banks end up without an entry: a third one that starts
takes over whatever the shared `pending_transactions.json` holds at that moment.

*Strife, books (`BooksInv`).* Only the bank of an account changes it (`Known`, `Savers`, with
`AtHome`). So, while saves neither overlap nor are cut short, its memory is right about its own
accounts (`OwnAccounts`); a bank that has read the file in a save is right about all of them
(`AllAccounts`); and the file is, but for the account that is being saved (`SharedFile`). Right means
equal to `Ledger`, the initial balance with what was applied of all payments, which is a sum over
`Tx`. The community modules define such sums by a `CHOOSE` of a recursive function; `DataLemmas` shows
that there is one, that it is unique, and what a change of one summand does to it. It does so without
an induction theorem, from a least counterexample.

*Offline payments (`QueueInv`).* Of what a goroutine has read, each payment is answered, kept in
`remaining`, or still before it in `rest` (`Accounted`). So when it has scanned all it read and truncates
the file, what it read is answered or in its hands, and what it did not read is recorded as dropped;
when it writes back, all it carried is in the file, and what it wrote over is recorded. `Traced` is
`NothingIsLost` with the poller that carries the payment named; it has no exception, so that the
theorem says that there is no way to lose a payment but the recorded ones.

*Generals.* `ObeyInv`: with an honest commander and no vote fooled, the shared order is his from the
first call on, and whoever answered otherwise is dishonest; an honest majority of the answers then
gives his order again. `AgreeInv`: with sleeps that are long enough, calls are over before the first
vote, and votes before the first decision, so that all decide on the same `order_global`. `EnoughInv`:
when the whole range is registered, a general that votes has heard of everybody below the port it
asks next, N - 2 generals in the end, of which at most T lie; that is enough when N - 2 > 2T. The
repository's README.md:74 claims that N >= 3T + 1 is: that implies N - 2 > 2T except for T = 1 and
N = 4, which `generals_tolerance` refutes, and for T = 0, when nobody votes. Hence `Tolerated`.

*Map-reduce (`MapReduceInv`).* Files name only words of the input (`OnlyInput`) and, once a map task is
done, all of them (`Handlers`, `PhasesAreDone`), for good, as nothing is ever removed. Whoever adds
lines later, also a process left over from an earlier run, changes no answer to the question a
reducer of the index asks, whether a word is in a file. `MasterIsAt` ties the task of the handler to
where the master is. `CountsInv`, for the word count, is about numbers of lines: a mapper has written a
line for each position it has passed, and what others add only makes the lines more (`EnoughLines`). In
the first run nobody adds any: a task is given out once, as the master never goes back, so the lines
are exactly those positions (`FirstRun`). A reducer reads each file once, and its sum is compared with
the occurrences of the word file by file, by a lemma of `DataLemmas` on sums of larger summands. Sums are
again those of the community modules.

*Load balancer.* `RegistryInv`: a punctual backend that has a stamp lives, and its stamp is younger
than the silent time; so no sweep, not even one under way since an older stamp, finds it overdue. This
needs a sweep to be shorter than the silent time, as the property says. `BalancerInv`: requests that
are at `rrIndex` together have crossed; of one that has not, `rrIndex` is the index it computed, which
is inside the list it read; and the servers chosen in this turn are the last k of the list, counted
backwards from that index, with k below its length, so that the next one is not among them. `TestInv`
counts: the metrics of an outcome that were collected, are in the channel or are held by a tester
are the calls that ended so, the requests not yet made and those skipped make up the rest, and the
channel is closed when the wait group has seen all testers done.

### Only model-checked

All liveness: `EveryPaymentEnds`, `PendingDrains`, `PaymentsAreAnswered`, `VotesEnd`, `MasterEnds`,
`LoadTestEnds`, `DeadAreRemoved`, `LivingAreListed`. The prover has neither fairness nor `ENABLED`.
Every safety property of every passing run, that is each invariant and each action property, is stated
by a theorem of the table; liveness is all that is left to the bounded runs.

## 5. Not modelled

* Outages of etcd (every error of it ends the LB server or is an empty list), the CSV and the
  figures the load test prints, the files with the next free port, scaling scripts and plots.
* `Transaction` of the bank server, which nothing calls; `ViewBalance` and `SendBalanceReq` only
  read, except that an unreachable bank takes the gateway down, which is `FatalBankCall`.
* Certificates, TLS, generated stubs, the files with the next free port, menus and logging.
* The race on the slice header of `conns` in the two programs whose main goroutine spins on its
  length, beyond what the order of registration steps shows.
* int32 overflow of amounts and balances.

## 6. Plan

1. `OfflineQueue` composed with `Strife`, so that a payment that was typed in is followed from the
   client to the contract.
2. Abstract specifications for the offline queue (a set of payments, each answered or still queued)
   and for the generals (one value is decided), with refinement.
