------------------------------ MODULE Payments ------------------------------
(***************************************************************************)
(* What the payment gateway and the bank servers of Strife share: the      *)
(* payments themselves, the six remote calls that one invocation of        *)
(* MakePayment can make, and the state both ends of a call can see: how    *)
(* far each call has come, which incarnation of a bank it was sent to, and *)
(* which incarnation of each bank is running.                              *)
(*                                                                         *)
(* A transaction id is a hash over the fields of a payment, so it          *)
(* determines them: Payment is a constant function.  A Call is one         *)
(* invocation of MakePayment; two calls may carry the same id, which is    *)
(* what a client that resends a queued payment does.                       *)
(***************************************************************************)
EXTENDS Integers

CONSTANTS Bank, User,
          Tx,        \* transaction ids
          Payment,   \* the fields each id stands for
          Call,      \* invocations of MakePayment
          TxOf       \* the id an invocation carries

PaymentDetails == [from: User, fromBank: Bank, to: User, toBank: Bank, amount: Int]

ASSUME PaymentsAssumption == /\ Payment \in [Tx -> PaymentDetails]
                             /\ TxOf \in [Call -> Tx]

PrepareKind == {"prepareSource", "prepareDest"}
CommitKind  == {"commitSource", "commitDest"}
AbortKind   == {"abortSource", "abortDest"}
SourceKind  == {"prepareSource", "commitSource", "abortSource"}
DestKind    == {"prepareDest", "commitDest", "abortDest"}
Kind        == PrepareKind \cup CommitKind \cup AbortKind

VARIABLES
  rpc,          \* how far each remote call of each invocation has come
  client,       \* the incarnation of the bank its connection leads to
  phase,        \* how far the bank process has come in its main
  incarnation   \* the run of the bank process, its port: 0 before the first

rpcVars  == <<rpc, client>>
procVars == <<phase, incarnation>>

\* "sent": on its way or waiting for the bank's mutex; "busy": executed in
\* memory, the bank is saving; "yes" and "no": answered.
RpcState == {"none", "sent", "busy", "yes", "no"}

Phase == {"down", "loaded", "registered", "serving"}

Pay(c) == Payment[TxOf[c]]

Target(c, k) == IF k \in SourceKind THEN Pay(c).fromBank ELSE Pay(c).toBank

\* The connection of call k leads to a process that answers.
Reachable(c, k) == LET b == Target(c, k)
                   IN  phase[b] = "serving" /\ client[c][k] = incarnation[b]

PaymentsTypeOK == /\ rpc \in [Call -> [Kind -> RpcState]]
                  /\ client \in [Call -> [Kind -> Nat]]
                  /\ phase \in [Bank -> Phase]
                  /\ incarnation \in [Bank -> Nat]

PaymentsInit == /\ rpc = [c \in Call |-> [k \in Kind |-> "none"]]
                /\ client = [c \in Call |-> [k \in Kind |-> 0]]
                /\ phase = [b \in Bank |-> "down"]
                /\ incarnation = [b \in Bank |-> 0]
=============================================================================
