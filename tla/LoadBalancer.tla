---------------------------- MODULE LoadBalancer ----------------------------
(***************************************************************************)
(* GetBestServer of the LB server (lb_server/main.go), on the registry.    *)
(* Each request is handled by a goroutine of its own.  Two of the policies *)
(* choose from what one read of etcd returned; round_robin also reads and  *)
(* writes rrIndex, which all requests share and nothing guards, so that    *)
(* every access to it is a step.                                           *)
(***************************************************************************)
EXTENDS Registry

CONSTANTS Client    \* those who ask: clients of the load test, and people

VARIABLES
  policy,    \* os.Args[1]
  rrIndex,
  request,   \* per client, where its request is
  round,     \* history: the choices since the last complete turn, and from which list
  crossed    \* history: the requests that met another one at rrIndex

balancerVars == <<policy, rrIndex, request, round, crossed>>

Policy == {"pick_first", "round_robin", "least_load", "unknown"}

\* A request is "none", has read the keys ("listed") and the index ("loaded"), has
\* written the index ("moved"), or is answered with a server ("picked") or an error.
NoRequest == [at |-> "none", list |-> {}, index |-> 0, server |-> -1]
Request == [at: {"none", "listed", "loaded", "moved", "picked", "error"},
            list: SUBSET Server, index: Nat, server: Server \cup {-1}]

BalancerTypeOK == /\ policy \in Policy
                  /\ rrIndex \in Nat
                  /\ request \in [Client -> Request]
                  /\ round \in [list: SUBSET Server, chosen: SUBSET Server]
                  /\ crossed \subseteq Client

NoRound == [list |-> {}, chosen |-> {}]

BalancerInit == /\ policy \in Policy
                /\ rrIndex = 0
                /\ request = [c \in Client |-> NoRequest]
                /\ round = NoRound
                /\ crossed = {}

\* The server with index i in serverList, which has the keys of S in order.
At(S, i) == CHOOSE s \in S : Cardinality({r \in S : r < s}) = i

Lightest == {s \in DOMAIN etcd : \A r \in DOMAIN etcd : etcd[s] <= etcd[r]}

Answered(c, s) == request' = [request EXCEPT ![c] = [NoRequest EXCEPT !.at = "picked", !.server = s]]
Fails(c)       == request' = [request EXCEPT ![c] = [NoRequest EXCEPT !.at = "error"]]

-----------------------------------------------------------------------------
\* The read of etcd; without servers there is an error, and two of the policies
\* choose at once.  The loads are in a map, so that the first of several lightest
\* servers is any of them.
GetServers(c) ==
  /\ lbUp
  /\ request[c].at = "none"
  /\ \/ (DOMAIN etcd = {} \/ policy = "unknown") /\ Fails(c)
     \/ DOMAIN etcd # {} /\ policy = "pick_first" /\ Answered(c, First(DOMAIN etcd))
     \/ policy = "least_load" /\ \E s \in Lightest : Answered(c, s)
     \/ /\ DOMAIN etcd # {} /\ policy = "round_robin"
        /\ request' = [request EXCEPT ![c].at = "listed", ![c].list = DOMAIN etcd]
  /\ UNCHANGED <<policy, rrIndex, round, crossed>>

\* The requests that are somewhere between reading rrIndex and using it.
AtIndex == {c \in Client : request[c].at \in {"loaded", "moved"}}

\* Faulty variants: the modulus is one too large; the list wraps to its second place.
AdvancedTooFar(i, n) == (i + 1) % (n + 1)
AdvancedPast(i, n)   == IF i + 1 >= n THEN 1 % n ELSE i + 1
Advanced(i, n) == (i + 1) % n

LoadIndex(c) ==
  /\ lbUp
  /\ request[c].at = "listed"
  /\ request' = [request EXCEPT ![c].at = "loaded",
                                ![c].index = Advanced(rrIndex, Cardinality(request[c].list))]
  /\ crossed' = IF AtIndex = {} THEN crossed \ {c} ELSE crossed \cup AtIndex \cup {c}
  /\ UNCHANGED <<policy, rrIndex, round>>

StoreIndex(c) ==
  /\ lbUp
  /\ request[c].at = "loaded"
  /\ rrIndex' = request[c].index
  /\ request' = [request EXCEPT ![c].at = "moved"]
  /\ UNCHANGED <<policy, round, crossed>>

\* The index is outside the list of request c: the goroutine panics.
OutOfRange(c) == request[c].at = "moved" /\ rrIndex >= Cardinality(request[c].list)

\* What request c chooses, and the turn it belongs to.
Choice(c) == At(request[c].list, rrIndex)
NextRound(c) ==
  LET chosen == {Choice(c)} \cup (IF round.list = request[c].list THEN round.chosen ELSE {})
  IN  IF c \in crossed THEN NoRound
      ELSE [list |-> request[c].list, chosen |-> IF chosen = request[c].list THEN {} ELSE chosen]

UseIndex(c) ==
  /\ lbUp
  /\ request[c].at = "moved"
  /\ ~OutOfRange(c)
  /\ Answered(c, Choice(c))
  /\ round' = NextRound(c)
  /\ UNCHANGED <<policy, rrIndex, crossed>>

\* GetBestServer of a server that is down.
NoBalancer(c) ==
  /\ ~lbUp
  /\ request[c].at = "none"
  /\ Fails(c)
  /\ UNCHANGED <<policy, rrIndex, round, crossed>>

\* The LB server dies, and every request it handles is answered with an error.
BalancerDown ==
  /\ rrIndex' = 0
  /\ request' = [c \in Client |-> IF request[c].at \in {"listed", "loaded", "moved"}
                                  THEN [NoRequest EXCEPT !.at = "error"] ELSE request[c]]
  /\ round' = NoRound
  /\ crossed' = {}
  /\ UNCHANGED policy

\* What the handler of request c does once it has read the keys.
Handler(c) == LoadIndex(c) \/ StoreIndex(c) \/ UseIndex(c)

-----------------------------------------------------------------------------
(***************************************************************************)
(* The index a request is about to use is inside the list it read, unless  *)
(* another request was at the index meanwhile: servers that come and go    *)
(* between requests never make the LB server panic.                        *)
(***************************************************************************)
IndexInList == \A c \in Client \ crossed : ~OutOfRange(c)

(***************************************************************************)
(* Requests that do not meet take turns: as long as the list is the same,  *)
(* no server is chosen again before all others were.                       *)
(***************************************************************************)
TakesTurns ==
  \A c \in Client \ crossed :
    request[c].at = "moved" /\ ~OutOfRange(c) /\ round.list = request[c].list
      => Choice(c) \notin round.chosen
=============================================================================
