----------------------------- MODULE MCGenerals -----------------------------
(* The generals, started when all but the last have registered, one after  *)
(* the other, with a dishonest commander or first general.  Without timing *)
(* the last one has registered too, and has yet to listen.  An honest one  *)
(* behaves like a dishonest one who happens to tell the truth.  Nothing is *)
(* claimed of a dishonest commander without timing, so that is left out.   *)
EXTENDS Generals

LateInit ==
  LET last == N - 1
      there(late) == IF late THEN 1..(last - 1) ELSE 1..last
  IN  /\ dishonest \in {{0}, {1}}
      /\ timely \in BOOLEAN /\ (0 \in dishonest => timely)
      /\ conns = [i \in there(timely) |-> i] /\ generals = conns
      /\ minPort = 1 /\ maxPort = Len(conns)
      /\ stage = [g \in General |-> CASE g # last -> "listening"
                                      [] g = last /\ timely -> "new"
                                      [] OTHER -> "maxWritten"]
      /\ seen = [g \in General |-> 0]
      /\ command \in Command
      /\ commanderRuns = TRUE
      /\ ordered = 0
      /\ process = "runs"
      /\ order_global = "none" /\ min_port = 0 /\ max_port = 0
      /\ at = [g \in General |-> "none"]
      /\ mp = [g \in General |-> {}]
      /\ asking = [g \in General |-> 0]
      /\ round = [g \in General |-> 0]
      /\ asked = [g \in General |-> NoAnswers]
      /\ decided = [g \in General |-> "none"]
      /\ fooled = FALSE

LateSpec == LateInit /\ [][Next]_vars /\ Fairness
=============================================================================
