---------------------------- MODULE MCMapReduce ----------------------------
(* Two files, one with a word twice, and two reducers, in two runs.        *)
EXTENDS MapReduce, TLC

TwoFiles == <<<<"a", "b", "a">>, <<"b">>>>
Apart    == "a" :> 1 @@ "b" :> 2
=============================================================================
