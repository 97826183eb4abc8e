---------------------------- MODULE MCParseStream ----------------------------
(* Instances of ParseStream for TLC: two parses of one session. *)
EXTENDS ParseStream
CONSTANTS f1, f2
TwoFiles == {f1, f2}
One == {1}
NoneOrOne == 0 .. 1
\* One file has the longer stream and the progress reports.
TwoAndOne == [f \in TwoFiles |-> IF f = f1 THEN 2 ELSE 1]
OneAndNone == [f \in TwoFiles |-> IF f = f1 THEN 1 ELSE 0]
=============================================================================
