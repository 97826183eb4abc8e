-------------------------- MODULE MCPluginSession --------------------------
(* Instances of PluginSession for TLC: two clients and one file. *)
EXTENDS PluginSession
CONSTANTS c1, c2, f1
TwoClients == {c1, c2}
OneFile == {f1}

\* Which methods the two clients call.
Calls(m1, m2) == [c \in TwoClients |-> IF c = c1 THEN m1 ELSE m2]
ImportAndUnload == Calls({"parse"}, {"load", "unload"})
OneClient       == Calls({"parse", "load", "query", "shutdown"}, {})
ParseAndStop    == Calls({"parse"}, {"shutdown"})
LoadAndUnload   == Calls({"load"}, {"unload"})
=============================================================================
