---------------------------- MODULE MCRpcChannel ----------------------------
(* Instances of RpcChannel for TLC: two callers, three ids, a queue of one. *)
EXTENDS RpcChannel
CONSTANTS c1, c2
TwoCallers == {c1, c2}
=============================================================================
