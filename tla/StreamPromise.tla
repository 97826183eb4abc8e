---------------------------- MODULE StreamPromise ----------------------------
(***************************************************************************)
(* What the parse of a file promises, whatever queues lie between plugin   *)
(* and store: the store takes the plugin's batches in the order they were  *)
(* sent, none twice and none left out before a later one, it forgets all   *)
(* or nothing, and a verdict, once spoken, is final.                       *)
(***************************************************************************)
EXTENDS Sequences, Naturals

CONSTANTS Files, Batches

VARIABLES
  sent,    \* the batches the plugin sent for each file
  data,    \* the batches the store keeps of it
  status   \* "new", "open", "ready" or "failed"

vars == <<sent, data, status>>

Init ==
  /\ sent = [f \in Files |-> <<>>]
  /\ data = [f \in Files |-> <<>>]
  /\ status = [f \in Files |-> "new"]

Open(f) ==
  /\ status[f] = "new"
  /\ status' = [status EXCEPT ![f] = "open"]
  /\ UNCHANGED <<sent, data>>

Send(f, b) ==
  /\ sent' = [sent EXCEPT ![f] = Append(@, b)]
  /\ UNCHANGED <<data, status>>

Keep(f) ==
  /\ status[f] = "open" /\ Len(data[f]) < Len(sent[f])
  /\ data' = [data EXCEPT ![f] = Append(@, sent[f][Len(@) + 1])]
  /\ UNCHANGED <<sent, status>>

Forget(f) ==
  /\ status[f] = "open"
  /\ data' = [data EXCEPT ![f] = <<>>]
  /\ UNCHANGED <<sent, status>>

Ready(f) ==
  /\ status[f] = "open"
  /\ status' = [status EXCEPT ![f] = "ready"]
  /\ UNCHANGED <<sent, data>>

Fail(f) ==
  /\ status[f] = "open"
  /\ status' = [status EXCEPT ![f] = "failed"]
  /\ data' = [data EXCEPT ![f] = <<>>]
  /\ UNCHANGED sent

Next ==
  \E f \in Files :
    \/ Open(f) \/ Keep(f) \/ Forget(f) \/ Ready(f) \/ Fail(f)
    \/ \E b \in Batches : Send(f, b)

Spec == Init /\ [][Next]_vars
=============================================================================
