----------------------------- MODULE CallPromise -----------------------------
(***************************************************************************)
(* What a caller may expect of the host's JSON-RPC channel, whatever the   *)
(* plugin, the timers and the session's end do: request ids are handed out *)
(* in order, one per call, and a call settles once, for good.              *)
(***************************************************************************)
EXTENDS Naturals

CONSTANT MaxCalls   \* a natural number

Id == 1 .. MaxCalls

VARIABLE status   \* of the call with each request id

Init == status = [i \in Id |-> "new"]

Open(i) ==
  /\ status[i] = "new"
  /\ \A j \in Id : j < i => status[j] # "new"
  /\ status' = [status EXCEPT ![i] = "open"]

\* The plugin's answer, or an error the host makes up, reaches the caller.
Settle(i, s) ==
  /\ status[i] = "open"
  /\ status' = [status EXCEPT ![i] = s]

Next == \E i \in Id : Open(i) \/ \E s \in {"answered", "failed"} : Settle(i, s)

Safety == Init /\ [][Next]_status

Spec ==
  /\ Safety
  /\ \A i \in Id : WF_status(\E s \in {"answered", "failed"} : Settle(i, s))
=============================================================================
