----------------------------- MODULE RpcChannel -----------------------------
(***************************************************************************)
(* The host's end of one plugin's JSON-RPC channel (RpcChannel and         *)
(* run_read_loop in core/ab-host/src/rpc.rs): request ids, the pending     *)
(* table, the bounded queue to the writer task, timeouts, late and unknown *)
(* responses, and the drain at the session's end.  One action is what a    *)
(* task does between two locks or awaits.                                  *)
(***************************************************************************)
EXTENDS Naturals, Sequences

CONSTANTS
  Callers,    \* tasks of the host that call the plugin, one call at a time
  QueueCap,   \* capacity of the queue to the writer task (64 in spawn)
  MaxCalls    \* bound on the request ids handed out

ASSUME QueueCapAssumption == QueueCap \in Nat \ {0}
ASSUME MaxCallsAssumption == MaxCalls \in Nat

Id == 1 .. MaxCalls

VARIABLES
  nextId,      \* RpcChannel::next_id: the last id handed out
  pending,     \* RpcChannel::pending: ids in the table
  broken,      \* RpcChannel::broken is Some
  writerOpen,  \* RpcChannel::writer is Some
  queue,       \* frames between call and the writer task, by id
  writer,      \* the writer task
  pc,          \* where each caller is in call
  id,          \* the request id of each caller's call, 0 for none
  slot,        \* the oneshot of each call: its receiver waits while "empty"
  outcome      \* what each call returned

wireVars == <<writerOpen, queue, writer>>
vars == <<nextId, pending, broken, wireVars, pc, id, slot, outcome>>

Busy == { "registered", "sending", "waiting", "expiring" }

TypeOK ==
  /\ nextId \in 0 .. MaxCalls
  /\ pending \subseteq Id
  /\ broken \in BOOLEAN /\ writerOpen \in BOOLEAN
  /\ queue \in Seq(Id)
  /\ writer \in {"running", "stopped"}
  /\ pc \in [Callers -> {"idle", "admitted"} \cup Busy]
  /\ id \in [Callers -> 0 .. MaxCalls]
  /\ slot \in [Id -> {"none", "empty", "result", "exited", "gone"}]
  /\ outcome \in [Id -> {"none", "result", "exited", "timeout", "closed", "dropped"}]

Init ==
  /\ nextId = 0 /\ pending = {}
  /\ broken = FALSE /\ writerOpen = TRUE
  /\ queue = <<>> /\ writer = "running"
  /\ pc = [c \in Callers |-> "idle"] /\ id = [c \in Callers |-> 0]
  /\ slot = [i \in Id |-> "none"] /\ outcome = [i \in Id |-> "none"]

-----------------------------------------------------------------------------
Goto(c, l) == pc' = [pc EXCEPT ![c] = l]

\* The call of c returns r; its receiver is dropped.
End(c, r) ==
  /\ pc' = [pc EXCEPT ![c] = "idle"]
  /\ id' = [id EXCEPT ![c] = 0]
  /\ outcome' = [outcome EXCEPT ![id[c]] = r]

Gone(c) == [slot EXCEPT ![id[c]] = "gone"]

\* drain_pending marks the channel and completes every call in the table.
Drained(s) == [i \in Id |-> IF i \in pending /\ s[i] = "empty" THEN "exited" ELSE s[i]]

-----------------------------------------------------------------------------
(* RpcChannel::call *)

\* A call on a broken channel fails at once, before it has an id.
CheckBroken(c) ==
  /\ pc[c] = "idle" /\ nextId < MaxCalls
  /\ ~broken
  /\ Goto(c, "admitted")
  /\ UNCHANGED <<nextId, pending, broken, wireVars, id, slot, outcome>>

Register(c) ==
  /\ pc[c] = "admitted" /\ nextId < MaxCalls
  /\ nextId' = nextId + 1
  /\ pending' = pending \cup {nextId + 1}
  /\ id' = [id EXCEPT ![c] = nextId + 1]
  /\ slot' = [slot EXCEPT ![nextId + 1] = "empty"]
  /\ Goto(c, "registered")
  /\ UNCHANGED <<broken, wireVars, outcome>>

TakeWriter(c) ==
  /\ pc[c] = "registered" /\ writerOpen
  /\ Goto(c, "sending")
  /\ UNCHANGED <<nextId, pending, broken, wireVars, id, slot, outcome>>

\* close_stdin came first: the entry is taken back.
WriterClosed(c) ==
  /\ pc[c] = "registered" /\ ~writerOpen
  /\ pending' = pending \ {id[c]}
  /\ slot' = Gone(c)
  /\ End(c, "closed")
  /\ UNCHANGED <<nextId, broken, wireVars>>

\* A full queue holds the caller here, outside the call's timeout.
Send(c) ==
  /\ pc[c] = "sending" /\ writer = "running" /\ Len(queue) < QueueCap
  /\ queue' = Append(queue, id[c])
  /\ Goto(c, "waiting")
  /\ UNCHANGED <<nextId, pending, broken, writerOpen, writer, id, slot, outcome>>

\* The writer task is gone: the failed send drains the whole table.
SendFails(c) ==
  /\ pc[c] = "sending" /\ writer = "stopped"
  /\ broken' = TRUE /\ pending' = {}
  /\ slot' = Drained(Gone(c))
  /\ End(c, "exited")
  /\ UNCHANGED <<nextId, wireVars>>

Receive(c) ==
  /\ pc[c] = "waiting" /\ slot[id[c]] \in {"result", "exited"}
  /\ slot' = Gone(c)
  /\ End(c, slot[id[c]])
  /\ UNCHANGED <<nextId, pending, broken, wireVars>>

\* Mutant: only a call on a broken channel times out.
ExpireBroken(c) ==
  /\ pc[c] = "waiting" /\ slot[id[c]] = "empty" /\ broken
  /\ Goto(c, "expiring")
  /\ UNCHANGED <<nextId, pending, broken, wireVars, id, slot, outcome>>

\* The timeout elapses with the oneshot still empty ...
Expire(c) ==
  /\ pc[c] = "waiting" /\ slot[id[c]] = "empty"
  /\ Goto(c, "expiring")
  /\ UNCHANGED <<nextId, pending, broken, wireVars, id, slot, outcome>>

\* Mutant: the entry of a call that timed out stays.
ForgetNothing(c) ==
  /\ pc[c] = "expiring"
  /\ slot' = Gone(c)
  /\ End(c, "timeout")
  /\ UNCHANGED <<nextId, pending, broken, wireVars>>

\* ... and the entry is removed, if a response has not taken it meanwhile.
Forget(c) ==
  /\ pc[c] = "expiring"
  /\ pending' = pending \ {id[c]}
  /\ slot' = Gone(c)
  /\ End(c, "timeout")
  /\ UNCHANGED <<nextId, broken, wireVars>>

\* The future of the call is dropped at an await (an outer timeout, an aborted
\* task); nothing removes its entry.
Drop(c) ==
  /\ pc[c] \in {"sending", "waiting"}
  /\ slot' = Gone(c)
  /\ End(c, "dropped")
  /\ UNCHANGED <<nextId, pending, broken, wireVars>>

Return(c) == TakeWriter(c) \/ WriterClosed(c) \/ Send(c) \/ SendFails(c)
             \/ Receive(c) \/ Expire(c) \/ Forget(c)

-----------------------------------------------------------------------------
(* The tasks around the channel *)

\* The writer task writes a frame out.
Write ==
  /\ writer = "running" /\ queue # <<>>
  /\ queue' = Tail(queue)
  /\ UNCHANGED <<nextId, pending, broken, writerOpen, writer, pc, id, slot, outcome>>

\* The write fails, or every sender is gone: the queue closes.
WriterStops ==
  /\ writer = "running"
  /\ \/ queue # <<>>
     \/ ~writerOpen /\ \A c \in Callers : pc[c] # "sending"
  /\ writer' = "stopped" /\ queue' = <<>>
  /\ UNCHANGED <<nextId, pending, broken, writerOpen, pc, id, slot, outcome>>

\* run_read_loop routes a response: late, repeated or invented ids are dropped.
Response(i) ==
  /\ i \in pending
  /\ pending' = pending \ {i}
  /\ slot' = [slot EXCEPT ![i] = IF @ = "empty" THEN "result" ELSE @]
  /\ UNCHANGED <<nextId, broken, wireVars, pc, id, outcome>>

\* terminate_from calls drain_pending.
DrainPending ==
  /\ ~broken
  /\ broken' = TRUE /\ pending' = {}
  /\ slot' = Drained(slot)
  /\ UNCHANGED <<nextId, wireVars, pc, id, outcome>>

CloseStdin ==
  /\ writerOpen
  /\ writerOpen' = FALSE
  /\ UNCHANGED <<nextId, pending, broken, queue, writer, pc, id, slot, outcome>>

Next ==
  \/ \E c \in Callers : CheckBroken(c) \/ Register(c) \/ Return(c) \/ Drop(c)
  \/ \E i \in Id : Response(i)
  \/ Write \/ WriterStops \/ DrainPending \/ CloseStdin

Spec == Init /\ [][Next]_vars

(***************************************************************************)
(* Callers run and their timeouts elapse.  Fairness of Write is the one    *)
(* assumption about the plugin: it reads its stdin, as the protocol asks,  *)
(* or the write fails.  The code itself sets no limit to how long a call   *)
(* waits for room in the writer's queue (rpc.rs:355).                      *)
(***************************************************************************)
FairSpec ==
  /\ Spec
  /\ \A c \in Callers : WF_vars(Return(c)) /\ WF_vars(Register(c))
  /\ WF_vars(Write)

-----------------------------------------------------------------------------
(* Properties *)

(***************************************************************************)
(* The table is exact: an entry belongs to a call in flight or to one whose*)
(* future was dropped, and a caller that waits is still in the table or    *)
(* already has its outcome - no wakeup is lost between call, the read loop,*)
(* a timeout and a drain.                                                  *)
(***************************************************************************)
TableIsExact ==
  /\ \A i \in pending : outcome[i] = "dropped" \/ \E c \in Callers : id[c] = i /\ pc[c] \in Busy
  /\ \A c \in Callers : pc[c] \in {"registered", "sending", "waiting"} =>
       id[c] \in pending \/ slot[id[c]] \in {"result", "exited"}

\* No two calls share a request id, so a response reaches the call it answers.
IdsAreUnique ==
  \A c, d \in Callers : c # d /\ id[c] = id[d] => id[c] = 0

(***************************************************************************)
(* The channel keeps the promise of CallPromise: ids in order and one      *)
(* settlement per call (SettlesOnce), and every call settles.              *)
(***************************************************************************)
Status ==
  [i \in Id |-> IF outcome[i] = "result" THEN "answered"
                ELSE IF outcome[i] # "none" THEN "failed"
                ELSE IF i <= nextId THEN "open" ELSE "new"]

Promise == INSTANCE CallPromise WITH status <- Status
SettlesOnce  == Promise!Safety
KeepsPromise == Promise!Spec

=============================================================================
