--------------------------- MODULE RpcChannelProofs ---------------------------
(***************************************************************************)
(* Proofs about RpcChannel for every set of callers, queue capacity and    *)
(* bound on the ids: its types, the exactness of the pending table, the    *)
(* uniqueness of request ids, and that it keeps the call promise.          *)
(***************************************************************************)
EXTENDS RpcChannel, TLAPS

\* What the table's exactness rests on: a caller owns an id exactly while its
\* call is in flight, ids run up to nextId, and the slots tell the same story.
Ledger ==
  /\ \A c \in Callers : pc[c] \in Busy <=> id[c] # 0
  /\ \A c \in Callers : id[c] <= nextId
  /\ \A i \in pending : i <= nextId /\ slot[i] \in {"empty", "gone"}
  /\ \A i \in Id : i > nextId => outcome[i] = "none"
  /\ \A c \in Callers : id[c] # 0 =>
       /\ outcome[id[c]] = "none"
       /\ slot[id[c]] \in {"empty", "result", "exited"}

IInv == TypeOK /\ TableIsExact /\ IdsAreUnique /\ Ledger

\* The initial state satisfies the inductive invariant.
LEMMA InitIInv == Init => IInv
<1> SUFFICES ASSUME Init PROVE IInv
  OBVIOUS
<1>1. TypeOK
  <2>1. queue \in Seq(Id)
    BY DEF Init
  <2>2. nextId \in 0 .. MaxCalls /\ id \in [Callers -> 0 .. MaxCalls]
    BY MaxCallsAssumption DEF Init
  <2>3. /\ pending \subseteq Id
        /\ broken \in BOOLEAN /\ writerOpen \in BOOLEAN
        /\ writer \in {"running", "stopped"}
        /\ pc \in [Callers -> {"idle", "admitted"} \cup Busy]
    BY DEF Init
  <2>4. /\ slot \in [Id -> {"none", "empty", "result", "exited", "gone"}]
        /\ outcome \in [Id -> {"none", "result", "exited", "timeout", "closed", "dropped"}]
    BY DEF Init
  <2>5. QED
    BY <2>1, <2>2, <2>3, <2>4 DEF TypeOK
<1>2. TableIsExact /\ IdsAreUnique /\ Ledger
  BY DEF Init, TableIsExact, IdsAreUnique, Ledger, Busy
<1>3. QED
  BY <1>1, <1>2 DEF IInv

\* Every step of a caller, the tasks around it and the plugin preserves it.
LEMMA NextIInv == IInv /\ [Next]_vars => IInv'
<1> SUFFICES ASSUME IInv, [Next]_vars PROVE IInv'
  OBVIOUS
<1> USE QueueCapAssumption, MaxCallsAssumption
    DEF IInv, TypeOK, TableIsExact, IdsAreUnique, Ledger, Busy, Id, wireVars, Goto, End, Gone
<1>1. ASSUME NEW c \in Callers, CheckBroken(c) PROVE IInv'
  BY <1>1 DEF CheckBroken
<1>2. ASSUME NEW c \in Callers, Register(c) PROVE IInv'
  <2>1. nextId + 1 \in Id /\ nextId' = nextId + 1
    BY <1>2 DEF Register
  <2>2. TypeOK'
    BY <1>2, <2>1 DEF Register
  <2>3. TableIsExact'
    <3>1. ASSUME NEW i \in pending'
          PROVE  outcome'[i] = "dropped" \/ \E d \in Callers : id'[d] = i /\ pc'[d] \in Busy
      <4>1. CASE i = nextId + 1
        BY <1>2, <2>1, <4>1 DEF Register
      <4>2. CASE i \in pending
        BY <1>2, <2>1, <4>2 DEF Register
      <4>3. QED
        BY <1>2, <4>1, <4>2 DEF Register
    <3>2. ASSUME NEW d \in Callers, pc'[d] \in {"registered", "sending", "waiting"}
          PROVE  id'[d] \in pending' \/ slot'[id'[d]] \in {"result", "exited"}
      BY <1>2, <2>1, <3>2 DEF Register
    <3>3. QED
      BY <3>1, <3>2
  <2>4. IdsAreUnique'
    BY <1>2, <2>1 DEF Register
  <2>5. Ledger'
    BY <1>2, <2>1 DEF Register
  <2>6. QED
    BY <2>2, <2>3, <2>4, <2>5
<1>3. ASSUME NEW c \in Callers, TakeWriter(c) PROVE IInv'
  BY <1>3 DEF TakeWriter
<1>4. ASSUME NEW c \in Callers, WriterClosed(c) PROVE IInv'
  <2>1. TypeOK'
    <3>1. id[c] \in Id
      BY <1>4 DEF WriterClosed
    <3>2. pending' \subseteq Id
      BY <1>4 DEF WriterClosed
    <3>3. QED
      BY <1>4, <3>1, <3>2 DEF WriterClosed
  <2>2. TableIsExact'
    BY <1>4 DEF WriterClosed
  <2>3. IdsAreUnique'
    BY <1>4 DEF WriterClosed
  <2>4. Ledger'
    BY <1>4 DEF WriterClosed
  <2>5. QED
    BY <2>1, <2>2, <2>3, <2>4
<1>5. ASSUME NEW c \in Callers, Send(c) PROVE IInv'
  BY <1>5 DEF Send
<1>6. ASSUME NEW c \in Callers, SendFails(c) PROVE IInv'
  BY <1>6 DEF SendFails, Drained
<1>7. ASSUME NEW c \in Callers, Receive(c) PROVE IInv'
  BY <1>7 DEF Receive
<1>8. ASSUME NEW c \in Callers, Expire(c) PROVE IInv'
  BY <1>8 DEF Expire
<1>9. ASSUME NEW c \in Callers, Forget(c) PROVE IInv'
  <2>1. TypeOK'
    <3>1. id[c] \in Id
      BY <1>9 DEF Forget
    <3>2. pending' \subseteq Id
      BY <1>9 DEF Forget
    <3>3. QED
      BY <1>9, <3>1, <3>2 DEF Forget
  <2>2. TableIsExact'
    BY <1>9 DEF Forget
  <2>3. IdsAreUnique'
    BY <1>9 DEF Forget
  <2>4. Ledger'
    BY <1>9 DEF Forget
  <2>5. QED
    BY <2>1, <2>2, <2>3, <2>4
<1>10. ASSUME NEW c \in Callers, Drop(c) PROVE IInv'
  BY <1>10 DEF Drop
<1>11. CASE Write
  BY <1>11 DEF Write
<1>12. CASE WriterStops
  BY <1>12 DEF WriterStops
<1>13. ASSUME NEW i \in Id, Response(i) PROVE IInv'
  BY <1>13 DEF Response
<1>14. CASE DrainPending
  BY <1>14 DEF DrainPending, Drained
<1>15. CASE CloseStdin
  BY <1>15 DEF CloseStdin
<1>16. CASE UNCHANGED vars
  BY <1>16 DEF vars
<1>17. QED
  BY <1>1, <1>2, <1>3, <1>4, <1>5, <1>6, <1>7, <1>8, <1>9, <1>10, <1>11, <1>12,
     <1>13, <1>14, <1>15, <1>16 DEF Next, Return

\* The table, the callers and the slots are always of their types.
THEOREM TypeCorrect == Spec => []TypeOK
<1>1. IInv => TypeOK
  BY DEF IInv
<1>2. QED
  BY <1>1, InitIInv, NextIInv, PTL DEF Spec

\* No entry of the pending table is lost or left behind by a call that returned.
THEOREM TableExact == Spec => []TableIsExact
<1>1. IInv => TableIsExact
  BY DEF IInv
<1>2. QED
  BY <1>1, InitIInv, NextIInv, PTL DEF Spec

\* Two calls in flight never share a request id.
THEOREM UniqueIds == Spec => []IdsAreUnique
<1>1. IInv => IdsAreUnique
  BY DEF IInv
<1>2. QED
  BY <1>1, InitIInv, NextIInv, PTL DEF Spec

\* A call in flight is open in the promise, until the outcome of its return.
LEMMA SettleStep ==
  ASSUME IInv, NEW c \in Callers, id[c] # 0, nextId' = nextId,
         NEW r \in {"result", "exited", "timeout", "closed", "dropped"},
         outcome' = [outcome EXCEPT ![id[c]] = r]
  PROVE  Promise!Next
<1> DEFINE s == IF r = "result" THEN "answered" ELSE "failed"
<1>1. id[c] \in Id /\ id[c] <= nextId /\ outcome[id[c]] = "none"
  BY DEF IInv, TypeOK, Ledger, Id
<1>2. Status[id[c]] = "open"
  BY <1>1 DEF Status
<1>3. Status' = [Status EXCEPT ![id[c]] = s]
  BY <1>1 DEF Status, IInv, TypeOK
<1>4. Promise!Settle(id[c], s)
  BY <1>2, <1>3 DEF Promise!Settle
<1>5. id[c] \in Promise!Id /\ s \in {"answered", "failed"}
  BY <1>1 DEF Promise!Id, Id
<1>6. QED
  BY <1>4, <1>5 DEF Promise!Next

\* Handing out the next id opens a call of the promise.
LEMMA OpenStep ==
  ASSUME IInv, NEW c \in Callers, Register(c)
  PROVE  Promise!Next
<1>1. nextId + 1 \in Id /\ nextId \in Nat /\ nextId' = nextId + 1 /\ outcome' = outcome
  BY MaxCallsAssumption DEF IInv, TypeOK, Register, Id
<1>2. Status[nextId + 1] = "new"
  BY <1>1 DEF Status, IInv, Ledger
<1>3. ASSUME NEW j \in Id, j < nextId + 1 PROVE Status[j] # "new"
  BY <1>1, <1>3 DEF Status, Id
<1>4. Status' = [Status EXCEPT ![nextId + 1] = "open"]
  <2>1. outcome[nextId + 1] = "none"
    BY <1>1 DEF IInv, Ledger
  <2>2. ASSUME NEW j \in Id, j # nextId + 1 PROVE j <= nextId' <=> j <= nextId
    BY <1>1, <2>2 DEF Id
  <2>3. ASSUME NEW j \in Id
        PROVE  Status'[j] = IF j = nextId + 1 THEN "open" ELSE Status[j]
    <3>1. CASE j = nextId + 1
      BY <1>1, <2>1, <3>1 DEF Status
    <3>2. CASE j # nextId + 1
      BY <1>1, <2>2, <3>2 DEF Status
    <3>3. QED
      BY <3>1, <3>2
  <2>4. QED
    BY <1>1, <2>3 DEF Status
<1>5. Promise!Open(nextId + 1)
  BY <1>2, <1>3, <1>4 DEF Promise!Open, Promise!Id, Id
<1>6. QED
  BY <1>1, <1>5 DEF Promise!Next, Promise!Id, Id

\* The channel implements the promise: each call opens in order and settles once.
THEOREM Implements == Spec => SettlesOnce
<1>1. Init => Promise!Init
  BY MaxCallsAssumption DEF Init, Promise!Init, Promise!Id, Status, Id
<1>2. IInv /\ [Next]_vars => [Promise!Next]_Status
  <2> SUFFICES ASSUME IInv, [Next]_vars PROVE Promise!Next \/ UNCHANGED Status
    OBVIOUS
  <2>1. ASSUME NEW c \in Callers, Register(c) PROVE Promise!Next
    BY <2>1, OpenStep
  <2>2. ASSUME NEW c \in Callers,
               WriterClosed(c) \/ SendFails(c) \/ Receive(c) \/ Forget(c) \/ Drop(c)
        PROVE  Promise!Next
    <3>1. id[c] # 0 /\ nextId' = nextId
      BY <2>2 DEF IInv, Ledger, Busy, WriterClosed, SendFails, Receive, Forget, Drop
    <3>2. PICK r \in {"result", "exited", "timeout", "closed", "dropped"} :
            outcome' = [outcome EXCEPT ![id[c]] = r]
      BY <2>2 DEF End, WriterClosed, SendFails, Receive, Forget, Drop
    <3>3. QED
      BY <3>1, <3>2, SettleStep
  <2>3. CASE UNCHANGED <<nextId, outcome>>
    BY <2>3 DEF Status
  <2>4. QED
    BY <2>1, <2>2, <2>3
       DEF Next, Return, vars, CheckBroken, TakeWriter, Send, Expire, Response,
           Write, WriterStops, DrainPending, CloseStdin
<1>3. QED
  BY <1>1, <1>2, InitIInv, NextIInv, PTL DEF Spec, SettlesOnce, Promise!Safety
=============================================================================
