------------------------------ MODULE ServerProofs ------------------------------
(***************************************************************************)
(* Proofs about the two parts of the server.  ImportJobs, for every finite *)
(* set of jobs, every set of clients and all limits: its types, what a     *)
(* client may conclude from a job's state, and the accounts of permits and *)
(* uploaded bytes.  EventHub, for all capacities of its channels and any   *)
(* number of events: a client's frames have no silent gap, and a           *)
(* subscription implements ListenerPromise.                                *)
(***************************************************************************)
EXTENDS ImportJobs, EventHub, FiniteSetTheorems, SequenceTheorems, TLAPS

-----------------------------------------------------------------------------
(* The import jobs *)

\* Every step leaves a job's state in line with what its task is doing.
LEMMA ShownStep == ASSUME IInv, [Next]_vars PROVE ShownInv'
<1> USE DEF IInv, TypeOK, ShownInv, Final, JobState, requestVars, shownVars, loopVars, taskVars,
            worldVars, At, Goto
<1>1. ASSUME NEW j \in Jobs, Request(j) PROVE ShownInv'
  <2>1. request[j] \in {"new", "saved", "over"} /\ task[j] = "none" /\ jstate[j] = "none"
    BY <1>1 DEF Request, CreateImport, SaveUpload, UploadForbidden, UploadLimited, UploadCounted,
                UploadOver
  <2>2. CASE \E n \in {1, Paths} : SpawnImport(j, n)
    BY <2>1, <2>2 DEF SpawnImport
  <2>3. CASE /\ request' \in {[request EXCEPT ![j] = r] : r \in {"saved", "over", "refused"}}
             /\ UNCHANGED <<shownVars, taskVars>>
    BY <2>1, <2>3
  <2>4. QED
    BY <1>1, <2>2, <2>3 DEF Request, CreateImport, SaveUpload, UploadForbidden, UploadLimited,
                            UploadCounted, UploadOver, Refuse
<1>2. ASSUME NEW j \in Jobs, RunImport(j) PROVE ShownInv'
  <2>1. CASE AcquirePermit(j) \/ MarkRunning(j)
    BY <2>1 DEF AcquirePermit, MarkRunning
  <2>2. CASE CancelledInQueue(j) \/ Conclude(j)
    BY <2>2 DEF CancelledInQueue, Conclude, Verdict
  <2>3. CASE LeaveLoop(j) \/ TakePath(j) \/ StartImport(j) \/ ImportReturns(j)
    BY <2>3 DEF LeaveLoop, TakePath, StartImport, ImportReturns
  <2>4. CASE Finish(j)
    BY <2>4 DEF Finish
  <2>5. QED
    BY <1>2, <2>1, <2>2, <2>3, <2>4 DEF RunImport
<1>3. ASSUME NEW c \in Clients, CancelJob(c) PROVE ShownInv'
  <2>1. CASE \E j \in Jobs : TakeInflight(c, j)
    BY <2>1 DEF TakeInflight, Cancel
  <2>2. CASE RaiseFlag(c)
    BY <2>2 DEF RaiseFlag, Cancel
  <2>3. CASE FlipQueued(c)
    BY <2>3 DEF FlipQueued, Cancel, CancelInv
  <2>4. QED
    BY <1>3, <2>1, <2>2, <2>3 DEF CancelJob
<1>4. CASE UnloadFile
  BY <1>4 DEF UnloadFile
<1>5. CASE Restart
  BY <1>5 DEF Restart
<1>6. CASE UNCHANGED vars
  BY <1>6 DEF vars
<1>7. QED
  BY <1>1, <1>2, <1>3, <1>4, <1>5, <1>6 DEF Next

\* Every step but the start of an import leaves the count of late imports
\* alone, and a start adds one at most.
LEMMA LateStep == ASSUME IInv, [Next]_vars PROVE LateInv'
<1> USE DEF IInv, TypeOK, ShownInv, LateInv, Final, requestVars, shownVars, loopVars, taskVars,
            worldVars, At, Goto
<1>1. ASSUME NEW j \in Jobs, Request(j) PROVE LateInv'
  <2>1. request[j] \in {"new", "saved", "over"} /\ task[j] = "none" /\ jstate[j] = "none"
    BY <1>1 DEF Request, CreateImport, SaveUpload, UploadForbidden, UploadLimited, UploadCounted,
                UploadOver
  <2>2. CASE \E n \in {1, Paths} : SpawnImport(j, n)
    BY <2>1, <2>2 DEF SpawnImport
  <2>3. CASE UNCHANGED <<shownVars, taskVars>>
    BY <2>3
  <2>4. QED
    BY <1>1, <2>2, <2>3 DEF Request, CreateImport, SaveUpload, UploadForbidden, UploadLimited,
                            UploadCounted, UploadOver, Refuse
<1>2. ASSUME NEW j \in Jobs, RunImport(j) PROVE LateInv'
  <2>1. CASE AcquirePermit(j) \/ MarkRunning(j)
    BY <2>1 DEF AcquirePermit, MarkRunning
  <2>2. CASE CancelledInQueue(j) \/ Conclude(j)
    BY <2>2 DEF CancelledInQueue, Conclude
  <2>3. CASE LeaveLoop(j) \/ TakePath(j)
    BY <2>3 DEF LeaveLoop, TakePath
  <2>4. CASE StartImport(j)
    <3>1. late[j] = 0 /\ jstate[j] \in {"running", "cancelled"}
      BY <2>4 DEF StartImport
    <3>2. jstate[j] = "running"
      BY <2>4, <3>1 DEF StartImport
    <3>3. late' \in [Jobs -> {0, 1}] /\ late'[j] \in {0, 1} /\ late'[j] = 1 => j \in raised
      BY <2>4, <3>1 DEF StartImport
    <3>4. QED
      BY <2>4, <3>2, <3>3 DEF StartImport
  <2>5. CASE ImportReturns(j)
    BY <2>5 DEF ImportReturns
  <2>6. CASE Finish(j)
    BY <2>6 DEF Finish
  <2>7. QED
    BY <1>2, <2>1, <2>2, <2>3, <2>4, <2>5, <2>6 DEF RunImport
<1>3. ASSUME NEW c \in Clients, CancelJob(c) PROVE LateInv'
  <2>1. CASE \E j \in Jobs : TakeInflight(c, j)
    BY <2>1 DEF TakeInflight
  <2>2. CASE RaiseFlag(c)
    BY <2>2 DEF RaiseFlag
  <2>3. CASE FlipQueued(c)
    BY <2>3 DEF FlipQueued, CancelInv
  <2>4. QED
    BY <1>3, <2>1, <2>2, <2>3 DEF CancelJob
<1>4. CASE UnloadFile
  BY <1>4 DEF UnloadFile
<1>5. CASE Restart
  BY <1>5 DEF Restart
<1>6. CASE UNCHANGED vars
  BY <1>6 DEF vars
<1>7. QED
  BY <1>1, <1>2, <1>3, <1>4, <1>5, <1>6 DEF Next

\* A cancel under way keeps its job accepted and, once it has set the flag,
\* sees it set.
LEMMA CancelStep == ASSUME IInv, [Next]_vars PROVE CancelInv'
<1> USE DEF IInv, TypeOK, CancelInv, requestVars, shownVars, loopVars, taskVars, worldVars
<1>1. ASSUME NEW j \in Jobs, Request(j) PROVE CancelInv'
  <2>1. request[j] # "accepted" /\ UNCHANGED <<cancels, raised>>
    BY <1>1 DEF Request, CreateImport, SaveUpload, UploadForbidden, UploadLimited, UploadCounted,
                UploadOver, SpawnImport, Refuse
  <2>2. /\ \A k \in Jobs \ {j} : request'[k] = request[k]
        /\ flags' \subseteq flags \cup {j}
    BY <1>1 DEF Request, CreateImport, SaveUpload, UploadForbidden, UploadLimited, UploadCounted,
                UploadOver, SpawnImport, Refuse
  <2>3. QED
    BY <2>1, <2>2
<1>2. ASSUME NEW j \in Jobs, RunImport(j) PROVE CancelInv'
  <2>1. UNCHANGED <<request, cancels, raised>> /\ flags' \subseteq flags
    BY <1>2 DEF RunImport, AcquirePermit, CancelledInQueue, MarkRunning, LeaveLoop, TakePath,
                StartImport, ImportReturns, Conclude, Finish
  <2>2. QED
    BY <2>1
<1>3. ASSUME NEW c \in Clients, CancelJob(c) PROVE CancelInv'
  <2>1. CASE \E j \in Jobs : TakeInflight(c, j)
    BY <2>1 DEF TakeInflight, Cancel
  <2>2. CASE RaiseFlag(c)
    BY <2>2 DEF RaiseFlag, Cancel
  <2>3. CASE FlipQueued(c)
    BY <2>3 DEF FlipQueued, Cancel
  <2>4. QED
    BY <1>3, <2>1, <2>2, <2>3 DEF CancelJob
<1>4. CASE UnloadFile
  BY <1>4 DEF UnloadFile
<1>5. CASE Restart
  BY <1>5 DEF Restart
<1>6. CASE UNCHANGED vars
  BY <1>6 DEF vars
<1>7. QED
  BY <1>1, <1>2, <1>3, <1>4, <1>5, <1>6 DEF Next

\* An upload's copy goes when its job ends, unless a file in it waits.
LEMMA CopiesStep == ASSUME IInv, [Next]_vars PROVE CopiesAreOwned' /\ UploadInv'
<1> USE DEF IInv, TypeOK, ShownInv, CopiesAreOwned, UploadInv, requestVars, shownVars, loopVars,
            taskVars, worldVars, At, Goto
<1>1. ASSUME NEW j \in Jobs, Request(j) PROVE CopiesAreOwned' /\ UploadInv'
  <2>1. CASE \E n \in {1, Paths} : SpawnImport(j, n)
    BY <1>1, <2>1 DEF Request, CreateImport, SaveUpload, UploadForbidden, UploadLimited,
                      UploadCounted, UploadOver, SpawnImport, Refuse
  <2>2. CASE Refuse(j)
    BY <1>1, <2>2 DEF Request, CreateImport, SaveUpload, UploadForbidden, UploadLimited,
                      UploadCounted, UploadOver, SpawnImport, Refuse
  <2>3. CASE SaveUpload(j)
    BY <2>3 DEF SaveUpload
  <2>4. CASE UploadCounted(j) /\ request'[j] = "over"
    BY <2>4 DEF UploadCounted, SpawnImport
  <2>5. QED
    BY <1>1, <2>1, <2>2, <2>3, <2>4 DEF Request, CreateImport, UploadForbidden, UploadLimited,
                                        UploadCounted, UploadOver
<1>2. ASSUME NEW j \in Jobs, RunImport(j) PROVE CopiesAreOwned' /\ UploadInv'
  <2>1. CASE AcquirePermit(j) \/ MarkRunning(j) \/ LeaveLoop(j) \/ TakePath(j) \/ StartImport(j)
    BY <2>1 DEF AcquirePermit, MarkRunning, LeaveLoop, TakePath, StartImport
  <2>2. CASE CancelledInQueue(j) \/ Conclude(j)
    BY <2>2 DEF CancelledInQueue, Conclude
  <2>3. CASE ImportReturns(j)
    BY <2>3 DEF ImportReturns
  <2>4. CASE Finish(j)
    BY <2>4 DEF Finish
  <2>5. QED
    BY <1>2, <2>1, <2>2, <2>3, <2>4 DEF RunImport
<1>3. ASSUME NEW c \in Clients, CancelJob(c) PROVE CopiesAreOwned' /\ UploadInv'
  BY <1>3 DEF CancelJob, TakeInflight, RaiseFlag, FlipQueued
<1>4. CASE UnloadFile
  BY <1>4 DEF UnloadFile
<1>5. CASE Restart
  BY <1>5 DEF Restart
<1>6. CASE UNCHANGED vars
  BY <1>6 DEF vars
<1>7. QED
  BY <1>1, <1>2, <1>3, <1>4, <1>5, <1>6 DEF Next

\* The sets the accounts count are finite, as there are finitely many jobs.
LEMMA CountsAreNat ==
  ASSUME IInv
  PROVE  /\ IsFiniteSet(Holding) /\ Cardinality(Holding) \in Nat
         /\ IsFiniteSet(Accepted) /\ Cardinality(Accepted) \in Nat
         /\ IsFiniteSet(Over) /\ Cardinality(Over) \in Nat
<1>1. Holding \subseteq Jobs /\ Accepted \subseteq Jobs /\ Over \subseteq Jobs
  BY DEF IInv, TypeOK, Holding, Accepted, Over
<1>2. IsFiniteSet(Holding) /\ IsFiniteSet(Accepted) /\ IsFiniteSet(Over)
  BY <1>1, JobsAssumption, FS_Subset
<1>3. QED
  BY <1>2, FS_CardinalityType

\* A permit is taken with the job that holds it and given back with it, and a
\* byte is counted with the upload it belongs to.
LEMMA LimitsStep == ASSUME IInv, [Next]_vars PROVE LimitsHold'
<1> USE CountAssumption DEF IInv, TypeOK, ShownInv, UploadInv, requestVars, shownVars, loopVars,
                            taskVars, worldVars, At, Goto
<1>1. CASE /\ permits' = permits /\ Holding' = Holding /\ uploaded' = uploaded
           /\ Accepted' = Accepted /\ Over' = Over
  BY <1>1 DEF LimitsHold
<1>2. ASSUME NEW j \in Jobs, Request(j) PROVE LimitsHold'
  <2>1. permits' = permits /\ Holding' = Holding
    <3>1. permits' = permits
      BY <1>2 DEF Request, CreateImport, SaveUpload, UploadForbidden, UploadLimited, UploadCounted,
                  UploadOver, SpawnImport, Refuse
    <3>2. task' = task \/ (task[j] = "none" /\ task' = [task EXCEPT ![j] = "queued"])
      BY <1>2 DEF Request, CreateImport, SaveUpload, UploadForbidden, UploadLimited, UploadCounted,
                  UploadOver, SpawnImport, Refuse
    <3>3. QED
      BY <3>1, <3>2 DEF Holding
  <2>2. CASE CreateImport(j) \/ SaveUpload(j) \/ UploadForbidden(j) \/ UploadLimited(j)
    <3>1. Accepted' = Accepted /\ Over' = Over /\ uploaded' = uploaded
      BY <2>2 DEF CreateImport, SaveUpload, UploadForbidden, UploadLimited, SpawnImport, Refuse,
                  Accepted, Over
    <3>2. QED
      BY <1>1, <2>1, <3>1
  <2>3. CASE UploadCounted(j) /\ uploaded' <= Quota
    <3>1. /\ Accepted' = Accepted \cup {j} /\ j \notin Accepted /\ Over' = Over
          /\ uploaded' = uploaded + 1
      BY <2>3 DEF UploadCounted, SpawnImport, Accepted, Over
    <3>2. Cardinality(Accepted') = Cardinality(Accepted) + 1
      BY <3>1, CountsAreNat, FS_AddElement
    <3>3. uploaded' = Cardinality(Accepted') + Cardinality(Over')
      BY <3>1, <3>2, CountsAreNat DEF LimitsHold
    <3>4. Cardinality(Accepted') <= Quota
      BY <2>3, <3>1, <3>2, <3>3, CountsAreNat
    <3>5. QED
      BY <2>1, <3>3, <3>4 DEF LimitsHold
  <2>4. CASE UploadCounted(j) /\ ~(uploaded' <= Quota)
    <3>1. /\ Over' = Over \cup {j} /\ j \notin Over /\ Accepted' = Accepted
          /\ uploaded' = uploaded + 1
      BY <2>4 DEF UploadCounted, Accepted, Over
    <3>2. Cardinality(Over') = Cardinality(Over) + 1
      BY <3>1, CountsAreNat, FS_AddElement
    <3>3. QED
      BY <2>1, <3>1, <3>2, CountsAreNat DEF LimitsHold
  <2>5. CASE UploadOver(j)
    <3>1. /\ Over' = Over \ {j} /\ j \in Over /\ Accepted' = Accepted
          /\ uploaded' = uploaded - 1
      BY <2>5 DEF UploadOver, Refuse, Accepted, Over
    <3>2. Cardinality(Over') = Cardinality(Over) - 1
      BY <3>1, CountsAreNat, FS_RemoveElement
    <3>3. QED
      BY <2>1, <3>1, <3>2, CountsAreNat DEF LimitsHold
  <2>6. QED
    BY <1>2, <2>2, <2>3, <2>4, <2>5 DEF Request
<1>3. ASSUME NEW j \in Jobs, RunImport(j) PROVE LimitsHold'
  <2>1. UNCHANGED <<uploads, request, uploaded>>
    BY <1>3 DEF RunImport, AcquirePermit, CancelledInQueue, MarkRunning, LeaveLoop, TakePath,
                StartImport, ImportReturns, Conclude, Finish
  <2>2. Accepted' = Accepted /\ Over' = Over /\ uploaded' = uploaded
    BY <2>1 DEF Accepted, Over
  <2>3. CASE AcquirePermit(j)
    <3>1. Holding' = Holding \cup {j} /\ j \notin Holding /\ permits' = permits - 1
      BY <2>3 DEF AcquirePermit, Holding
    <3>2. Cardinality(Holding') = Cardinality(Holding) + 1
      BY <3>1, CountsAreNat, FS_AddElement
    <3>3. QED
      BY <2>2, <3>1, <3>2, CountsAreNat DEF LimitsHold
  <2>4. CASE Conclude(j)
    <3>1. Holding' = Holding \ {j} /\ j \in Holding /\ permits' = permits + 1
      BY <2>4 DEF Conclude, Holding
    <3>2. Cardinality(Holding') = Cardinality(Holding) - 1
      BY <3>1, CountsAreNat, FS_RemoveElement
    <3>3. QED
      BY <2>2, <3>1, <3>2, CountsAreNat DEF LimitsHold
  <2>5. CASE CancelledInQueue(j) \/ MarkRunning(j) \/ LeaveLoop(j) \/ TakePath(j) \/ Finish(j)
    <3>1. Holding' = Holding /\ permits' = permits
      BY <2>5 DEF CancelledInQueue, MarkRunning, LeaveLoop, TakePath, Finish, Holding
    <3>2. QED
      BY <1>1, <2>2, <3>1
  <2>6. CASE StartImport(j) \/ ImportReturns(j)
    <3>1. Holding' = Holding /\ permits' = permits
      BY <2>6 DEF StartImport, ImportReturns, Holding
    <3>2. QED
      BY <1>1, <2>2, <3>1
  <2>7. QED
    BY <1>3, <2>3, <2>4, <2>5, <2>6 DEF RunImport
<1>4. ASSUME NEW c \in Clients, CancelJob(c) PROVE LimitsHold'
  BY <1>1, <1>4 DEF CancelJob, TakeInflight, RaiseFlag, FlipQueued, Holding, Accepted, Over
<1>5. CASE UnloadFile
  BY <1>1, <1>5 DEF UnloadFile, Holding, Accepted, Over
<1>6. CASE Restart
  <2>1. /\ Holding' = {} /\ Accepted' = {} /\ Over' = {}
        /\ permits' = MaxConcurrent /\ uploaded' = 0
    BY <1>6 DEF Restart, Holding, Accepted, Over
  <2>2. QED
    BY <2>1, FS_EmptySet DEF LimitsHold
<1>7. CASE UNCHANGED vars
  BY <1>1, <1>7 DEF vars, Holding, Accepted, Over
<1>8. QED
  BY <1>2, <1>3, <1>4, <1>5, <1>6, <1>7 DEF Next

\* Every step keeps the variables in their types.
LEMMA TypeStep == ASSUME IInv, [Next]_vars PROVE TypeOK'
<1> USE CountAssumption DEF IInv, TypeOK, Final, JobState, requestVars, shownVars, loopVars,
                            taskVars, worldVars, At, Goto
<1>1. ASSUME NEW j \in Jobs, Request(j) PROVE TypeOK'
  <2>1. CASE CreateImport(j)
    BY <2>1 DEF CreateImport, SpawnImport, Refuse
  <2>2. CASE SaveUpload(j) \/ UploadForbidden(j) \/ UploadLimited(j)
    BY <2>2 DEF SaveUpload, UploadForbidden, UploadLimited, Refuse
  <2>3. CASE UploadCounted(j)
    BY <2>3 DEF UploadCounted, SpawnImport
  <2>4. CASE UploadOver(j)
    <3>1. j \in Over
      BY <2>4 DEF UploadOver, Over, UploadInv
    <3>2. Cardinality(Over) # 0
      BY <3>1, CountsAreNat, FS_EmptySet
    <3>3. uploaded - 1 \in Nat
      BY <3>2, CountsAreNat DEF LimitsHold
    <3>4. QED
      BY <2>4, <3>3 DEF UploadOver, Refuse
  <2>5. QED
    BY <1>1, <2>1, <2>2, <2>3, <2>4 DEF Request
<1>2. ASSUME NEW j \in Jobs, RunImport(j) PROVE TypeOK'
  <2>1. CASE AcquirePermit(j) \/ MarkRunning(j) \/ LeaveLoop(j) \/ TakePath(j)
    BY <2>1 DEF AcquirePermit, MarkRunning, LeaveLoop, TakePath
  <2>2. CASE CancelledInQueue(j) \/ Conclude(j)
    BY <2>2 DEF CancelledInQueue, Conclude, Verdict
  <2>3. CASE StartImport(j) \/ ImportReturns(j)
    BY <2>3 DEF StartImport, ImportReturns
  <2>4. CASE Finish(j)
    BY <2>4 DEF Finish, ShownInv
  <2>5. QED
    BY <1>2, <2>1, <2>2, <2>3, <2>4 DEF RunImport
<1>3. ASSUME NEW c \in Clients, CancelJob(c) PROVE TypeOK'
  BY <1>3 DEF CancelJob, TakeInflight, RaiseFlag, FlipQueued, Cancel, CancelInv
<1>4. CASE UnloadFile
  BY <1>4 DEF UnloadFile
<1>5. CASE Restart
  BY <1>5 DEF Restart
<1>6. CASE UNCHANGED vars
  BY <1>6 DEF vars
<1>7. QED
  BY <1>1, <1>2, <1>3, <1>4, <1>5, <1>6 DEF Next

\* A fresh server has no job and every permit.
LEMMA InitIInv == Init => IInv
<1> SUFFICES ASSUME Init PROVE IInv
  OBVIOUS
<1> USE CountAssumption DEF Init, Fresh
<1>1. TypeOK
  BY DEF TypeOK, Final, JobState
<1>2. ShownInv /\ LateInv /\ CancelInv /\ UploadInv /\ CopiesAreOwned
  BY DEF ShownInv, LateInv, CancelInv, UploadInv, CopiesAreOwned, Final
<1>3. Holding = {} /\ Accepted = {} /\ Over = {}
  BY DEF Holding, Accepted, Over
<1>4. LimitsHold
  BY <1>3, FS_EmptySet DEF LimitsHold
<1>5. QED
  BY <1>1, <1>2, <1>4 DEF IInv

\* Every step of a request, a job's task, a client and the server keeps it.
LEMMA NextIInv == IInv /\ [Next]_vars => IInv'
  BY TypeStep, ShownStep, LateStep, CancelStep, CopiesStep, LimitsStep DEF IInv

\* The inductive invariant holds throughout.
THEOREM Invariance == Spec => []IInv
<1>1. Init => IInv
  BY InitIInv
<1>2. IInv /\ [Next]_vars => IInv'
  BY NextIInv
<1>3. QED
  BY <1>1, <1>2, PTL DEF Spec

\* The variables keep their types: jobs, requests, tasks and accounts.
THEOREM TypeCorrect == Spec => []TypeOK
<1>1. IInv => TypeOK
  BY DEF IInv
<1>2. QED
  BY <1>1, Invariance, PTL

\* After a cancel at most the path already taken is imported, and nothing at
\* all of a job a client has seen cancelled before it ran.
THEOREM CancelBinds == Spec => []CancelStopsSoon
<1>1. IInv => CancelStopsSoon
  BY DEF IInv, TypeOK, LateInv, CancelStopsSoon
<1>2. QED
  BY <1>1, Invariance, PTL

\* Every upload copy on disk has somebody to look after it, a file that waits
\* for a choice, or a refused request (the early returns of upload_import).
THEOREM CopiesOwned == Spec => []CopiesAreOwned
<1>1. IInv => CopiesAreOwned
  BY DEF IInv
<1>2. QED
  BY <1>1, Invariance, PTL

\* Permits and uploaded bytes are given back on every way a job or a request
\* may end, and the limits are kept.
THEOREM LimitsKept == Spec => []LimitsHold
<1>1. IInv => LimitsHold
  BY DEF IInv
<1>2. QED
  BY <1>1, Invariance, PTL

\* No step changes a final state a client may have seen.
LEMMA FinalStep ==
  ASSUME IInv, [Next]_vars, NEW j \in Jobs, jstate[j] \in Final, request'[j] = "accepted"
  PROVE  jstate'[j] = jstate[j]
<1> USE DEF IInv, TypeOK, ShownInv, Final, requestVars, shownVars, loopVars, taskVars, worldVars,
            At, Goto
<1>1. ASSUME NEW k \in Jobs, Request(k) PROVE jstate'[j] = jstate[j]
  <2>1. task[k] = "none" /\ jstate[k] = "none"
    BY <1>1 DEF Request, CreateImport, SaveUpload, UploadForbidden, UploadLimited, UploadCounted,
                UploadOver
  <2>2. k # j
    BY <2>1
  <2>3. QED
    BY <1>1, <2>2 DEF Request, CreateImport, SaveUpload, UploadForbidden, UploadLimited,
                      UploadCounted, UploadOver, SpawnImport, Refuse
<1>2. ASSUME NEW k \in Jobs, RunImport(k) PROVE jstate'[j] = jstate[j]
  <2>1. CASE Finish(k)
    BY <2>1 DEF Finish
  <2>2. CASE MarkRunning(k)
    BY <2>2 DEF MarkRunning
  <2>3. CASE UNCHANGED jstate
    BY <2>3
  <2>4. QED
    BY <1>2, <2>1, <2>2, <2>3 DEF RunImport, AcquirePermit, CancelledInQueue, LeaveLoop, TakePath,
                                  StartImport, ImportReturns, Conclude
<1>3. ASSUME NEW c \in Clients, CancelJob(c) PROVE jstate'[j] = jstate[j]
  BY <1>3 DEF CancelJob, TakeInflight, RaiseFlag, FlipQueued
<1>4. CASE UnloadFile
  BY <1>4 DEF UnloadFile
<1>5. CASE Restart
  BY <1>5 DEF Restart
<1>6. CASE UNCHANGED vars
  BY <1>6 DEF vars
<1>7. QED
  BY <1>1, <1>2, <1>3, <1>4, <1>5, <1>6 DEF Next

\* A job's final state, once shown, is shown for good.
THEOREM FinalStays == Spec => FinalIsFinal
<1>1. IInv /\ [Next]_vars =>
        [\A j \in Jobs : jstate[j] \in Final /\ request'[j] = "accepted" => jstate'[j] = jstate[j]]_vars
  BY FinalStep
<1>2. QED
  BY <1>1, Invariance, PTL DEF Spec, FinalIsFinal

-----------------------------------------------------------------------------
(* The event hub *)

\* The ring only gets longer.
Grows ==
  /\ published' \in Seq(Events) /\ Len(published) <= Len(published')
  /\ \A p \in 1 .. Len(published) : published'[p] = published[p]

LEMMA SameGrows == ASSUME HubTypeOK, UNCHANGED published PROVE Grows
  BY DEF HubTypeOK, Grows

\* What was owed stays owed.
LEMMA OwedStays ==
  ASSUME Grows, UNCHANGED filter, NEW p \in 1 .. Len(published)
  PROVE  Owed(p)' <=> Owed(p)
  BY DEF Grows, Owed, Wanted, Full

-----------------------------------------------------------------------------
(* Types of the sources and the forwarder *)

LEMMA EventIs ==
  ASSUME NEW k \in {"state", "end", "log", "reloaded", "progress"}, NEW i \in {Plugin, File},
         NEW v \in {"ready", "crashed", "", "part", "full"}, NEW n \in Nat
  PROVE  Event(k, i, v, n) \in Events
  BY DEF Event, Events

LEMMA DetailIs ==
  ASSUME NEW e \in Events, NEW d \in Nat
  PROVE  [e EXCEPT !.detail = d] \in Events
  BY DEF Events

LEMMA HostEventStep ==
  ASSUME HubTypeOK, HostEvent
  PROVE  HubTypeOK' /\ UNCHANGED <<published, subVars, queue, streamVars>>
<1>1. PICK e \in Events : host' = Append(host, e) /\ failures' \in {failures, failures + 1}
  <2>1. failures \in Nat /\ failures + 1 \in Nat /\ 0 \in Nat
    BY DEF HubTypeOK
  <2>2. QED
    BY <2>1, EventIs DEF HostEvent
<1>2. UNCHANGED <<pipeline, produced, hubVars, subVars, queue, streamVars>>
  BY DEF HostEvent
<1>3. host' \in Seq(Events) /\ hostPos' \in 0 .. Len(host')
  BY <1>1, <1>2 DEF HubTypeOK, hubVars
<1>4. failures' \in Nat
  BY <1>1 DEF HubTypeOK
<1>5. QED
  BY <1>2, <1>3, <1>4 DEF HubTypeOK, hubVars, subVars, streamVars

LEMMA PipelineEventStep ==
  ASSUME HubTypeOK, PipelineEvent
  PROVE  HubTypeOK' /\ UNCHANGED <<published, subVars, queue, streamVars>>
<1>1. PICK e \in Events : pipeline' = Append(pipeline, e) /\ produced' = produced + 1
  BY EventIs DEF PipelineEvent
<1>2. UNCHANGED <<host, failures, hubVars, subVars, queue, streamVars>>
  BY DEF PipelineEvent
<1>3. pipeline' \in Seq(Events) /\ produced' \in Nat
  BY <1>1 DEF HubTypeOK
<1>4. QED
  BY <1>2, <1>3 DEF HubTypeOK, hubVars, subVars, streamVars

LEMMA ForwardHostStep ==
  ASSUME HubTypeOK, ForwardHost
  PROVE  HubTypeOK' /\ Grows /\ UNCHANGED <<subVars, queue, streamVars>>
<1> DEFINE e == host[hostPos + 1]
<1>1. e \in Events /\ hostPos' \in 0 .. Len(host)
  BY DEF HubTypeOK, ForwardHost
<1>2. /\ Record(e) /\ Publish(Convert(e))
      /\ UNCHANGED <<sourceVars, forwarder, subVars, queue, streamVars>>
  BY DEF ForwardHost
<1>3. lastError' \in Nat
  BY <1>1, <1>2 DEF Record, HubTypeOK, Events
<1> DEFINE es == Convert(e)
           t == [i \in 1 .. Len(es) |-> [es[i] EXCEPT !.detail = Detail(es[i])]]
<1>4. es \in Seq(Events) /\ published' = published \o t
  BY <1>1, <1>2 DEF Convert, Publish
<1> HIDE DEF e, es
<1>5. t \in Seq(Events)
  <2>1. \A i \in 1 .. Len(es) : es[i] \in Events /\ Detail(es[i]) \in Nat
    BY <1>3, <1>4 DEF Detail
  <2>2. \A i \in 1 .. Len(es) : t[i] \in Events
    BY <2>1, DetailIs
  <2>3. Len(es) \in Nat
    BY <1>4
  <2> QED
    BY <2>2, <2>3
<1> HIDE DEF t
<1>6. Grows
  BY <1>4, <1>5 DEF Grows, HubTypeOK
<1>7. QED
  BY <1>1, <1>2, <1>3, <1>6 DEF HubTypeOK, Grows, sourceVars, subVars, streamVars

LEMMA ForwarderStep ==
  ASSUME HubTypeOK, ForwarderLags \/ ForwardPipeline \/ ForwarderEnds
  PROVE  HubTypeOK' /\ Grows /\ UNCHANGED <<subVars, queue, streamVars>>
<1>1. CASE ForwarderLags
  <2>1. hostPos' \in 0 .. Len(host)
    BY <1>1, HubAssumption DEF ForwarderLags, HubTypeOK
  <2>2. QED
    BY <1>1, <2>1, SameGrows DEF ForwarderLags, HubTypeOK, sourceVars, subVars, streamVars
<1>2. CASE ForwardPipeline
  <2>1. /\ pipeline # <<>> /\ published' = Append(published, Head(pipeline)) /\ pipeline' = Tail(pipeline)
        /\ UNCHANGED <<host, produced, failures, hostPos, forwarder, lastError, subVars, queue,
                       streamVars>>
    BY <1>2 DEF ForwardPipeline
  <2>2. Head(pipeline) \in Events /\ pipeline' \in Seq(Events)
    BY <2>1 DEF HubTypeOK
  <2>3. Grows
    BY <2>1, <2>2 DEF Grows, HubTypeOK
  <2>4. QED
    BY <2>1, <2>2, <2>3 DEF HubTypeOK, Grows, subVars, streamVars
<1>3. CASE ForwarderEnds
  BY <1>3, SameGrows DEF ForwarderEnds, HubTypeOK, sourceVars, subVars, streamVars
<1>4. QED
  BY <1>1, <1>2, <1>3

-----------------------------------------------------------------------------
(* The invariant, while the ring grows *)

LEMMA GrowthStep ==
  ASSUME HubInv, HubTypeOK', Grows, UNCHANGED <<subVars, queue, streamVars>>
  PROVE  HubInv'
<1> USE DEF subVars, streamVars
<1>1. TaskInv'
  BY DEF HubInv, TaskInv, HubTypeOK, Grows
<1>2. OrderInv'
  BY DEF HubInv, OrderInv, InOrder
<1>3. /\ start \in Nat /\ pos <= Len(published) /\ pos \in Nat /\ Len(published) \in Nat
      /\ frames \in Seq(Nat) /\ queue \in Seq(Nat)
  BY DEF HubInv, TaskInv, HubTypeOK
<1>4. \A i \in 1 .. Len(frames) : frames[i] <= pos
  BY DEF HubInv, OrderInv, InOrder
<1>5. \A j \in 1 .. Len(queue) : queue[j] <= pos
  BY DEF HubInv, OrderInv, InOrder
<1>6. \A p \in start + 1 .. Len(published) : Owed(p)' <=> Owed(p)
  BY <1>3, OwedStays
<1>7. PathInv'
  <2>1. ASSUME NEW i \in 1 .. Len(frames), NEW p \in start + 1 .. Len(published'),
               p < frames[i], Owed(p)'
        PROVE  Among(p, frames)
    <3>1. frames[i] \in Nat /\ p \in start + 1 .. Len(published)
      BY <1>3, <1>4, <2>1 DEF Grows
    <3>2. QED
      BY <1>6, <2>1, <3>1 DEF HubInv, PathInv
  <2>2. ASSUME NEW j \in 1 .. Len(queue), NEW p \in start + 1 .. Len(published'),
               p < queue[j], Owed(p)'
        PROVE  Among(p, frames) \/ Among(p, queue)
    <3>1. queue[j] \in Nat /\ p \in start + 1 .. Len(published)
      BY <1>3, <1>5, <2>2 DEF Grows
    <3>2. QED
      BY <1>6, <2>2, <3>1 DEF HubInv, PathInv
  <2>3. ASSUME ~done, sub = "recv" \/ held = <<pos>>, NEW p \in start + 1 .. pos, Owed(p)'
        PROVE  Among(p, frames) \/ Among(p, queue) \/ held = <<p>>
    <3>1. p \in start + 1 .. Len(published)
      BY <1>3
    <3>2. QED
      BY <1>6, <2>3, <3>1 DEF HubInv, PathInv
  <2>4. QED
    BY <2>1, <2>2, <2>3 DEF PathInv, Among
<1>8. QED
  BY <1>1, <1>2, <1>7 DEF HubInv

-----------------------------------------------------------------------------
(* The subscriber *)

LEMMA SubscribeStep == ASSUME HubInv, Subscribe PROVE HubInv'
<1>1. /\ sub = "none" /\ sub' = "recv" /\ start' = Len(published) /\ pos' = Len(published)
      /\ UNCHANGED <<sourceVars, hubVars, held, queue, emitted, done, frames>>
  BY DEF Subscribe
<1>2. held = <<>> /\ queue = <<>> /\ frames = <<>> /\ ~done /\ Len(published) \in Nat
  BY <1>1 DEF HubInv, TaskInv, HubTypeOK
<1>3. HubTypeOK'
  BY <1>1, <1>2 DEF HubInv, HubTypeOK, sourceVars, hubVars
<1>4. TaskInv'
  BY <1>1, <1>2 DEF TaskInv, hubVars
<1>5. OrderInv'
  BY <1>1, <1>2 DEF OrderInv, InOrder
<1>6. PathInv'
  BY <1>1, <1>2 DEF PathInv
<1>7. QED
  BY <1>3, <1>4, <1>5, <1>6 DEF HubInv

\* The numbers a subscriber works with.
LEMMA Numbers ==
  ASSUME HubInv
  PROVE  /\ start \in Nat /\ pos \in Nat /\ Len(published) \in Nat /\ HubCap \in Nat
         /\ start <= pos /\ pos <= Len(published)
         /\ frames \in Seq(Nat) /\ queue \in Seq(Nat) /\ held \in Seq(Nat)
         /\ \A i \in 1 .. Len(frames) : frames[i] \in Nat /\ frames[i] <= pos
         /\ \A j \in 1 .. Len(queue) : queue[j] \in Nat /\ queue[j] <= pos
<1>1. /\ start \in Nat /\ pos \in Nat /\ Len(published) \in Nat /\ HubCap \in Nat
      /\ start <= pos /\ pos <= Len(published)
      /\ frames \in Seq(Nat) /\ queue \in Seq(Nat) /\ held \in Seq(Nat)
  BY HubAssumption DEF HubInv, HubTypeOK, TaskInv
<1>2. \A i \in 1 .. Len(frames) : frames[i] <= pos
  BY DEF HubInv, OrderInv, InOrder
<1>3. \A j \in 1 .. Len(queue) : queue[j] <= pos
  BY DEF HubInv, OrderInv, InOrder
<1>4. QED
  BY <1>1, <1>2, <1>3

LEMMA One == \A m, n : <<m>> = <<n>> <=> m = n
<1>1. \A m : <<m>>[1] = m
  OBVIOUS
<1>2. QED
  BY <1>1

LEMMA ReceiveStep == ASSUME HubInv, Receive PROVE HubInv'
<1>1. /\ sub = "recv" /\ pos < Len(published) /\ sub' = "send" /\ held = <<>>
      /\ UNCHANGED <<sourceVars, hubVars, start, queue, streamVars>>
  BY DEF Receive, HubInv, TaskInv
<1>2. PICK n \in Nat : /\ pos' = n /\ pos < n /\ n <= Len(published)
                       /\ held' = <<Lag>> \/ (held' = <<n>> /\ n = pos + 1)
  <2>1. CASE Len(published) - pos > HubCap
    <3>1. held' = <<Lag>> /\ pos' = Len(published) - HubCap
      BY <2>1 DEF Receive
    <3>2. pos' \in Nat /\ pos < pos' /\ pos' <= Len(published)
      BY <2>1, <3>1, Numbers
    <3>3. QED
      BY <3>1, <3>2
  <2>2. CASE ~(Len(published) - pos > HubCap)
    <3>1. held' = <<pos + 1>> /\ pos' = pos + 1
      BY <2>2 DEF Receive
    <3>2. pos' \in Nat /\ pos < pos' /\ pos' <= Len(published)
      BY <1>1, <3>1, Numbers
    <3>3. QED
      BY <3>1, <3>2
  <2>3. QED
    BY <2>1, <2>2
<1>3. HubTypeOK'
  <2>1. held' \in Seq(Nat)
    <3>1. Lag \in Nat
      BY DEF Lag
    <3>2. <<Lag>> \in Seq(Nat) /\ <<n>> \in Seq(Nat)
      BY <3>1
    <3>3. QED
      BY <1>2, <3>2
  <2>2. QED
    BY <1>1, <1>2, <2>1 DEF HubInv, HubTypeOK, sourceVars, hubVars, streamVars
<1>4. TaskInv'
  BY <1>1, <1>2, Numbers DEF HubInv, TaskInv, hubVars, streamVars
<1>5. OrderInv'
  <2>1. \A i \in 1 .. Len(frames) : frames[i] < n
    BY <1>2, Numbers
  <2>2. \A j \in 1 .. Len(queue) : queue[j] < n
    BY <1>2, Numbers
  <2>3. \A i \in 1 .. Len(frames) : frames[i] <= n
    BY <1>2, Numbers
  <2>4. \A j \in 1 .. Len(queue) : queue[j] <= n
    BY <1>2, Numbers
  <2>5. InOrder(frames)'
    <3>1. \A i \in 1 .. Len(frames) : frames[i] # Lag
      BY <1>1 DEF HubInv, OrderInv, InOrder
    <3>2. \A i, j \in 1 .. Len(frames) : i < j /\ frames[j] # Lag => frames[i] < frames[j]
      BY DEF HubInv, OrderInv, InOrder
    <3>3. QED
      BY <1>1, <1>2, <2>1, <2>3, <3>1, <3>2 DEF InOrder, streamVars
  <2>6. InOrder(queue)'
    <3>1. \A i \in 1 .. Len(queue) : queue[i] # Lag
      BY <1>1 DEF HubInv, OrderInv, InOrder
    <3>2. \A i, j \in 1 .. Len(queue) : i < j /\ queue[j] # Lag => queue[i] < queue[j]
      BY DEF HubInv, OrderInv, InOrder
    <3>3. QED
      BY <1>1, <1>2, <2>2, <2>4, <3>1, <3>2 DEF InOrder
  <2>7. QED
    BY <1>1, <2>5, <2>6 DEF HubInv, OrderInv, streamVars
<1>6. PathInv'
  <2>1. UNCHANGED <<published, filter, start, frames, queue, done>>
    BY <1>1 DEF hubVars, streamVars
  <2>2. \A p : Owed(p)' <=> Owed(p)
    BY <2>1 DEF Owed, Wanted, Full
  <2>3. ASSUME ~done, held' = <<pos'>>, NEW p \in start + 1 .. pos', Owed(p)
        PROVE  Among(p, frames) \/ Among(p, queue) \/ held' = <<p>>
    <3>1. held' = <<n>> /\ n = pos + 1
      BY <1>2, <2>3, Numbers DEF Lag
    <3>2. CASE p = n
      BY <3>1, <3>2
    <3>3. CASE p # n
      <4>1. p \in start + 1 .. pos
        BY <1>2, <2>3, <3>1, <3>3, Numbers
      <4>2. held # <<p>>
        BY <1>1
      <4>3. QED
        BY <1>1, <2>3, <4>1, <4>2 DEF HubInv, PathInv
    <3>4. QED
      BY <3>2, <3>3
  <2>4. QED
    BY <1>1, <2>1, <2>2, <2>3 DEF HubInv, PathInv, Among
<1>7. QED
  BY <1>3, <1>4, <1>5, <1>6 DEF HubInv

LEMMA SendFailsStep == ASSUME HubInv, SendFails PROVE HubInv'
<1>1. /\ sub = "send" /\ done /\ held' = <<>> /\ sub' = "closed"
      /\ UNCHANGED <<sourceVars, hubVars, start, pos, queue, streamVars>>
  BY DEF SendFails
<1>2. HubTypeOK'
  BY <1>1 DEF HubInv, HubTypeOK, sourceVars, hubVars, streamVars
<1>3. TaskInv'
  BY <1>1 DEF HubInv, TaskInv, hubVars, streamVars
<1>4. OrderInv'
  BY <1>1 DEF HubInv, OrderInv, InOrder, streamVars
<1>5. PathInv'
  BY <1>1 DEF HubInv, PathInv, Among, Owed, Wanted, Full, streamVars, hubVars
<1>6. QED
  BY <1>2, <1>3, <1>4, <1>5 DEF HubInv

LEMMA DisconnectStep == ASSUME HubInv, Disconnect PROVE HubInv'
<1>1. /\ sub # "none" /\ done' = TRUE /\ queue' = <<>>
      /\ UNCHANGED <<sourceVars, hubVars, subVars, filter, emitted, frames>>
  BY DEF Disconnect
<1>2. HubTypeOK'
  BY <1>1 DEF HubInv, HubTypeOK, sourceVars, hubVars, subVars
<1>3. TaskInv'
  BY <1>1 DEF HubInv, TaskInv, hubVars, subVars
<1>4. OrderInv'
  BY <1>1 DEF HubInv, OrderInv, InOrder, subVars
<1>5. PathInv'
  BY <1>1 DEF HubInv, PathInv, Among, Owed, Wanted, Full, subVars, hubVars
<1>6. QED
  BY <1>2, <1>3, <1>4, <1>5 DEF HubInv

\* The item in the task's hand comes last in the queue.
LEMMA DeliverStep == ASSUME HubInv, Deliver PROVE HubInv'
<1>1. /\ sub = "send" /\ ~done /\ queue' = queue \o held /\ held' = <<>>
      /\ sub' = IF held = <<Lag>> THEN "closed" ELSE "recv"
      /\ UNCHANGED <<sourceVars, hubVars, start, pos, streamVars>>
  BY DEF Deliver
<1>2. PICK n \in Nat : held = <<n>> /\ n \in {Lag, pos} /\ start < pos
  BY <1>1, Numbers DEF HubInv, TaskInv, Lag
<1>3. /\ queue' \in Seq(Nat) /\ Len(queue') = Len(queue) + 1 /\ queue'[Len(queue) + 1] = n
      /\ \A j \in 1 .. Len(queue) : queue'[j] = queue[j]
  BY <1>1, <1>2, Numbers
<1>4. /\ Len(queue) \in Nat
      /\ \A j \in 1 .. Len(queue') : j \in 1 .. Len(queue) \/ j = Len(queue) + 1
  BY <1>3, Numbers
<1>5. /\ \A j \in 1 .. Len(queue) : queue[j] # Lag /\ (n # Lag => queue[j] < n)
      /\ \A i \in 1 .. Len(frames) : frames[i] # Lag /\ (n # Lag => frames[i] < n)
  BY <1>1, <1>2, Numbers DEF HubInv, OrderInv, InOrder, Lag
<1>6. (n = Lag <=> held = <<Lag>>) /\ (n # Lag <=> held = <<pos>>)
  <2>1. n = Lag <=> n # pos
    BY <1>2, Numbers DEF Lag
  <2>2. QED
    BY <1>2, <2>1, One
<1>7. HubTypeOK'
  BY <1>1, <1>3 DEF HubInv, HubTypeOK, sourceVars, hubVars, streamVars
<1>8. TaskInv'
  BY <1>1, Numbers DEF HubInv, TaskInv, hubVars, streamVars
<1>9. OrderInv'
  <2>1. InOrder(frames)'
    BY <1>1, <1>5, Numbers DEF HubInv, OrderInv, InOrder, streamVars
  <2>2. \A i \in 1 .. Len(queue') : queue'[i] = Lag => i = Len(queue') /\ sub' = "closed"
    BY <1>1, <1>3, <1>4, <1>5, <1>6
  <2>3. \A i \in 1 .. Len(queue') : queue'[i] <= pos
    <3>1. n <= pos
      BY <1>2, Numbers DEF Lag
    <3>2. \A j \in 1 .. Len(queue) : queue[j] <= pos
      BY Numbers
    <3>3. QED
      BY <1>3, <1>4, <3>1, <3>2
  <2>4. \A i, j \in 1 .. Len(queue') : i < j /\ queue'[j] # Lag => queue'[i] < queue'[j]
    <3>1. SUFFICES ASSUME NEW i \in 1 .. Len(queue'), NEW j \in 1 .. Len(queue'), i < j,
                          queue'[j] # Lag
                   PROVE  queue'[i] < queue'[j]
      OBVIOUS
    <3>2. i \in 1 .. Len(queue)
      BY <1>3, <1>4, <3>1
    <3>3. CASE j \in 1 .. Len(queue)
      BY <1>3, <3>1, <3>2, <3>3 DEF HubInv, OrderInv, InOrder
    <3>4. CASE j = Len(queue) + 1
      BY <1>3, <1>5, <3>1, <3>2, <3>4
    <3>5. QED
      BY <1>4, <3>3, <3>4
  <2>5. InOrder(queue)'
    BY <1>1, <2>2, <2>3, <2>4 DEF InOrder
  <2>6. \A i \in 1 .. Len(frames), j \in 1 .. Len(queue') :
          frames[i] # Lag /\ (queue'[j] # Lag => frames[i] < queue'[j])
    BY <1>1, <1>3, <1>4, <1>5 DEF HubInv, OrderInv
  <2>7. QED
    BY <1>1, <2>1, <2>5, <2>6 DEF OrderInv, streamVars
<1>10. PathInv'
  <2>1. UNCHANGED <<published, filter, start, frames, pos, done>>
    BY <1>1 DEF hubVars, streamVars
  <2>2. \A p : Owed(p)' <=> Owed(p)
    BY <2>1 DEF Owed, Wanted, Full
  <2>3. \A p : Among(p, queue) => Among(p, queue')
    BY <1>3, <1>4 DEF Among
  <2>4. n # Lag => \A p \in start + 1 .. pos : Owed(p) => Among(p, frames) \/ Among(p, queue')
    <3>1. SUFFICES ASSUME n # Lag, NEW p \in start + 1 .. pos, Owed(p)
                   PROVE  Among(p, frames) \/ Among(p, queue')
      OBVIOUS
    <3>2. Among(p, frames) \/ Among(p, queue) \/ held = <<p>>
      BY <1>1, <1>6, <3>1 DEF HubInv, PathInv
    <3>3. held = <<p>> => queue'[Len(queue) + 1] = p
      BY <1>2, <1>3
    <3>4. Len(queue) + 1 \in 1 .. Len(queue')
      BY <1>3, <1>4
    <3>5. QED
      BY <2>3, <3>2, <3>3, <3>4 DEF Among
  <2>5. ASSUME NEW j \in 1 .. Len(queue'), NEW p \in start + 1 .. Len(published),
               p < queue'[j], Owed(p)
        PROVE  Among(p, frames) \/ Among(p, queue')
    <3>1. CASE j \in 1 .. Len(queue)
      BY <1>3, <2>3, <2>5, <3>1 DEF HubInv, PathInv
    <3>2. CASE j = Len(queue) + 1
      <4>1. n # Lag /\ p \in start + 1 .. pos
        BY <1>2, <1>3, <2>5, <3>2, Numbers DEF Lag
      <4>2. QED
        BY <2>4, <2>5, <4>1
    <3>3. QED
      BY <1>4, <3>1, <3>2
  <2>6. sub' = "recv" => n # Lag
    BY <1>1, <1>6
  <2>7. held' # <<pos'>>
    BY <1>1
  <2>8. \A i \in 1 .. Len(frames), p \in start + 1 .. Len(published) :
          p < frames[i] /\ Owed(p) => Among(p, frames)
    BY DEF HubInv, PathInv
  <2>9. QED
    BY <2>1, <2>2, <2>4, <2>5, <2>6, <2>7, <2>8 DEF PathInv, Among
<1>11. QED
  BY <1>7, <1>8, <1>9, <1>10 DEF HubInv

\* The stream takes the first item; what it leaves out the client is not owed.
LEMMA PollStep == ASSUME HubInv, Poll PROVE HubInv'
<1>1. /\ queue # <<>> /\ ~done /\ queue' = Tail(queue)
      /\ UNCHANGED <<sourceVars, hubVars, subVars, filter>>
  BY DEF Poll
<1> DEFINE h == Head(queue)
<1>2. /\ h = queue[1] /\ h \in Nat /\ queue' \in Seq(Nat) /\ Len(queue) \in Nat \ {0}
      /\ Len(queue') = Len(queue) - 1
  BY <1>1, Numbers
<1>3. \A j \in 1 .. Len(queue') : j + 1 \in 1 .. Len(queue) /\ queue'[j] = queue[j + 1]
  BY <1>1, <1>2, Numbers
<1>4. \A p : Among(p, queue) => p = h \/ Among(p, queue')
  <2>1. SUFFICES ASSUME NEW p, NEW i \in 1 .. Len(queue), queue[i] = p, i # 1
                 PROVE  Among(p, queue')
    BY <1>2 DEF Among
  <2>2. i - 1 \in 1 .. Len(queue') /\ queue'[i - 1] = p
    BY <1>2, <1>3, <2>1
  <2>3. QED
    BY <2>2 DEF Among
<1>5. /\ done' \in BOOLEAN /\ (h = Lag <=> done')
      /\ frames' = Append(frames, h) \/ (h # Lag /\ frames' = frames /\ ~Owed(h))
  <2>1. CASE h = Lag
    BY <2>1 DEF Poll
  <2>2. CASE h # Lag
    <3>1. UNCHANGED done
      BY <2>2 DEF Poll
    <3>2. PICK windowOver \in BOOLEAN :
            LET seen == /\ Wanted(published[h])
                        /\ published[h].kind # "progress" \/ Accepts(published[h], windowOver)
            IN  frames' = IF seen THEN Append(frames, h) ELSE frames
      BY <2>2 DEF Poll
    <3>3. Owed(h) => /\ Wanted(published[h])
                     /\ published[h].kind # "progress" \/ Accepts(published[h], windowOver)
      BY DEF Owed, Accepts
    <3>4. frames' = Append(frames, h) \/ (frames' = frames /\ ~Owed(h))
      BY <3>2, <3>3
    <3>5. done \in BOOLEAN
      BY DEF HubInv, HubTypeOK
    <3>6. done' \in BOOLEAN /\ ~done'
      BY <1>1, <3>1, <3>5
    <3>7. QED
      BY <2>2, <3>4, <3>6
  <2>3. QED
    BY <2>1, <2>2
<1> HIDE DEF h
<1>6. /\ frames' \in Seq(Nat) /\ Len(frames) \in Nat
      /\ \A i \in 1 .. Len(frames) : i \in 1 .. Len(frames') /\ frames'[i] = frames[i]
      /\ \A i \in 1 .. Len(frames') :
           \/ i \in 1 .. Len(frames)
           \/ i = Len(frames) + 1 /\ Len(frames') = Len(frames) + 1 /\ frames'[i] = h
  <2>1. frames \in Seq(Nat) /\ Len(frames) \in Nat
    BY Numbers
  <2>2. CASE frames' = Append(frames, h)
    BY <1>2, <2>1, <2>2
  <2>3. CASE frames' = frames
    BY <2>1, <2>3
  <2>4. QED
    BY <1>5, <2>2, <2>3
<1>7. h # Lag => Among(h, frames') \/ ~Owed(h)
  BY <1>2, <1>5, Numbers DEF Among
<1>8. \A p : Among(p, frames) => Among(p, frames')
  BY <1>6 DEF Among
<1>9. /\ \A i \in 1 .. Len(frames) : frames[i] # Lag /\ (h # Lag => frames[i] < h)
      /\ h = Lag => Len(queue) = 1 /\ sub = "closed"
      /\ h <= pos /\ (held = <<pos>> => h < pos)
  <2>1. 1 \in 1 .. Len(queue)
    BY <1>2
  <2>2. \A i \in 1 .. Len(frames) : frames[i] # Lag /\ (h # Lag => frames[i] < h)
    BY <1>1, <1>2, <2>1 DEF HubInv, OrderInv
  <2>3. h = Lag => 1 = Len(queue) /\ sub = "closed"
    BY <1>2, <2>1 DEF HubInv, OrderInv, InOrder
  <2>4. h <= pos /\ (held = <<pos>> => h < pos)
    BY <1>2, <2>1 DEF HubInv, OrderInv, InOrder
  <2>5. QED
    BY <2>2, <2>3, <2>4
<1>10. HubTypeOK'
  BY <1>1, <1>2, <1>5, <1>6 DEF HubInv, HubTypeOK, sourceVars, hubVars, subVars
<1>11. TaskInv'
  <2>1. done' => queue' = <<>>
    BY <1>2, <1>5, <1>9
  <2>2. sub # "none"
    BY <1>1 DEF HubInv, TaskInv
  <2>3. QED
    BY <1>1, <2>1, <2>2 DEF HubInv, TaskInv, hubVars, subVars
<1>12. OrderInv'
  <2>1. InOrder(frames)'
    <3>1. \A i \in 1 .. Len(frames') : frames'[i] = Lag => i = Len(frames') /\ sub = "closed"
      BY <1>6, <1>9
    <3>2. \A i \in 1 .. Len(frames) : frames[i] <= pos /\ (held = <<pos>> => frames[i] < pos)
      BY DEF HubInv, OrderInv, InOrder
    <3>3. \A i \in 1 .. Len(frames') : frames'[i] <= pos /\ (held = <<pos>> => frames'[i] < pos)
      BY <1>6, <1>9, <3>2
    <3>4. \A i, j \in 1 .. Len(frames') : i < j /\ frames'[j] # Lag => frames'[i] < frames'[j]
      <4>1. SUFFICES ASSUME NEW i \in 1 .. Len(frames'), NEW j \in 1 .. Len(frames'), i < j,
                            frames'[j] # Lag
                     PROVE  frames'[i] < frames'[j]
        OBVIOUS
      <4>2. i \in 1 .. Len(frames)
        BY <1>6, <4>1
      <4>3. CASE j \in 1 .. Len(frames)
        BY <1>6, <4>1, <4>2, <4>3 DEF HubInv, OrderInv, InOrder
      <4>4. CASE j = Len(frames) + 1 /\ frames'[j] = h
        BY <1>6, <1>9, <4>1, <4>2, <4>4
      <4>5. QED
        BY <1>6, <4>3, <4>4
    <3>5. QED
      BY <1>1, <3>1, <3>3, <3>4 DEF InOrder, subVars
  <2>2. InOrder(queue)'
    <3>1. \A i \in 1 .. Len(queue') : queue'[i] = Lag => i = Len(queue') /\ sub = "closed"
      BY <1>2, <1>3 DEF HubInv, OrderInv, InOrder
    <3>2. \A i \in 1 .. Len(queue') : queue'[i] <= pos /\ (held = <<pos>> => queue'[i] < pos)
      BY <1>3 DEF HubInv, OrderInv, InOrder
    <3>3. \A i, j \in 1 .. Len(queue') : i < j /\ queue'[j] # Lag => queue'[i] < queue'[j]
      BY <1>3 DEF HubInv, OrderInv, InOrder
    <3>4. QED
      BY <1>1, <3>1, <3>2, <3>3 DEF InOrder, subVars
  <2>3. ASSUME ~done', NEW i \in 1 .. Len(frames'), NEW j \in 1 .. Len(queue')
        PROVE  frames'[i] # Lag /\ (queue'[j] # Lag => frames'[i] < queue'[j])
    <3>1. h # Lag
      BY <1>5, <2>3
    <3>2. CASE i \in 1 .. Len(frames)
      BY <1>1, <1>3, <1>6, <3>2 DEF HubInv, OrderInv
    <3>3. CASE frames'[i] = h
      <4>1. 1 \in 1 .. Len(queue) /\ j + 1 \in 1 .. Len(queue) /\ 1 < j + 1
        BY <1>2, <1>3
      <4>2. queue[j + 1] # Lag => queue[1] < queue[j + 1]
        BY <4>1 DEF HubInv, OrderInv, InOrder
      <4>3. QED
        BY <1>2, <1>3, <3>1, <3>3, <4>2
    <3>4. QED
      BY <1>6, <3>2, <3>3
  <2>4. QED
    BY <2>1, <2>2, <2>3 DEF OrderInv
<1>13. PathInv'
  <2>1. UNCHANGED <<published, filter, start, pos, sub, held>>
    BY <1>1 DEF hubVars, subVars
  <2>2. \A p : Owed(p)' <=> Owed(p)
    BY <2>1 DEF Owed, Wanted, Full
  <2>3. \A p : h # Lag /\ Owed(p) /\ (Among(p, frames) \/ Among(p, queue))
                 => Among(p, frames') \/ Among(p, queue')
    BY <1>4, <1>7, <1>8
  <2>4. ASSUME NEW i \in 1 .. Len(frames'), NEW p \in start + 1 .. Len(published),
               p < frames'[i], Owed(p)
        PROVE  Among(p, frames')
    <3>1. CASE i \in 1 .. Len(frames)
      BY <1>6, <1>8, <2>4, <3>1 DEF HubInv, PathInv
    <3>2. CASE frames'[i] = h
      <4>1. 1 \in 1 .. Len(queue) /\ p < queue[1]
        BY <1>2, <2>4, <3>2
      <4>2. Among(p, frames) \/ Among(p, queue)
        BY <2>4, <4>1 DEF HubInv, PathInv
      <4>3. ~Among(p, queue)
        <5>1. SUFFICES ASSUME NEW j \in 1 .. Len(queue), queue[j] = p PROVE FALSE
          BY DEF Among
        <5>2. p \in Nat /\ p # Lag
          BY <2>4, Numbers DEF Lag
        <5>3. j # 1 /\ 1 < j
          BY <1>2, <4>1, <5>1, <5>2
        <5>4. queue[1] < queue[j]
          BY <4>1, <5>1, <5>2, <5>3 DEF HubInv, OrderInv, InOrder
        <5>5. QED
          BY <1>2, <4>1, <5>1, <5>2, <5>4
      <4>4. QED
        BY <1>8, <4>2, <4>3
    <3>3. QED
      BY <1>6, <3>1, <3>2
  <2>5. ASSUME NEW j \in 1 .. Len(queue'), NEW p \in start + 1 .. Len(published),
               p < queue'[j], Owed(p)
        PROVE  Among(p, frames') \/ Among(p, queue')
    <3>1. h # Lag
      BY <1>2, <1>9, <2>5
    <3>2. Among(p, frames) \/ Among(p, queue)
      BY <1>3, <2>5 DEF HubInv, PathInv
    <3>3. QED
      BY <2>3, <2>5, <3>1, <3>2
  <2>6. ASSUME ~done', sub = "recv" \/ held = <<pos>>, NEW p \in start + 1 .. pos, Owed(p)
        PROVE  Among(p, frames') \/ Among(p, queue') \/ held = <<p>>
    <3>1. h # Lag
      BY <1>5, <2>6
    <3>2. Among(p, frames) \/ Among(p, queue) \/ held = <<p>>
      BY <1>1, <2>6 DEF HubInv, PathInv
    <3>3. QED
      BY <2>3, <2>6, <3>1, <3>2
  <2>7. QED
    BY <2>1, <2>2, <2>4, <2>5, <2>6 DEF PathInv, Among
<1>14. QED
  BY <1>10, <1>11, <1>12, <1>13 DEF HubInv

-----------------------------------------------------------------------------
(* Theorems *)

LEMMA InitHubInv == HubInit => HubInv
<1>1. SUFFICES ASSUME HubInit PROVE HubInv
  OBVIOUS
<1>2. HubTypeOK
  <2>1. <<>> \in Seq(Events) /\ <<>> \in Seq(Nat) /\ Len(<<>>) = 0
    OBVIOUS
  <2>2. /\ host \in Seq(Events) /\ pipeline \in Seq(Events) /\ published \in Seq(Events)
        /\ held \in Seq(Nat) /\ queue \in Seq(Nat) /\ frames \in Seq(Nat)
    BY <1>1, <2>1 DEF HubInit
  <2>3. hostPos \in 0 .. Len(host)
    BY <1>1, <2>1 DEF HubInit
  <2>4. QED
    BY <1>1, <2>2, <2>3 DEF HubInit, HubTypeOK
<1>3. TaskInv /\ OrderInv /\ PathInv
  BY <1>1 DEF HubInit, TaskInv, OrderInv, InOrder, PathInv
<1>4. QED
  BY <1>2, <1>3 DEF HubInv

LEMMA NextHubInv == HubInv /\ [HubNext]_hubAllVars => HubInv'
<1>1. SUFFICES ASSUME HubInv, [HubNext]_hubAllVars PROVE HubInv'
  OBVIOUS
<1>2. HubTypeOK
  BY <1>1 DEF HubInv
<1>3. CASE HostEvent \/ PipelineEvent
  BY <1>1, <1>2, <1>3, HostEventStep, PipelineEventStep, SameGrows, GrowthStep
<1>4. CASE ForwardHost \/ ForwarderLags \/ ForwardPipeline \/ ForwarderEnds
  BY <1>1, <1>2, <1>4, ForwardHostStep, ForwarderStep, GrowthStep
<1>5. CASE Subscribe \/ Receive \/ Deliver \/ SendFails \/ Poll \/ Disconnect
  BY <1>1, <1>5, SubscribeStep, ReceiveStep, DeliverStep, SendFailsStep, PollStep, DisconnectStep
<1>6. CASE UNCHANGED hubAllVars
  <2>1. HubTypeOK' /\ UNCHANGED <<published, subVars, queue, streamVars>>
    BY <1>2, <1>6 DEF hubAllVars, HubTypeOK, sourceVars, hubVars, subVars, streamVars
  <2>2. QED
    BY <1>1, <1>2, <2>1, SameGrows, GrowthStep
<1>7. QED
  BY <1>1, <1>3, <1>4, <1>5, <1>6 DEF HubNext

\* Where a subscriber's items are, and that none it is owed is lost on the way
\* from the ring over its task and queue to its stream (EventHub::subscribe).
THEOREM HubInvariance == HubSpec => []HubInv
  BY InitHubInv, NextHubInv, PTL DEF HubSpec

\* For every capacity of the ring and of the queue, however slow the client and
\* its task are: its frames come in the hub's order, none it is owed is missing
\* before one it has, and a lag is told as the last frame (EventHub::subscribe
\* and SseEventStream::poll_next of hub.rs).
THEOREM NoGap == HubSpec => []NoSilentGap
<1>1. HubInv => NoSilentGap
  BY DEF HubInv, OrderInv, InOrder, PathInv, NoSilentGap
<1>2. QED
  BY <1>1, HubInvariance, PTL

-----------------------------------------------------------------------------
(* The hub keeps ListenerPromise *)

\* Nothing outside the subscription makes a lag untrue.
LEMMA LagGrows ==
  ASSUME HubInv, LagInv, Grows, UNCHANGED <<subVars, queue, streamVars>>
  PROVE  LagInv'
<1>1. UNCHANGED <<start, pos, held, queue, frames>>
  BY DEF subVars, streamVars
<1>2. pos + HubCap <= Len(published) => pos + HubCap <= Len(published')
  <2>1. Len(published) <= Len(published') /\ Len(published') \in Nat
    BY DEF Grows
  <2>2. QED
    BY <2>1, Numbers
<1>3. QED
  BY <1>1, <1>2 DEF LagInv, Among

LEMMA LagReceive == ASSUME HubInv, LagInv, Receive PROVE LagInv'
<1>1. /\ sub = "recv" /\ pos < Len(published) /\ held = <<>>
      /\ UNCHANGED <<published, start, queue, frames>>
  BY DEF Receive, HubInv, TaskInv, hubVars, streamVars
<1>2. ~Among(Lag, queue)
  BY <1>1 DEF HubInv, OrderInv, InOrder, Among
<1>3. CASE Len(published) - pos > HubCap
  <2>1. held' = <<Lag>> /\ pos' = Len(published) - HubCap
    BY <1>3 DEF Receive
  <2>2. start < pos' /\ pos' + HubCap <= Len(published) /\ pos < pos'
    BY <1>3, <2>1, Numbers
  <2>3. \A i \in 1 .. Len(frames) : frames[i] < pos'
    BY <2>1, <2>2, Numbers
  <2>4. \A j \in 1 .. Len(queue) : queue[j] < pos'
    BY <2>1, <2>2, Numbers
  <2>5. QED
    BY <1>1, <2>2, <2>3, <2>4 DEF LagInv
<1>4. CASE ~(Len(published) - pos > HubCap)
  <2>1. held' = <<pos + 1>> /\ pos + 1 # Lag
    BY <1>4, Numbers DEF Receive, Lag
  <2>2. held' # <<Lag>>
    BY <2>1, One
  <2>3. QED
    BY <1>1, <1>2, <2>2 DEF LagInv, Among
<1>5. QED
  BY <1>3, <1>4

LEMMA LagDeliver == ASSUME HubInv, LagInv, Deliver PROVE LagInv'
<1>1. /\ sub = "send" /\ ~done /\ queue' = queue \o held /\ held' = <<>>
      /\ UNCHANGED <<published, start, pos, frames>>
  BY DEF Deliver, hubVars, streamVars
<1>2. PICK n \in Nat : held = <<n>> /\ n \in {Lag, pos} /\ start < pos
  BY <1>1, Numbers DEF HubInv, TaskInv, Lag
<1>3. /\ queue' \in Seq(Nat) /\ Len(queue') = Len(queue) + 1 /\ queue'[Len(queue) + 1] = n
      /\ \A j \in 1 .. Len(queue) : queue'[j] = queue[j]
  BY <1>1, <1>2, Numbers
<1>4. /\ Len(queue) \in Nat
      /\ \A j \in 1 .. Len(queue') : j \in 1 .. Len(queue) \/ j = Len(queue) + 1
  BY <1>3, Numbers
<1>5. \A j \in 1 .. Len(queue') : queue'[j] # Lag => start < queue'[j]
  BY <1>2, <1>3, <1>4 DEF LagInv
<1>6. ASSUME Among(Lag, queue')
      PROVE  held = <<Lag>>
  <2>1. \A j \in 1 .. Len(queue) : queue[j] # Lag
    BY <1>1 DEF HubInv, OrderInv, InOrder
  <2>2. n = Lag
    BY <1>3, <1>4, <1>6, <2>1 DEF Among
  <2>3. QED
    BY <1>2, <2>2
<1>7. held = <<Lag>> => \A j \in 1 .. Len(queue') : queue'[j] < pos
  <2>1. SUFFICES ASSUME held = <<Lag>>, NEW j \in 1 .. Len(queue') PROVE queue'[j] < pos
    OBVIOUS
  <2>2. n = Lag
    BY <1>2, <2>1, One
  <2>3. CASE j \in 1 .. Len(queue)
    BY <1>3, <2>1, <2>3 DEF LagInv
  <2>4. CASE j = Len(queue) + 1
    BY <1>2, <1>3, <2>2, <2>4, Numbers DEF Lag
  <2>5. QED
    BY <1>4, <2>3, <2>4
<1>8. held' # <<Lag>>
  BY <1>1
<1>9. QED
  BY <1>1, <1>5, <1>6, <1>7, <1>8 DEF LagInv

LEMMA LagPoll == ASSUME HubInv, LagInv, Poll PROVE LagInv'
<1>1. /\ queue # <<>> /\ queue' = Tail(queue)
      /\ UNCHANGED <<published, start, pos, held>>
  BY DEF Poll, hubVars, subVars
<1>2. /\ Head(queue) = queue[1] /\ Len(queue) \in Nat \ {0} /\ Len(queue') = Len(queue) - 1
      /\ Head(queue) \in Nat
  BY <1>1, Numbers
<1>3. \A j \in 1 .. Len(queue') : j + 1 \in 1 .. Len(queue) /\ queue'[j] = queue[j + 1]
  BY <1>1, <1>2, Numbers
<1>4. Among(Lag, queue') => Among(Lag, queue)
  BY <1>3 DEF Among
<1>5. frames' = frames \/ frames' = Append(frames, Head(queue))
  BY DEF Poll
<1>6. /\ \A j \in 1 .. Len(queue') : queue'[j] # Lag => start < queue'[j]
      /\ Head(queue) # Lag => start < Head(queue)
  BY <1>2, <1>3 DEF LagInv
<1>7. \A i \in 1 .. Len(frames') : \/ i \in 1 .. Len(frames) /\ frames'[i] = frames[i]
                                   \/ frames'[i] = Head(queue)
  <2>1. frames \in Seq(Nat)
    BY Numbers
  <2>2. CASE frames' = frames
    BY <2>2
  <2>3. CASE frames' = Append(frames, Head(queue))
    BY <1>2, <2>1, <2>3
  <2>4. QED
    BY <1>5, <2>2, <2>3
<1>8. \A i \in 1 .. Len(frames') : frames'[i] # Lag => start < frames'[i]
  BY <1>6, <1>7 DEF LagInv
<1>9. ASSUME held = <<Lag>> \/ Among(Lag, queue')
      PROVE  /\ start < pos /\ pos + HubCap <= Len(published)
             /\ \A i \in 1 .. Len(frames') : frames'[i] < pos
             /\ \A j \in 1 .. Len(queue') : queue'[j] < pos
  <2>1. /\ start < pos /\ pos + HubCap <= Len(published)
        /\ \A i \in 1 .. Len(frames) : frames[i] < pos
        /\ \A j \in 1 .. Len(queue) : queue[j] < pos
    BY <1>4, <1>9 DEF LagInv
  <2>2. \A j \in 1 .. Len(queue') : queue'[j] < pos
    BY <1>3, <2>1
  <2>3. Head(queue) < pos
    BY <1>2, <2>1
  <2>4. QED
    BY <1>7, <2>1, <2>2, <2>3
<1>10. QED
  BY <1>1, <1>6, <1>8, <1>9 DEF LagInv

\* A lag that is told stays true: the task that lagged goes no further, and the
\* ring only gets longer.
LEMMA LagStep == ASSUME HubInv, LagInv, [HubNext]_hubAllVars PROVE LagInv'
<1>1. HubTypeOK
  BY DEF HubInv
<1>2. CASE HostEvent \/ PipelineEvent
  BY <1>1, <1>2, HostEventStep, PipelineEventStep, SameGrows, LagGrows
<1>3. CASE ForwardHost \/ ForwarderLags \/ ForwardPipeline \/ ForwarderEnds
  BY <1>1, <1>3, ForwardHostStep, ForwarderStep, LagGrows
<1>4. CASE Subscribe
  <2>1. held' = <<>> /\ queue' = <<>> /\ frames' = <<>>
    BY <1>4 DEF Subscribe, HubInv, TaskInv
  <2>2. QED
    BY <2>1 DEF LagInv, Among
<1>5. CASE SendFails
  <2>1. held' = <<>> /\ queue' = <<>> /\ UNCHANGED <<start, frames>>
    BY <1>5 DEF SendFails, HubInv, TaskInv, streamVars
  <2>2. QED
    BY <2>1 DEF LagInv, Among
<1>6. CASE Disconnect
  <2>1. queue' = <<>> /\ UNCHANGED <<published, start, pos, held, frames>>
    BY <1>6 DEF Disconnect, hubVars, subVars
  <2>2. QED
    BY <2>1 DEF LagInv, Among
<1>7. CASE UNCHANGED hubAllVars
  BY <1>1, <1>7, SameGrows, LagGrows DEF hubAllVars, hubVars
<1>8. QED
  BY <1>2, <1>3, <1>4, <1>5, <1>6, <1>7, LagReceive, LagDeliver, LagPoll DEF HubNext

\* One event more, and the client has not moved.
LEMMA ForwardPublishes ==
  ASSUME HubTypeOK, ForwardHost \/ ForwardPipeline
  PROVE  Promise!Publish \/ UNCHANGED Promise!vars
<1>1. UNCHANGED <<subVars, queue, streamVars>> /\ Grows
  BY ForwardHostStep, ForwarderStep
<1>2. UNCHANGED <<Listener, start, filter, frames>>
  BY <1>1 DEF Listener, subVars, streamVars
<1>3. published \in Seq(Events) /\ published' \in Seq(Events)
  BY <1>1 DEF HubTypeOK, Grows
<1>4. published' = published \/ Len(published') = Len(published) + 1
  <2>1. CASE ForwardPipeline
    BY <1>3, <2>1 DEF ForwardPipeline
  <2>2. CASE ForwardHost
    <3> DEFINE es == Convert(host[hostPos + 1])
               t == [i \in 1 .. Len(es) |-> [es[i] EXCEPT !.detail = Detail(es[i])]]
    <3>1. published' = published \o t
      BY <2>2 DEF ForwardHost, Publish
    <3>2. (es = <<>> /\ Len(es) = 0) \/ (Len(es) = 1)
      BY DEF Convert
    <3> HIDE DEF es
    <3>3. CASE es = <<>> /\ Len(es) = 0
      <4>1. t = <<>>
        BY <3>3
      <4> HIDE DEF t
      <4>2. QED
        BY <1>3, <3>1, <4>1
    <3>4. CASE Len(es) = 1
      <4>1. t \in Seq(Range(t)) /\ Len(t) = 1
        BY <3>4 DEF Range
      <4> HIDE DEF t
      <4> DEFINE S == Events \cup Range(t)
      <4>2. published \in Seq(S) /\ t \in Seq(S)
        BY <1>3, <4>1
      <4> HIDE DEF S
      <4>3. Len(published \o t) = Len(published) + Len(t)
        BY <4>2, ConcatProperties
      <4>4. QED
        BY <3>1, <4>1, <4>3
    <3>5. QED
      BY <3>2, <3>3, <3>4
  <2>3. QED
    BY <2>1, <2>2
<1>5. CASE published' = published
  BY <1>2, <1>5 DEF Promise!vars
<1>6. CASE Len(published') = Len(published) + 1
  BY <1>1, <1>2, <1>6 DEF Promise!Publish, Grows
<1>7. QED
  BY <1>4, <1>5, <1>6

\* The position of the last frame, and that of the subscription while there is
\* none, is below every item in the queue.
LEMMA LastIs ==
  ASSUME HubInv, LagInv, ~done, queue # <<>>
  PROVE  /\ Promise!Last \in Nat
         /\ queue[1] # Lag => Promise!Last < queue[1]
         /\ \A i \in 1 .. Len(frames) : frames[i] <= Promise!Last
         /\ start <= Promise!Last
         /\ Among(Lag, queue) => Promise!Last < pos
<1>1. 1 \in 1 .. Len(queue)
  BY Numbers
<1>2. \A i \in 1 .. Len(frames) : frames[i] # Lag /\ (queue[1] # Lag => frames[i] < queue[1])
  BY <1>1 DEF HubInv, OrderInv
<1>3. CASE frames = <<>>
  <2>1. Promise!Last = start /\ Len(frames) = 0
    BY <1>3 DEF Promise!Last
  <2>2. QED
    BY <1>1, <2>1, Numbers DEF LagInv
<1>4. CASE frames # <<>>
  <2>1. Promise!Last = frames[Len(frames)] /\ Len(frames) \in 1 .. Len(frames)
    BY <1>4, Numbers DEF Promise!Last
  <2>2. \A i \in 1 .. Len(frames) : i # Len(frames) => frames[i] < frames[Len(frames)]
    BY <1>2, <2>1 DEF HubInv, OrderInv, InOrder
  <2>3. frames[Len(frames)] \in Nat /\ frames[Len(frames)] # Lag
    BY <1>2, <2>1, Numbers
  <2>4. start < frames[Len(frames)]
    BY <2>1, <2>3 DEF LagInv
  <2>5. \A i \in 1 .. Len(frames) : frames[i] <= frames[Len(frames)]
    <3>1. SUFFICES ASSUME NEW i \in 1 .. Len(frames) PROVE frames[i] <= frames[Len(frames)]
      OBVIOUS
    <3>2. frames[i] \in Nat
      BY <3>1, Numbers
    <3>3. QED
      BY <2>2, <2>3, <3>1, <3>2
  <2>6. queue[1] # Lag => frames[Len(frames)] < queue[1]
    BY <1>2, <2>1
  <2>7. Among(Lag, queue) => frames[Len(frames)] < pos
    BY <2>1 DEF LagInv
  <2>8. start <= frames[Len(frames)]
    BY <2>3, <2>4, Numbers
  <2>9. QED
    BY <2>1, <2>3, <2>5, <2>6, <2>7, <2>8
<1>5. QED
  BY <1>3, <1>4

LEMMA PollShows == ASSUME HubInv, LagInv, Poll PROVE Promise!Next \/ UNCHANGED Promise!vars
<1>1. /\ queue # <<>> /\ ~done /\ UNCHANGED <<published, start, pos, sub, filter>>
  BY DEF Poll, hubVars, subVars
<1>2. sub # "none" /\ Listener = "listening"
  BY <1>1 DEF HubInv, TaskInv, Listener
<1> DEFINE h == Head(queue)
<1>3. h = queue[1] /\ 1 \in 1 .. Len(queue) /\ h \in Nat /\ Len(queue) \in Nat
  BY <1>1, Numbers
<1>4. CASE h = Lag
  <2>1. done' /\ frames' = Append(frames, Lag)
    BY <1>4 DEF Poll
  <2>2. Among(Lag, queue)
    BY <1>3, <1>4 DEF Among
  <2>3. Promise!Last < pos /\ pos + HubCap <= Len(published) /\ Promise!Last \in Nat
    BY <1>1, <2>2, LastIs DEF LagInv
  <2>4. Len(published) > Promise!Last + HubCap
    BY <2>3, Numbers
  <2>5. Listener' = "gone"
    BY <1>1, <1>2, <2>1 DEF Listener
  <2>6. Promise!LoseTrack
    BY <1>1, <1>2, <2>1, <2>4, <2>5 DEF Promise!LoseTrack
  <2>7. QED
    BY <2>6 DEF Promise!Next
<1>5. CASE h # Lag
  <2>1. PICK seen \in BOOLEAN :
          /\ seen => Wanted(published[h])
          /\ frames' = IF seen THEN Append(frames, h) ELSE frames
          /\ UNCHANGED done
    BY <1>5 DEF Poll
  <2>2. Listener' = "listening"
    BY <1>1, <1>2, <2>1 DEF Listener
  <2>3. CASE ~seen
    BY <1>1, <1>2, <2>1, <2>2, <2>3 DEF Promise!vars
  <2>4. CASE seen
    <3>1. h \in 1 .. Len(published)
      BY <1>3, <1>5, Numbers DEF Lag
    <3>2. Promise!Last < h
      BY <1>1, <1>3, <1>5, LastIs
    <3>3. Promise!Wants(published[h])
      BY <2>1, <2>4 DEF Promise!Wants, Wanted
    <3>4. ASSUME NEW q \in Promise!Last + 1 .. h - 1, Promise!Due(published[q])
          PROVE  FALSE
      <4>1. Owed(q)
        BY <3>4 DEF Promise!Due, Promise!Wants, Owed, Wanted, Full
      <4>2. q \in start + 1 .. Len(published) /\ q < h /\ q # Lag /\ q > Promise!Last
        <5>1. /\ Promise!Last \in Nat /\ start <= Promise!Last /\ start \in Nat
              /\ Len(published) \in Nat
          BY <1>1, LastIs, Numbers
        <5>2. QED
          BY <1>3, <3>1, <3>4, <5>1 DEF Lag
      <4>3. Among(q, frames) \/ Among(q, queue)
        BY <1>3, <4>1, <4>2 DEF HubInv, PathInv
      <4>4. ~Among(q, frames)
        <5>1. /\ \A i \in 1 .. Len(frames) : frames[i] <= Promise!Last /\ frames[i] \in Nat
              /\ Promise!Last \in Nat
          BY <1>1, LastIs, Numbers
        <5>2. QED
          BY <4>2, <5>1 DEF Among
      <4>5. ~Among(q, queue)
        <5>1. \A j \in 1 .. Len(queue) : 1 < j /\ queue[j] # Lag => queue[1] < queue[j]
          BY <1>3 DEF HubInv, OrderInv, InOrder
        <5>2. ASSUME NEW j \in 1 .. Len(queue), queue[j] = q
              PROVE  FALSE
          BY <1>3, <4>2, <5>1, <5>2
        <5>3. QED
          BY <5>2 DEF Among
      <4>6. QED
        BY <4>3, <4>4, <4>5
    <3>5. Promise!Show(h)
      BY <1>1, <1>2, <2>1, <2>2, <2>4, <3>2, <3>3, <3>4 DEF Promise!Show
    <3>6. QED
      BY <3>1, <3>5 DEF Promise!Next
  <2>5. QED
    BY <2>3, <2>4
<1>6. QED
  BY <1>4, <1>5

LEMMA HubStep ==
  ASSUME HubInv, LagInv, [HubNext]_hubAllVars
  PROVE  Promise!Next \/ UNCHANGED Promise!vars
<1>1. HubTypeOK
  BY DEF HubInv
<1>2. ASSUME UNCHANGED <<published, sub, start, done, filter, frames>>
      PROVE  UNCHANGED Promise!vars
  BY <1>2 DEF Promise!vars, Listener
<1>3. CASE HostEvent \/ PipelineEvent \/ ForwarderLags \/ ForwarderEnds
  BY <1>2, <1>3 DEF HostEvent, PipelineEvent, ForwarderLags, ForwarderEnds, hubVars, subVars,
                    streamVars
<1>4. CASE ForwardHost \/ ForwardPipeline
  BY <1>1, <1>4, ForwardPublishes DEF Promise!Next
<1>5. CASE Subscribe
  <2>1. Listener = "away" /\ Listener' = "listening"
    BY <1>5 DEF Subscribe, Listener, HubInv, TaskInv
  <2>2. Promise!Listen
    BY <1>5, <2>1 DEF Subscribe, Promise!Listen, hubVars
  <2>3. QED
    BY <2>2 DEF Promise!Next
<1>6. CASE Receive \/ Deliver \/ SendFails
  <2>1. sub # "none" /\ sub' # "none" /\ UNCHANGED <<published, start, done, filter, frames>>
    BY <1>6 DEF Receive, Deliver, SendFails, hubVars, streamVars
  <2>2. QED
    BY <2>1 DEF Promise!vars, Listener
<1>7. CASE Poll
  BY <1>7, PollShows
<1>8. CASE Disconnect
  <2>1. Listener = "listening" /\ Listener' = "gone"
    BY <1>8 DEF Disconnect, Listener, subVars
  <2>2. Promise!Leave
    BY <1>8, <2>1 DEF Disconnect, Promise!Leave, hubVars, subVars
  <2>3. QED
    BY <2>2 DEF Promise!Next
<1>9. CASE UNCHANGED hubAllVars
  BY <1>2, <1>9 DEF hubAllVars, hubVars, subVars, streamVars
<1>10. QED
  BY <1>3, <1>4, <1>5, <1>6, <1>7, <1>8, <1>9 DEF HubNext

\* For every capacity of the hub's ring and of the subscriber's queue, and however
\* the tasks are scheduled: the subscription implements ListenerPromise.  Each
\* frame is the next event the filter wants or one past events the client is not
\* owed, what was shown is never taken back, and event_stream_lagged is told only
\* when more events than HUB_CAPACITY have come after the last frame (hub.rs:3-9).
THEOREM Listens == HubSpec => HubPromise
<1>1. HubInit => HubInv /\ LagInv
  BY InitHubInv DEF HubInit, LagInv, Among
<1>2. HubInv /\ LagInv /\ [HubNext]_hubAllVars => (HubInv /\ LagInv)'
  BY NextHubInv, LagStep
<1>3. HubInit => Promise!Init
  BY DEF HubInit, Promise!Init, Listener
<1>4. HubInv /\ LagInv /\ [HubNext]_hubAllVars => [Promise!Next]_(Promise!vars)
  BY HubStep
<1>5. QED
  BY <1>1, <1>2, <1>3, <1>4, PTL DEF HubSpec, HubPromise, Promise!Spec
=================================================================================
