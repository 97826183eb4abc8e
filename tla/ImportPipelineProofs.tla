------------------------ MODULE ImportPipelineProofs ------------------------
(***************************************************************************)
(* Proofs about ImportPipeline, for any sets of files, plugins and users   *)
(* and any limits: what an import leaves behind, however it is raced by    *)
(* cancels and unloads.                                                    *)
(***************************************************************************)
EXTENDS ImportPipeline, SumLemmas, TLAPS

USE FilesAssumption, AttemptsAssumption, LimitsAssumption

-----------------------------------------------------------------------------
(***************************************************************************)
(* The type invariant, with the bound on the attempts of load_file.        *)
(***************************************************************************)
LEMMA InitTypeOK == Init => TypeOK /\ TriesInv
  BY DEF Init, TypeOK, TriesInv, Early, PC, Holding, Slow, Idle

LEMMA NextTypeOK == TypeOK /\ TriesInv /\ [Next]_vars => TypeOK' /\ TriesInv'
<1> SUFFICES ASSUME TypeOK, TriesInv, [Next]_vars PROVE TypeOK' /\ TriesInv'
  OBVIOUS
<1> USE DEF TypeOK, TriesInv, Early, PC, Holding, Slow, Idle
<1>1. ASSUME NEW f \in Files, Import(f) PROVE TypeOK' /\ TriesInv'
  <2> USE DEF Goto, Return, Leave, Tell, GiveIn, Discard, jobVars, dataVars
  <2>1. CASE CheckLimit(f) \/ ReadFails(f) \/ NeedsChoice(f) \/ TakeLock(f)
             \/ EnsureSession(f) \/ InsertIndex(f) \/ RegisterJob(f) \/ Loaded(f)
    BY <2>1 DEF CheckLimit, ReadFails, NeedsChoice, TakeLock, EnsureSession,
                InsertIndex, RegisterJob, Loaded
  <2>2. CASE \E p \in Plugins : Choose(f, p)
    BY <2>2 DEF Choose
  <2>3. CASE LoadFails(f)
    BY <2>3 DEF LoadFails
  <2>4. CASE SchemaFails(f) \/ RegisterStore(f) \/ InsertPath(f) \/ ParseFails(f)
             \/ Parsed(f) \/ Freeze(f) \/ Gate(f)
    BY <2>4 DEF SchemaFails, RegisterStore, InsertPath, ParseFails, Parsed, Freeze, Gate
  <2>5. CASE CheckBudget(f)
    BY <2>5 DEF CheckBudget
  <2>6. CASE Ready(f) \/ Fail(f) \/ Bail(f) \/ FinishJob(f) \/ CleanUp(f)
    BY <2>6 DEF Ready, Fail, Bail, FinishJob, CleanUp
  <2> QED BY <1>1, <2>1, <2>2, <2>3, <2>4, <2>5, <2>6 DEF Import
<1>2. ASSUME NEW f \in Files, Append(f) PROVE TypeOK' /\ TriesInv'
  BY <1>2 DEF Append, taskVars, jobVars
<1>3. ASSUME NEW u \in Users, NEW f \in Files,
             BeginCancel(u, f) \/ CancelTimesOut(u, f) \/ EndCancel(u, f)
             \/ BeginUnload(u, f) \/ EndUnload(u, f)
      PROVE TypeOK' /\ TriesInv'
  BY <1>3 DEF BeginCancel, CancelTimesOut, EndCancel, BeginUnload, EndUnload, Begin, End,
              Discard, Tell, taskVars, jobVars, dataVars
<1>4. CASE UNCHANGED vars
  BY <1>4 DEF vars, taskVars, jobVars, dataVars
<1> QED BY <1>1, <1>2, <1>3, <1>4 DEF Next

\* Every variable keeps its type, whatever imports and users do.
THEOREM TypeCorrect == Spec => []TypeOK
  BY InitTypeOK, NextTypeOK, PTL DEF Spec

-----------------------------------------------------------------------------
(***************************************************************************)
(* The inductive invariant, part by part, when unload_file does not come   *)
(* between file_index.insert and register_job.                             *)
(***************************************************************************)
LEMMA InitIInv == Init => IInv
  BY InitTypeOK DEF Init, IInv, Idle, TypeOK, EarlyInv, JobInv, CancelInv, DataInv, OutcomeInv,
     Early, Past, Overdue, Nothing

(***************************************************************************)
(* Nobody can name an import that has no job yet.                          *)
(***************************************************************************)
LEMMA NextEarlyInv ==
  ASSUME EarlyUnload = FALSE, TypeOK, EarlyInv, JobInv, [Next]_vars
  PROVE  EarlyInv'
<1> USE DEF TypeOK, EarlyInv, JobInv, Early, Idle
<1>1. ASSUME NEW f \in Files, Import(f) PROVE EarlyInv'
  <2> USE DEF Goto, Return, Leave, Tell, GiveIn, Discard, jobVars, dataVars
  <2>1. CASE CheckLimit(f) \/ ReadFails(f) \/ NeedsChoice(f)
    BY <2>1 DEF CheckLimit, ReadFails, NeedsChoice
  <2>2. CASE TakeLock(f) \/ EnsureSession(f) \/ InsertIndex(f)
    BY <2>2 DEF TakeLock, EnsureSession, InsertIndex
  <2>3. CASE RegisterJob(f) \/ Loaded(f)
    BY <2>3 DEF RegisterJob, Loaded
  <2>4. CASE LoadFails(f)
    BY <2>4 DEF LoadFails
  <2>5. CASE SchemaFails(f) \/ RegisterStore(f) \/ InsertPath(f)
    BY <2>5 DEF SchemaFails, RegisterStore, InsertPath
  <2>6. CASE ParseFails(f) \/ Parsed(f)
    BY <2>6 DEF ParseFails, Parsed
  <2>7. CASE Freeze(f) \/ Gate(f)
    BY <2>7 DEF Freeze, Gate
  <2>8. CASE CheckBudget(f) \/ Ready(f)
    BY <2>8 DEF CheckBudget, Ready
  <2>9. CASE Fail(f) \/ Bail(f)
    BY <2>9 DEF Fail, Bail
  <2>10. CASE FinishJob(f) \/ CleanUp(f)
    BY <2>10 DEF FinishJob, CleanUp
  <2>11. CASE \E p \in Plugins : Choose(f, p)
    BY <2>11 DEF Choose
  <2> QED BY <1>1, <2>1, <2>2, <2>3, <2>4, <2>5, <2>6, <2>7, <2>8, <2>9, <2>10, <2>11 DEF Import
<1>2. ASSUME NEW f \in Files, Append(f) PROVE EarlyInv'
  BY <1>2 DEF Append, taskVars, jobVars
<1>3. ASSUME NEW u \in Users, NEW f \in Files, BeginCancel(u, f) PROVE EarlyInv'
  BY <1>3 DEF BeginCancel, Begin, End, Discard, Tell, taskVars, jobVars, dataVars
<1>4. ASSUME NEW u \in Users, NEW f \in Files, CancelTimesOut(u, f) PROVE EarlyInv'
  BY <1>4 DEF CancelTimesOut, Begin, End, Discard, Tell, taskVars, jobVars, dataVars
<1>5. ASSUME NEW u \in Users, NEW f \in Files, EndCancel(u, f) PROVE EarlyInv'
  BY <1>5 DEF EndCancel, Begin, End, Discard, Tell, taskVars, jobVars, dataVars
<1>6. ASSUME NEW u \in Users, NEW f \in Files, BeginUnload(u, f) PROVE EarlyInv'
  BY <1>6 DEF BeginUnload, Begin, End, Discard, Tell, taskVars, jobVars, dataVars
<1>7. ASSUME NEW u \in Users, NEW f \in Files, EndUnload(u, f) PROVE EarlyInv'
  BY <1>7 DEF EndUnload, Begin, End, Discard, Tell, taskVars, jobVars, dataVars
<1>8. CASE UNCHANGED vars
  BY <1>8 DEF vars, taskVars, jobVars, dataVars
<1> QED BY <1>1, <1>2, <1>3, <1>4, <1>5, <1>6, <1>7, <1>8 DEF Next

(***************************************************************************)
(* A job leaves the map by finish_job, or after it was cancelled.          *)
(***************************************************************************)
LEMMA NextJobInv ==
  ASSUME EarlyUnload = FALSE, TypeOK, EarlyInv, JobInv, CancelInv, [Next]_vars
  PROVE  JobInv'
<1> USE DEF TypeOK, EarlyInv, JobInv, CancelInv, Early, Idle
<1>1. ASSUME NEW f \in Files, Import(f) PROVE JobInv'
  <2> USE DEF Goto, Return, Leave, Tell, GiveIn, Discard, jobVars, dataVars
  <2>1. CASE CheckLimit(f) \/ ReadFails(f) \/ NeedsChoice(f)
    BY <2>1 DEF CheckLimit, ReadFails, NeedsChoice
  <2>2. CASE TakeLock(f) \/ EnsureSession(f) \/ InsertIndex(f)
    BY <2>2 DEF TakeLock, EnsureSession, InsertIndex
  <2>3. CASE RegisterJob(f) \/ Loaded(f)
    BY <2>3 DEF RegisterJob, Loaded
  <2>4. CASE LoadFails(f)
    BY <2>4 DEF LoadFails
  <2>5. CASE SchemaFails(f) \/ RegisterStore(f) \/ InsertPath(f)
    BY <2>5 DEF SchemaFails, RegisterStore, InsertPath
  <2>6. CASE ParseFails(f) \/ Parsed(f)
    BY <2>6 DEF ParseFails, Parsed
  <2>7. CASE Freeze(f) \/ Gate(f)
    BY <2>7 DEF Freeze, Gate
  <2>8. CASE CheckBudget(f) \/ Ready(f)
    BY <2>8 DEF CheckBudget, Ready
  <2>9. CASE Fail(f) \/ Bail(f)
    BY <2>9 DEF Fail, Bail
  <2>10. CASE FinishJob(f) \/ CleanUp(f)
    BY <2>10 DEF FinishJob, CleanUp
  <2>11. CASE \E p \in Plugins : Choose(f, p)
    BY <2>11 DEF Choose
  <2> QED BY <1>1, <2>1, <2>2, <2>3, <2>4, <2>5, <2>6, <2>7, <2>8, <2>9, <2>10, <2>11 DEF Import
<1>2. ASSUME NEW f \in Files, Append(f) PROVE JobInv'
  BY <1>2 DEF Append, taskVars, jobVars
<1>3. ASSUME NEW u \in Users, NEW f \in Files, BeginCancel(u, f) PROVE JobInv'
  BY <1>3 DEF BeginCancel, Begin, End, Discard, Tell, taskVars, jobVars, dataVars
<1>4. ASSUME NEW u \in Users, NEW f \in Files, CancelTimesOut(u, f) PROVE JobInv'
  BY <1>4 DEF CancelTimesOut, Begin, End, Discard, Tell, taskVars, jobVars, dataVars
<1>5. ASSUME NEW u \in Users, NEW f \in Files, EndCancel(u, f) PROVE JobInv'
  BY <1>5 DEF EndCancel, Begin, End, Discard, Tell, taskVars, jobVars, dataVars
<1>6. ASSUME NEW u \in Users, NEW f \in Files, BeginUnload(u, f) PROVE JobInv'
  BY <1>6 DEF BeginUnload, Begin, End, Discard, Tell, taskVars, jobVars, dataVars
<1>7. ASSUME NEW u \in Users, NEW f \in Files, EndUnload(u, f) PROVE JobInv'
  BY <1>7 DEF EndUnload, Begin, End, Discard, Tell, taskVars, jobVars, dataVars
<1>8. CASE UNCHANGED vars
  BY <1>8 DEF vars, taskVars, jobVars, dataVars
<1> QED BY <1>1, <1>2, <1>3, <1>4, <1>5, <1>6, <1>7, <1>8 DEF Next

(***************************************************************************)
(* What is cleaned up stays cleaned up.                                    *)
(***************************************************************************)
LEMMA NextCancelInv ==
  ASSUME EarlyUnload = FALSE, TypeOK, EarlyInv, JobInv, CancelInv, DataInv, OutcomeInv, [Next]_vars
  PROVE  CancelInv'
<1> USE DEF TypeOK, EarlyInv, JobInv, CancelInv, DataInv, OutcomeInv, Early, Idle, Overdue, Past, Slow
<1>1. ASSUME NEW f \in Files, Import(f) PROVE CancelInv'
  <2> USE DEF Goto, Return, Leave, Tell, GiveIn, Discard, jobVars, dataVars
  <2>1. CASE CheckLimit(f) \/ ReadFails(f) \/ NeedsChoice(f)
    BY <2>1 DEF CheckLimit, ReadFails, NeedsChoice
  <2>2. CASE TakeLock(f) \/ EnsureSession(f) \/ InsertIndex(f)
    BY <2>2 DEF TakeLock, EnsureSession, InsertIndex
  <2>3. CASE RegisterJob(f) \/ Loaded(f)
    BY <2>3 DEF RegisterJob, Loaded
  <2>4. CASE LoadFails(f)
    BY <2>4 DEF LoadFails
  <2>5. CASE SchemaFails(f) \/ RegisterStore(f) \/ InsertPath(f)
    BY <2>5 DEF SchemaFails, RegisterStore, InsertPath
  <2>6. CASE ParseFails(f) \/ Parsed(f)
    BY <2>6 DEF ParseFails, Parsed
  <2>7. CASE Freeze(f) \/ Gate(f)
    BY <2>7 DEF Freeze, Gate
  <2>8. CASE CheckBudget(f) \/ Ready(f)
    BY <2>8 DEF CheckBudget, Ready
  <2>9. CASE Fail(f) \/ Bail(f)
    BY <2>9 DEF Fail, Bail
  <2>10. CASE FinishJob(f) \/ CleanUp(f)
    BY <2>10 DEF FinishJob, CleanUp
  <2>11. CASE \E p \in Plugins : Choose(f, p)
    BY <2>11 DEF Choose
  <2> QED BY <1>1, <2>1, <2>2, <2>3, <2>4, <2>5, <2>6, <2>7, <2>8, <2>9, <2>10, <2>11 DEF Import
<1>2. ASSUME NEW f \in Files, Append(f) PROVE CancelInv'
  BY <1>2 DEF Append, taskVars, jobVars
<1>3. ASSUME NEW u \in Users, NEW f \in Files, BeginCancel(u, f) PROVE CancelInv'
  BY <1>3 DEF BeginCancel, Begin, End, Discard, Tell, taskVars, jobVars, dataVars
<1>4. ASSUME NEW u \in Users, NEW f \in Files, CancelTimesOut(u, f) PROVE CancelInv'
  BY <1>4 DEF CancelTimesOut, Begin, End, Discard, Tell, taskVars, jobVars, dataVars
<1>5. ASSUME NEW u \in Users, NEW f \in Files, EndCancel(u, f) PROVE CancelInv'
  BY <1>5 DEF EndCancel, Begin, End, Discard, Tell, taskVars, jobVars, dataVars
<1>6. ASSUME NEW u \in Users, NEW f \in Files, BeginUnload(u, f) PROVE CancelInv'
  BY <1>6 DEF BeginUnload, Begin, End, Discard, Tell, taskVars, jobVars, dataVars
<1>7. ASSUME NEW u \in Users, NEW f \in Files, EndUnload(u, f) PROVE CancelInv'
  BY <1>7 DEF EndUnload, Begin, End, Discard, Tell, taskVars, jobVars, dataVars
<1>8. CASE UNCHANGED vars
  BY <1>8 DEF vars, taskVars, jobVars, dataVars
<1> QED BY <1>1, <1>2, <1>3, <1>4, <1>5, <1>6, <1>7, <1>8 DEF Next

(***************************************************************************)
(* The data of an import that nobody cancelled is whole at every stage.    *)
(***************************************************************************)
LEMMA NextDataInv ==
  ASSUME EarlyUnload = FALSE, TypeOK, EarlyInv, JobInv, CancelInv, DataInv, OutcomeInv, [Next]_vars
  PROVE  DataInv'
<1> USE DEF TypeOK, EarlyInv, JobInv, CancelInv, DataInv, OutcomeInv, Early, Idle, Past
<1>1. ASSUME NEW f \in Files, Import(f) PROVE DataInv'
  <2> USE DEF Goto, Return, Leave, Tell, GiveIn, Discard, jobVars, dataVars
  <2>1. CASE CheckLimit(f) \/ ReadFails(f) \/ NeedsChoice(f)
    BY <2>1 DEF CheckLimit, ReadFails, NeedsChoice
  <2>2. CASE TakeLock(f) \/ EnsureSession(f) \/ InsertIndex(f)
    BY <2>2 DEF TakeLock, EnsureSession, InsertIndex
  <2>3. CASE RegisterJob(f) \/ Loaded(f)
    BY <2>3 DEF RegisterJob, Loaded
  <2>4. CASE LoadFails(f)
    BY <2>4 DEF LoadFails
  <2>5. CASE SchemaFails(f) \/ RegisterStore(f) \/ InsertPath(f)
    BY <2>5 DEF SchemaFails, RegisterStore, InsertPath
  <2>6. CASE ParseFails(f) \/ Parsed(f)
    BY <2>6 DEF ParseFails, Parsed
  <2>7. CASE Freeze(f) \/ Gate(f)
    BY <2>7 DEF Freeze, Gate
  <2>8. CASE CheckBudget(f) \/ Ready(f)
    BY <2>8 DEF CheckBudget, Ready
  <2>9. CASE Fail(f) \/ Bail(f)
    BY <2>9 DEF Fail, Bail
  <2>10. CASE FinishJob(f) \/ CleanUp(f)
    BY <2>10 DEF FinishJob, CleanUp
  <2>11. CASE \E p \in Plugins : Choose(f, p)
    BY <2>11 DEF Choose
  <2> QED BY <1>1, <2>1, <2>2, <2>3, <2>4, <2>5, <2>6, <2>7, <2>8, <2>9, <2>10, <2>11 DEF Import
<1>2. ASSUME NEW f \in Files, Append(f) PROVE DataInv'
  BY <1>2 DEF Append, taskVars, jobVars
<1>3. ASSUME NEW u \in Users, NEW f \in Files, BeginCancel(u, f) PROVE DataInv'
  BY <1>3 DEF BeginCancel, Begin, End, Discard, Tell, taskVars, jobVars, dataVars
<1>4. ASSUME NEW u \in Users, NEW f \in Files, CancelTimesOut(u, f) PROVE DataInv'
  BY <1>4 DEF CancelTimesOut, Begin, End, Discard, Tell, taskVars, jobVars, dataVars
<1>5. ASSUME NEW u \in Users, NEW f \in Files, EndCancel(u, f) PROVE DataInv'
  BY <1>5 DEF EndCancel, Begin, End, Discard, Tell, taskVars, jobVars, dataVars
<1>6. ASSUME NEW u \in Users, NEW f \in Files, BeginUnload(u, f) PROVE DataInv'
  BY <1>6 DEF BeginUnload, Begin, End, Discard, Tell, taskVars, jobVars, dataVars
<1>7. ASSUME NEW u \in Users, NEW f \in Files, EndUnload(u, f) PROVE DataInv'
  BY <1>7 DEF EndUnload, Begin, End, Discard, Tell, taskVars, jobVars, dataVars
<1>8. CASE UNCHANGED vars
  BY <1>8 DEF vars, taskVars, jobVars, dataVars
<1> QED BY <1>1, <1>2, <1>3, <1>4, <1>5, <1>6, <1>7, <1>8 DEF Next

(***************************************************************************)
(* The outcome tells what is left of the import.                           *)
(***************************************************************************)
LEMMA NextOutcomeInv ==
  ASSUME EarlyUnload = FALSE, TypeOK, EarlyInv, JobInv, CancelInv, DataInv, OutcomeInv, [Next]_vars
  PROVE  OutcomeInv'
<1> USE DEF TypeOK, EarlyInv, JobInv, CancelInv, DataInv, OutcomeInv, Early, Idle, Past, Nothing
<1>1. ASSUME NEW f \in Files, Import(f) PROVE OutcomeInv'
  <2> USE DEF Goto, Return, Leave, Tell, GiveIn, Discard, jobVars, dataVars
  <2>1. CASE CheckLimit(f) \/ ReadFails(f) \/ NeedsChoice(f)
    BY <2>1 DEF CheckLimit, ReadFails, NeedsChoice
  <2>2. CASE TakeLock(f) \/ EnsureSession(f) \/ InsertIndex(f)
    BY <2>2 DEF TakeLock, EnsureSession, InsertIndex
  <2>3. CASE RegisterJob(f) \/ Loaded(f)
    BY <2>3 DEF RegisterJob, Loaded
  <2>4. CASE LoadFails(f)
    BY <2>4 DEF LoadFails
  <2>5. CASE SchemaFails(f) \/ RegisterStore(f) \/ InsertPath(f)
    BY <2>5 DEF SchemaFails, RegisterStore, InsertPath
  <2>6. CASE ParseFails(f) \/ Parsed(f)
    BY <2>6 DEF ParseFails, Parsed
  <2>7. CASE Freeze(f) \/ Gate(f)
    BY <2>7 DEF Freeze, Gate
  <2>8. CASE CheckBudget(f) \/ Ready(f)
    BY <2>8 DEF CheckBudget, Ready
  <2>9. CASE Fail(f) \/ Bail(f)
    BY <2>9 DEF Fail, Bail
  <2>10. CASE FinishJob(f) \/ CleanUp(f)
    BY <2>10 DEF FinishJob, CleanUp
  <2>11. CASE \E p \in Plugins : Choose(f, p)
    BY <2>11 DEF Choose
  <2> QED BY <1>1, <2>1, <2>2, <2>3, <2>4, <2>5, <2>6, <2>7, <2>8, <2>9, <2>10, <2>11 DEF Import
<1>2. ASSUME NEW f \in Files, Append(f) PROVE OutcomeInv'
  BY <1>2 DEF Append, taskVars, jobVars
<1>3. ASSUME NEW u \in Users, NEW f \in Files, BeginCancel(u, f) PROVE OutcomeInv'
  BY <1>3 DEF BeginCancel, Begin, End, Discard, Tell, taskVars, jobVars, dataVars
<1>4. ASSUME NEW u \in Users, NEW f \in Files, CancelTimesOut(u, f) PROVE OutcomeInv'
  BY <1>4 DEF CancelTimesOut, Begin, End, Discard, Tell, taskVars, jobVars, dataVars
<1>5. ASSUME NEW u \in Users, NEW f \in Files, EndCancel(u, f) PROVE OutcomeInv'
  BY <1>5 DEF EndCancel, Begin, End, Discard, Tell, taskVars, jobVars, dataVars
<1>6. ASSUME NEW u \in Users, NEW f \in Files, BeginUnload(u, f) PROVE OutcomeInv'
  BY <1>6 DEF BeginUnload, Begin, End, Discard, Tell, taskVars, jobVars, dataVars
<1>7. ASSUME NEW u \in Users, NEW f \in Files, EndUnload(u, f) PROVE OutcomeInv'
  BY <1>7 DEF EndUnload, Begin, End, Discard, Tell, taskVars, jobVars, dataVars
<1>8. CASE UNCHANGED vars
  BY <1>8 DEF vars, taskVars, jobVars, dataVars
<1> QED BY <1>1, <1>2, <1>3, <1>4, <1>5, <1>6, <1>7, <1>8 DEF Next

LEMMA NextIInv ==
  ASSUME EarlyUnload = FALSE, IInv, [Next]_vars
  PROVE  IInv'
<1>1. TypeOK' /\ TriesInv'
  BY NextTypeOK DEF IInv
<1> QED BY <1>1, NextEarlyInv, NextJobInv, NextCancelInv, NextDataInv, NextOutcomeInv DEF IInv

\* The inductive invariant holds when unload_file does not come between
\* file_index.insert and register_job.
THEOREM Invariance == ASSUME EarlyUnload = FALSE PROVE Spec => []IInv
<1>1. IInv /\ [Next]_vars => IInv'
  BY NextIInv
<1> QED BY <1>1, InitIInv, PTL DEF Spec

-----------------------------------------------------------------------------
\* A file the queries accept has its data and its path.
THEOREM ReadyFiles == ASSUME EarlyUnload = FALSE PROVE Spec => []ReadyHasData
<1>1. IInv => ReadyHasData
  BY DEF IInv, CancelInv, DataInv, ReadyHasData
<1> QED BY <1>1, Invariance, PTL

\* A file in the listing whose import has returned is ready.
THEOREM ListedFiles == ASSUME EarlyUnload = FALSE PROVE Spec => []ListedIsReady
<1>1. IInv => ListedIsReady
  <2> SUFFICES ASSUME IInv, NEW f \in Files, pc[f] = "done", f \in index
               PROVE  f \in frozen
    BY DEF ListedIsReady
  <2>1. outcome[f] \in {"ready", "error", "choice"}
    BY DEF IInv, TypeOK, CancelInv, OutcomeInv, Past
  <2> QED BY <2>1 DEF IInv, OutcomeInv, Past, Nothing
<1> QED BY <1>1, Invariance, PTL

\* The coordinator's maps and the store agree on a file whose import has returned.
THEOREM FilesAgree == ASSUME EarlyUnload = FALSE PROVE Spec => []MapsAgree
<1> QED BY ReadyFiles, ListedFiles, PTL DEF MapsAgree

\* A failed import leaves nothing in the coordinator's maps.
THEOREM FailedFiles == ASSUME EarlyUnload = FALSE PROVE Spec => []FailureLeavesNothing
<1>1. IInv => FailureLeavesNothing
  BY DEF IInv, OutcomeInv, FailureLeavesNothing, Past
<1> QED BY <1>1, Invariance, PTL

\* After ParseCancelled an import sends no other final event.
THEOREM LastWord == ASSUME EarlyUnload = FALSE PROVE Spec => CancelIsLast
<1> DEFINE Quiet(f) == told'[f] \subseteq told[f] \cup {"unloaded"}
           Silent == \A f \in Files : "cancelled" \in told[f] => Quiet(f)
<1>1. ASSUME IInv, [Next]_vars PROVE [Silent]_vars
  <2> SUFFICES ASSUME Next, NEW f \in Files, "cancelled" \in told[f]
               PROVE  Quiet(f)
    BY <1>1
  <2>1. /\ told \in [Files -> SUBSET {"failed", "completed", "cancelled", "unloaded"}]
        /\ f \in cancelled /\ pc[f] \notin {"budget", "ready", "failing"}
    BY <1>1 DEF IInv, TypeOK, CancelInv, Overdue
  <2>2. ASSUME NEW g \in Files, Import(g) PROVE Quiet(f)
    <3>1. CASE SchemaFails(g) \/ LoadFails(g) \/ Ready(g) \/ Fail(g)
      BY <2>1, <3>1 DEF SchemaFails, LoadFails, Ready, Fail, Tell
    <3>2. CASE ~(SchemaFails(g) \/ LoadFails(g) \/ Ready(g) \/ Fail(g))
      BY <2>2, <3>2 DEF Import, CheckLimit, ReadFails, NeedsChoice, Choose, TakeLock,
           EnsureSession, InsertIndex, RegisterJob, Loaded, RegisterStore, InsertPath,
           ParseFails, Parsed, Freeze, Gate, CheckBudget, Bail, FinishJob, CleanUp
    <3> QED BY <3>1, <3>2
  <2>3. ASSUME NEW g \in Files, Append(g) PROVE Quiet(f)
    BY <2>3 DEF Append
  <2>4. ASSUME NEW u \in Users, NEW g \in Files, EndCancel(u, g) \/ EndUnload(u, g)
        PROVE  Quiet(f)
    <3>1. \E e \in {"cancelled", "unloaded"} : told' = [told EXCEPT ![g] = @ \cup {e}]
      BY <2>4 DEF EndCancel, EndUnload, Tell
    <3> QED BY <2>1, <3>1
  <2>5. ASSUME NEW u \in Users, NEW g \in Files,
               BeginCancel(u, g) \/ CancelTimesOut(u, g) \/ BeginUnload(u, g)
        PROVE  Quiet(f)
    BY <2>5 DEF BeginCancel, CancelTimesOut, BeginUnload
  <2> QED BY <2>2, <2>3, <2>4, <2>5 DEF Next
<1> QED BY <1>1, Invariance, PTL DEF Spec, CancelIsLast
-----------------------------------------------------------------------------
(***************************************************************************)
(* The memory budget.                                                      *)
(***************************************************************************)
\* Files that have passed the check of the budget.
Counted == frozen \cup {f \in Files : pc[f] = "ready"}

LEMMA MemoryIsTotal == \A files : Memory(files) = Total(bytes, files)
  BY DEF Memory, Total

LEMMA CountedNext == Memory(Counted)' = Total(bytes', Counted')
  BY Zenon DEF Memory, Total, MapThenSumSet, MapThenFoldSet

LEMMA InitBudget == ASSUME Init, IsFiniteSet(Files) PROVE BudgetInv
<1>1. bytes \in [Files -> Nat] /\ Counted = {} /\ frozen = {}
  BY DEF Init, Counted
<1>2. Total(bytes, {}) = 0
  BY <1>1, TotalType
<1> QED BY <1>1, <1>2, MemoryIsTotal DEF BudgetInv, Counted

\* Nothing that counts gets larger, and nothing comes to count.
LEMMA BudgetKept ==
  ASSUME TypeOK, TypeOK', BudgetInv, IsFiniteSet(Files),
         Counted' \subseteq Counted,
         \A f \in Counted' : bytes'[f] <= bytes[f]
  PROVE  Memory(Counted)' <= Budget
<1>1. bytes \in [Files -> Nat] /\ bytes' \in [Files -> Nat]
  BY DEF TypeOK
<1>2. Counted \in SUBSET Files /\ Counted' \in SUBSET Files
  BY DEF TypeOK, Counted
<1>3. Total(bytes', Counted') <= Total(bytes, Counted)
  BY <1>1, <1>2, TotalMonotone
<1>4. Total(bytes', Counted') \in Nat /\ Total(bytes, Counted) \in Nat
  BY <1>1, <1>2, TotalType
<1>5. Total(bytes, Counted) <= Budget
  BY MemoryIsTotal DEF BudgetInv, Counted
<1> QED BY <1>3, <1>4, <1>5, CountedNext

\* The check looks at the memory of all files.
LEMMA BudgetChecked ==
  ASSUME TypeOK, TypeOK', BudgetInv, IsFiniteSet(Files),
         Memory(Files) <= Budget, bytes' = bytes
  PROVE  Memory(Counted)' <= Budget
<1>1. bytes \in [Files -> Nat] /\ Counted' \in SUBSET Files /\ Files \in SUBSET Files
  BY DEF TypeOK, Counted
<1>2. Total(bytes, Counted') <= Total(bytes, Files)
  BY <1>1, TotalMonotone
<1>3. Total(bytes, Counted') \in Nat /\ Total(bytes, Files) \in Nat
  BY <1>1, TotalType
<1> QED BY <1>2, <1>3, MemoryIsTotal, CountedNext

LEMMA NextBudget ==
  ASSUME TypeOK, TypeOK', BudgetInv, IsFiniteSet(Files), [Next]_vars
  PROVE  BudgetInv'
<1> USE DEF TypeOK
<1> DEFINE Quiet == /\ Counted' \subseteq Counted
                    /\ \A f \in Counted' : bytes'[f] <= bytes[f]
                    /\ \A f \in frozen' : pc'[f] \in Past
<1>1. \A f \in frozen : pc[f] \in Past
  BY DEF BudgetInv
<1>2. ASSUME Quiet PROVE BudgetInv'
  BY <1>2, BudgetKept DEF BudgetInv, Counted
<1>3. ASSUME NEW f \in Files, Import(f) PROVE BudgetInv'
  <2> USE DEF Goto, Return, Leave, GiveIn, Past, Counted
  <2>1. CASE CheckBudget(f)
    <3>1. CASE Memory(Files) > Budget
      <4>1. Quiet
        BY <1>1, <2>1, <3>1 DEF CheckBudget, dataVars
      <4> QED BY <1>2, <4>1
    <3>2. CASE ~(Memory(Files) > Budget)
      <4>1. bytes' = bytes /\ \A g \in frozen' : pc'[g] \in Past
        BY <1>1, <2>1, <3>2 DEF CheckBudget, dataVars
      <4>2. Memory(Files) <= Budget
        <5>1. Memory(Files) \in Nat
          <6>1. bytes \in [Files -> Nat]
            OBVIOUS
          <6> QED BY <6>1, TotalType, MemoryIsTotal
        <5> QED BY <3>2, <5>1
      <4> QED BY <4>1, <4>2, BudgetChecked DEF BudgetInv
    <3> QED BY <3>1, <3>2
  <2>2. CASE CheckLimit(f) \/ ReadFails(f) \/ NeedsChoice(f) \/ TakeLock(f)
             \/ EnsureSession(f) \/ InsertIndex(f) \/ RegisterJob(f) \/ Loaded(f)
             \/ (\E p \in Plugins : Choose(f, p)) \/ LoadFails(f)
    <3>1. Quiet
      BY <1>1, <2>2 DEF CheckLimit, ReadFails, NeedsChoice, TakeLock, EnsureSession,
           InsertIndex, RegisterJob, Loaded, Choose, LoadFails, dataVars
    <3> QED BY <1>2, <3>1
  <2>3. CASE SchemaFails(f) \/ RegisterStore(f) \/ InsertPath(f) \/ ParseFails(f)
             \/ Parsed(f) \/ Freeze(f) \/ Gate(f)
    <3>1. Quiet
      BY <1>1, <2>3 DEF SchemaFails, RegisterStore, InsertPath, ParseFails, Parsed,
           Freeze, Gate, dataVars
    <3> QED BY <1>2, <3>1
  <2>4. CASE Ready(f) \/ Fail(f) \/ Bail(f) \/ FinishJob(f)
    <3>1. Quiet
      BY <1>1, <2>4 DEF Ready, Fail, Bail, FinishJob, dataVars
    <3> QED BY <1>2, <3>1
  <2>5. CASE CleanUp(f)
    <3>1. Quiet
      BY <1>1, <2>5 DEF CleanUp, Discard, dataVars
    <3> QED BY <1>2, <3>1
  <2> QED BY <1>3, <2>1, <2>2, <2>3, <2>4, <2>5 DEF Import
<1>4. ASSUME NEW f \in Files, Append(f) PROVE BudgetInv'
  <2>1. Quiet
    BY <1>1, <1>4 DEF Append, taskVars, Past, Counted
  <2> QED BY <1>2, <2>1
<1>5. ASSUME NEW u \in Users, NEW f \in Files,
             BeginCancel(u, f) \/ CancelTimesOut(u, f) \/ EndCancel(u, f)
             \/ BeginUnload(u, f) \/ EndUnload(u, f)
      PROVE BudgetInv'
  <2>1. Quiet
    BY <1>1, <1>5 DEF BeginCancel, CancelTimesOut, EndCancel, BeginUnload, EndUnload,
         Discard, taskVars, dataVars, Counted
  <2> QED BY <1>2, <2>1
<1>6. CASE UNCHANGED vars
  <2>1. Quiet
    BY <1>1, <1>6 DEF vars, taskVars, dataVars, Counted
  <2> QED BY <1>2, <2>1
<1> QED BY <1>3, <1>4, <1>5, <1>6 DEF Next

\* The ready files together fit the memory budget, for any finite set of imports
\* and although nothing is locked between the check and the insertion in frozen,
\* wherever unload_file may come.
THEOREM Budgeted == ASSUME IsFiniteSet(Files) PROVE Spec => []BudgetHolds
<1>1. Init => TypeOK /\ TriesInv /\ BudgetInv
  BY InitTypeOK, InitBudget
<1>2. TypeOK /\ TriesInv /\ BudgetInv /\ [Next]_vars => TypeOK' /\ TriesInv' /\ BudgetInv'
  BY NextTypeOK, NextBudget
<1>3. TypeOK /\ BudgetInv => BudgetHolds
  <2> SUFFICES ASSUME TypeOK, BudgetInv PROVE BudgetHolds
    OBVIOUS
  <2>1. bytes \in [Files -> Nat] /\ Counted \in SUBSET Files /\ frozen \in SUBSET Files
    BY DEF TypeOK, Counted
  <2>2. Total(bytes, frozen) <= Total(bytes, Counted)
    BY <2>1, TotalMonotone DEF Counted
  <2>3. Total(bytes, frozen) \in Nat /\ Total(bytes, Counted) \in Nat
    BY <2>1, TotalType
  <2> QED BY <2>2, <2>3, MemoryIsTotal DEF BudgetInv, BudgetHolds, Counted
<1> QED BY <1>1, <1>2, <1>3, PTL DEF Spec
=============================================================================
