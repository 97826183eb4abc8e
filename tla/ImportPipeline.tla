--------------------------- MODULE ImportPipeline ---------------------------
(***************************************************************************)
(* The import coordinator of the engine                                    *)
(* (core/ab-engine/src/pipeline_bridge.rs): import_one for several files   *)
(* at once, each in a task of its own, while users cancel and unload them. *)
(* The plugin is an oracle: every call answers as it likes or times out.   *)
(*                                                                         *)
(* A file stands for one import and for the file id it draws (ids are      *)
(* never reused).  One action is what a task does up to the next point at  *)
(* which another task may see or change the maps; the removals from store, *)
(* frozen, paths and file_index, made one lock after another, are one      *)
(* action, because no task decides anything on a part of them.             *)
(***************************************************************************)
EXTENDS Naturals, FiniteSets, FiniteSetsExt

CONSTANTS
  Files,         \* imports, by their file id
  Plugins,
  Users,         \* tasks that run cancel_parse or unload_file
  Nobody,        \* the file of an idle user, the plugin of an unmatched file
  LoadAttempts,  \* total attempts of load_file (3 by default)
  MaxLoaded,     \* PipelineConfig::max_loaded_files
  FileBytes,     \* bound on the memory one file takes in the store
  Budget,        \* PipelineConfig::memory_budget_bytes
  EarlyUnload    \* TRUE when unload_file may come between two statements of
                 \* import_one, the insertion in file_index and register_job

ASSUME FilesAssumption    == Nobody \notin Files \cup Plugins
ASSUME AttemptsAssumption == LoadAttempts \in Nat \ {0}
ASSUME EarlyAssumption    == EarlyUnload \in BOOLEAN
ASSUME LimitsAssumption   == MaxLoaded \in Nat /\ FileBytes \in Nat /\ Budget \in Nat

VARIABLES
  pc,         \* where each import_one is
  plugin,     \* the plugin chosen for each file
  tries,      \* failed attempts of load_file
  outcome,    \* ImportOutcome of each import
  index,      \* file_index
  jobs,       \* files with a job in ImportCoordinatorInner::jobs
  cancelled,  \* ImportJob::cancelled
  done,       \* ImportJob::done
  cleaned,    \* ImportJob::cleaned_up
  store,      \* the state of each file in the Store
  bytes,      \* FileData::approximate_bytes
  paths,      \* files in paths
  frozen,     \* files in frozen: ready to be queried
  told,       \* final events sent about each file
  doing       \* the call each user is in

taskVars == <<pc, plugin, tries, outcome>>
jobVars  == <<jobs, cancelled, done, cleaned>>
dataVars == <<store, bytes, paths, frozen, index>>
vars == <<taskVars, jobVars, dataVars, told, doing>>

Idle == [op |-> "none", file |-> Nobody]

\* The awaits in which a plugin may keep an import for longer than 10 seconds.
Slow == { "loading", "schema", "parsing" }

\* From the plugin lock to the end of import_one, which drops it.
Holding == { "session", "indexing", "registering", "pathing", "freezing", "gate",
             "budget", "ready", "failing", "bailing", "finish", "cleanup" } \cup Slow

PC == { "new", "matching", "locking", "done" } \cup Holding

TypeOK ==
  /\ pc \in [Files -> PC]
  /\ plugin \in [Files -> Plugins \cup {Nobody}]
  /\ tries \in [Files -> 0 .. LoadAttempts]
  /\ outcome \in [Files -> {"none", "ready", "choice", "error", "cancelled"}]
  /\ index \subseteq Files /\ jobs \subseteq Files
  /\ cancelled \subseteq Files /\ done \subseteq Files /\ cleaned \subseteq Files
  /\ store \in [Files -> {"none", "open", "frozen"}]
  /\ bytes \in [Files -> 0 .. FileBytes]
  /\ paths \subseteq Files /\ frozen \subseteq Files
  /\ told \in [Files -> SUBSET {"failed", "completed", "cancelled", "unloaded"}]
  /\ doing \in [Users -> [op : {"cancel", "overdue", "unload"}, file : Files] \cup {Idle}]

Init ==
  /\ pc = [f \in Files |-> "new"]
  /\ plugin = [f \in Files |-> Nobody]
  /\ tries = [f \in Files |-> 0]
  /\ outcome = [f \in Files |-> "none"]
  /\ index = {} /\ jobs = {} /\ cancelled = {} /\ done = {} /\ cleaned = {}
  /\ store = [f \in Files |-> "none"] /\ bytes = [f \in Files |-> 0]
  /\ paths = {} /\ frozen = {}
  /\ told = [f \in Files |-> {}]
  /\ doing = [u \in Users |-> Idle]

-----------------------------------------------------------------------------
Goto(f, l) == pc' = [pc EXCEPT ![f] = l]

\* import_one returns before a job exists.
Return(f, r) ==
  /\ Goto(f, "done")
  /\ outcome' = [outcome EXCEPT ![f] = r]

\* import_one is going to return r through finish_job.
Leave(f, l, r) ==
  /\ Goto(f, l)
  /\ outcome' = [outcome EXCEPT ![f] = r]

Tell(f, e) == told' = [told EXCEPT ![f] = @ \cup {e}]

\* discard_job_state: the file is gone from every map of the coordinator.
Discard(f) ==
  /\ store' = [store EXCEPT ![f] = "none"]
  /\ bytes' = [bytes EXCEPT ![f] = 0]
  /\ frozen' = frozen \ {f}
  /\ paths' = paths \ {f}
  /\ index' = index \ {f}

\* A step of the import failed.  An import that was cancelled leaves silently.
GiveIn(f) == IF f \in cancelled THEN Leave(f, "bailing", "cancelled")
                                ELSE Leave(f, "failing", "error")

\* Store::memory_bytes
Memory(files) == MapThenSumSet(LAMBDA f : bytes[f], files)

-----------------------------------------------------------------------------
(* import_one *)

\* The limit on loaded files is looked at before anything is awaited.
CheckLimit(f) ==
  /\ pc[f] = "new"
  /\ IF Cardinality(index) >= MaxLoaded
     THEN Return(f, "error")
     ELSE Goto(f, "matching") /\ UNCHANGED outcome
  /\ UNCHANGED <<plugin, tries, jobVars, dataVars, told, doing>>

\* The head of the file cannot be read, or it is too large.
ReadFails(f) ==
  /\ pc[f] = "matching"
  /\ Return(f, "error")
  /\ UNCHANGED <<plugin, tries, jobVars, dataVars, told, doing>>

\* No plugin is confident enough: the user is asked, nothing is kept.
NeedsChoice(f) ==
  /\ pc[f] = "matching"
  /\ Return(f, "choice")
  /\ UNCHANGED <<plugin, tries, jobVars, dataVars, told, doing>>

\* The matcher, or the user's override, names a plugin.
Choose(f, p) ==
  /\ pc[f] = "matching"
  /\ plugin' = [plugin EXCEPT ![f] = p]
  /\ Goto(f, "locking")
  /\ UNCHANGED <<tries, outcome, jobVars, dataVars, told, doing>>

\* One load and parse at a time per plugin.
TakeLock(f) ==
  /\ pc[f] = "locking"
  /\ \A g \in Files : plugin[g] = plugin[f] => pc[g] \notin Holding
  /\ Goto(f, "session")
  /\ UNCHANGED <<plugin, tries, outcome, jobVars, dataVars, told, doing>>

EnsureSession(f) ==
  /\ pc[f] = "session"
  /\ \/ Goto(f, "indexing") /\ UNCHANGED outcome
     \/ Return(f, "error")
  /\ UNCHANGED <<plugin, tries, jobVars, dataVars, told, doing>>

InsertIndex(f) ==
  /\ pc[f] = "indexing"
  /\ index' = index \cup {f}
  /\ Goto(f, "registering")
  /\ UNCHANGED <<plugin, tries, outcome, jobVars, store, bytes, paths, frozen, told, doing>>

RegisterJob(f) ==
  /\ pc[f] = "registering"
  /\ jobs' = jobs \cup {f}
  /\ Goto(f, "loading")
  /\ UNCHANGED <<plugin, tries, outcome, cancelled, done, cleaned, dataVars, told, doing>>

Loaded(f) ==
  /\ pc[f] = "loading"
  /\ Goto(f, "schema")
  /\ UNCHANGED <<plugin, tries, outcome, jobVars, dataVars, told, doing>>

\* An attempt failed; the next one starts after its backoff, if one is left.
LoadFails(f) ==
  /\ pc[f] = "loading"
  /\ tries' = [tries EXCEPT ![f] = @ + 1]
  /\ IF f \notin cancelled /\ tries'[f] < LoadAttempts
     THEN UNCHANGED <<pc, outcome, index, told>>
     ELSE IF f \in cancelled
     THEN Leave(f, "bailing", "cancelled") /\ UNCHANGED <<index, told>>
     ELSE Leave(f, "finish", "error") /\ Tell(f, "failed") /\ index' = index \ {f}
  /\ UNCHANGED <<plugin, jobVars, store, bytes, paths, frozen, doing>>

SchemaFails(f) ==
  /\ pc[f] = "schema"
  /\ GiveIn(f)
  /\ IF f \in cancelled THEN UNCHANGED told ELSE Tell(f, "failed")
  /\ UNCHANGED <<plugin, tries, jobVars, dataVars, doing>>

\* The schema is cached and the file registered in the store, cancelled or not.
RegisterStore(f) ==
  /\ pc[f] = "schema"
  /\ store' = [store EXCEPT ![f] = "open"]
  /\ Goto(f, "pathing")
  /\ UNCHANGED <<plugin, tries, outcome, jobVars, bytes, paths, frozen, index, told, doing>>

InsertPath(f) ==
  /\ pc[f] = "pathing"
  /\ paths' = paths \cup {f}
  /\ Goto(f, "parsing")
  /\ UNCHANGED <<plugin, tries, outcome, jobVars, store, bytes, frozen, index, told, doing>>

\* The sink task appends a batch.
Append(f) ==
  /\ pc[f] = "parsing" /\ store[f] = "open" /\ bytes[f] < FileBytes
  /\ bytes' = [bytes EXCEPT ![f] = @ + 1]
  /\ UNCHANGED <<taskVars, jobVars, store, paths, frozen, index, told, doing>>

\* Mutant: an error of the parse is reported even after a cancel.
ParseFailsLoudly(f) ==
  /\ pc[f] = "parsing"
  /\ Leave(f, "failing", "error")
  /\ UNCHANGED <<plugin, tries, jobVars, dataVars, told, doing>>

\* parse failed, a batch was refused by the store, or batches were lost.
ParseFails(f) ==
  /\ pc[f] = "parsing"
  /\ GiveIn(f)
  /\ UNCHANGED <<plugin, tries, jobVars, dataVars, told, doing>>

Parsed(f) ==
  /\ pc[f] = "parsing"
  /\ Goto(f, "freezing")
  /\ UNCHANGED <<plugin, tries, outcome, jobVars, dataVars, told, doing>>

\* Store::freeze finds the file, unless it was discarded meanwhile.
Freeze(f) ==
  /\ pc[f] = "freezing"
  /\ IF store[f] = "open"
     THEN /\ store' = [store EXCEPT ![f] = "frozen"]
          /\ Goto(f, "gate") /\ UNCHANGED outcome
     ELSE GiveIn(f) /\ UNCHANGED store
  /\ UNCHANGED <<plugin, tries, jobVars, bytes, paths, frozen, index, told, doing>>

\* The last look at the cancelled flag.
Gate(f) ==
  /\ pc[f] = "gate"
  /\ IF f \in cancelled
     THEN Leave(f, "bailing", "cancelled") /\ frozen' = frozen \ {f}
     ELSE Goto(f, "budget") /\ UNCHANGED <<outcome, frozen>>
  /\ UNCHANGED <<plugin, tries, jobVars, store, bytes, paths, index, told, doing>>

\* Mutant: the budget is compared with the file's own memory.
CheckOwnBytes(f) ==
  /\ pc[f] = "budget"
  /\ IF bytes[f] > Budget
     THEN Leave(f, "failing", "error")
     ELSE Goto(f, "ready") /\ UNCHANGED outcome
  /\ UNCHANGED <<plugin, tries, jobVars, dataVars, told, doing>>

\* The memory of all files, with this one frozen, is within the budget.
CheckBudget(f) ==
  /\ pc[f] = "budget"
  /\ IF Memory(Files) > Budget
     THEN Leave(f, "failing", "error")
     ELSE Goto(f, "ready") /\ UNCHANGED outcome
  /\ UNCHANGED <<plugin, tries, jobVars, dataVars, told, doing>>

Ready(f) ==
  /\ pc[f] = "ready"
  /\ frozen' = frozen \cup {f}
  /\ Tell(f, "completed")
  /\ Leave(f, "finish", "ready")
  /\ UNCHANGED <<plugin, tries, jobVars, store, bytes, paths, index, doing>>

\* Mutant: a failed import keeps its data.
FailKeepsData(f) ==
  /\ pc[f] = "failing"
  /\ index' = index \ {f}
  /\ Tell(f, "failed")
  /\ Goto(f, "finish")
  /\ UNCHANGED <<plugin, tries, outcome, jobVars, store, bytes, paths, frozen, doing>>

\* The plugin was told to unload the file (3 seconds at most).
Fail(f) ==
  /\ pc[f] = "failing"
  /\ store' = [store EXCEPT ![f] = "none"]
  /\ bytes' = [bytes EXCEPT ![f] = 0]
  /\ paths' = paths \ {f}
  /\ index' = index \ {f}
  /\ Tell(f, "failed")
  /\ Goto(f, "finish")
  /\ UNCHANGED <<plugin, tries, outcome, jobVars, frozen, doing>>

\* Mutant: a cancelled import waits for its canceller, which waits for it.
BailWaits(f) ==
  /\ pc[f] = "bailing" /\ \A u \in Users : doing[u].file # f
  /\ Goto(f, "finish")
  /\ UNCHANGED <<plugin, tries, outcome, jobVars, dataVars, told, doing>>

\* bail_cancelled, after the plugin was told to unload the file.
Bail(f) ==
  /\ pc[f] = "bailing"
  /\ Goto(f, "finish")
  /\ UNCHANGED <<plugin, tries, outcome, jobVars, dataVars, told, doing>>

\* Mutant: the job of an import that failed is not finished.
FinishOnlyGood(f) ==
  /\ pc[f] = "finish"
  /\ IF outcome[f] = "error"
     THEN UNCHANGED <<done, jobs>>
     ELSE done' = done \cup {f} /\ jobs' = jobs \ {f}
  /\ Goto(f, "cleanup")
  /\ UNCHANGED <<plugin, tries, outcome, cancelled, cleaned, dataVars, told, doing>>

\* finish_job: whoever waits is told, and the job is gone ...
FinishJob(f) ==
  /\ pc[f] = "finish"
  /\ done' = done \cup {f}
  /\ jobs' = jobs \ {f}
  /\ Goto(f, "cleanup")
  /\ UNCHANGED <<plugin, tries, outcome, cancelled, cleaned, dataVars, told, doing>>

\* Mutant: finish_job leaves the clean-up to whoever cancelled.
CleanUpNothing(f) ==
  /\ pc[f] = "cleanup"
  /\ Goto(f, "done")
  /\ UNCHANGED <<plugin, tries, outcome, jobVars, dataVars, told, doing>>

\* ... and a cancelled import is discarded, unless cancel_parse has done so.
CleanUp(f) ==
  /\ pc[f] = "cleanup"
  /\ Goto(f, "done")
  /\ IF f \in cancelled \ cleaned
     THEN cleaned' = cleaned \cup {f} /\ Discard(f)
     ELSE UNCHANGED <<cleaned, dataVars>>
  /\ UNCHANGED <<plugin, tries, outcome, jobs, cancelled, done, told, doing>>

Import(f) ==
  \/ CheckLimit(f) \/ ReadFails(f) \/ NeedsChoice(f) \/ \E p \in Plugins : Choose(f, p)
  \/ TakeLock(f) \/ EnsureSession(f) \/ InsertIndex(f) \/ RegisterJob(f)
  \/ Loaded(f) \/ LoadFails(f) \/ SchemaFails(f) \/ RegisterStore(f) \/ InsertPath(f)
  \/ ParseFails(f) \/ Parsed(f) \/ Freeze(f) \/ Gate(f) \/ CheckBudget(f) \/ Ready(f)
  \/ Fail(f) \/ Bail(f) \/ FinishJob(f) \/ CleanUp(f)

-----------------------------------------------------------------------------
(* cancel_parse and unload_file *)

Begin(u, o, f) == doing' = [doing EXCEPT ![u] = [op |-> o, file |-> f]]
End(u) == doing' = [doing EXCEPT ![u] = Idle]

\* Without an active job cancel_parse returns at once.
BeginCancel(u, f) ==
  /\ doing[u] = Idle /\ f \in jobs
  /\ cancelled' = cancelled \cup {f}
  /\ Begin(u, "cancel", f)
  /\ UNCHANGED <<taskVars, jobs, done, cleaned, dataVars, told>>

\* The 10 seconds cancel_parse waits for the import are over, which takes a
\* plugin call that holds the import up: elsewhere it waits 3 seconds at most.
CancelTimesOut(u, f) ==
  /\ doing[u] = [op |-> "cancel", file |-> f] /\ pc[f] \in Slow
  /\ Begin(u, "overdue", f)
  /\ UNCHANGED <<taskVars, jobVars, dataVars, told>>

\* The import has finished, or is waited for no longer.
EndCancel(u, f) ==
  /\ doing[u].file = f
  /\ doing[u].op = "overdue" \/ (doing[u].op = "cancel" /\ f \in done)
  /\ cleaned' = cleaned \cup {f}
  /\ IF f \in cleaned THEN UNCHANGED dataVars ELSE Discard(f)
  /\ jobs' = jobs \ {f}
  /\ Tell(f, "cancelled")
  /\ End(u)
  /\ UNCHANGED <<taskVars, cancelled, done>>

\* unload_file finds the file in the index; its job, if any, is cancelled.
BeginUnload(u, f) ==
  /\ doing[u] = Idle /\ f \in index
  /\ EarlyUnload \/ pc[f] # "registering"
  /\ cancelled' = IF f \in jobs THEN cancelled \cup {f} ELSE cancelled
  /\ jobs' = jobs \ {f}
  /\ Begin(u, "unload", f)
  /\ UNCHANGED <<taskVars, done, cleaned, dataVars, told>>

\* The plugin answered, or its 3 seconds are over.
EndUnload(u, f) ==
  /\ doing[u] = [op |-> "unload", file |-> f]
  /\ Discard(f)
  /\ Tell(f, "unloaded")
  /\ End(u)
  /\ UNCHANGED <<taskVars, jobVars>>

Next ==
  \/ \E f \in Files : Import(f) \/ Append(f)
  \/ \E u \in Users, f \in Files :
       BeginCancel(u, f) \/ EndCancel(u, f) \/ CancelTimesOut(u, f)
       \/ BeginUnload(u, f) \/ EndUnload(u, f)

Spec == Init /\ [][Next]_vars

(***************************************************************************)
(* The import tasks run: every plugin call in them returns or times out,   *)
(* and the plugin lock is a fair mutex.  Users end the calls they are in.  *)
(* Nothing is assumed of cancel_parse's own timeout.                       *)
(***************************************************************************)
FairSpec ==
  /\ Spec
  /\ \A f \in Files : WF_vars(Import(f))
  /\ \A u \in Users : WF_vars(\E f \in Files : EndCancel(u, f) \/ EndUnload(u, f))

-----------------------------------------------------------------------------
(* Properties *)

Nothing(f) == store[f] = "none" /\ f \notin frozen /\ f \notin paths /\ f \notin index

(***************************************************************************)
(* A file the queries accept has its data: whatever cancels and unloads    *)
(* raced with the import, an entry of `frozen` never outlives the store's. *)
(***************************************************************************)
ReadyHasData ==
  \A f \in Files : pc[f] = "done" /\ f \in frozen => store[f] = "frozen" /\ f \in paths

(***************************************************************************)
(* A file in the listing is being imported or is ready: no import, however *)
(* it ends, leaves an entry that is shown as "parsing" for ever.           *)
(***************************************************************************)
ListedIsReady ==
  \A f \in Files : pc[f] = "done" /\ f \in index => f \in frozen

\* The listing, the queries and the store agree on a file whose import is over.
MapsAgree == ReadyHasData /\ ListedIsReady

(***************************************************************************)
(* An import that failed leaves nothing behind, whoever tried to cancel or *)
(* unload it meanwhile: no data counts against the memory budget.          *)
(***************************************************************************)
FailureLeavesNothing ==
  \A f \in Files : pc[f] = "done" /\ outcome[f] = "error" => Nothing(f)

\* The ready files together fit the memory budget, although each import looks
\* at it after its own freeze and without a lock (pipeline_bridge.rs:1311).
BudgetHolds == Memory(frozen) <= Budget

(***************************************************************************)
(* ParseCancelled is the import's last word: no ParseCompleted and no      *)
(* ParseFailed follows it (C2.2 rules 3 and 5).                            *)
(***************************************************************************)
CancelIsLast ==
  [][\A f \in Files : "cancelled" \in told[f] => told'[f] \subseteq told[f] \cup {"unloaded"}]_vars

\* Every import ends, however its plugin behaves.
ImportEnds == \A f \in Files : pc[f] # "new" ~> pc[f] = "done"

\* cancel_parse and unload_file return; cancel_parse not because its own timeout
\* elapsed: every exit of import_one after register_job passes finish_job.
CallsReturn == \A u \in Users : doing[u] # Idle ~> doing[u] = Idle

-----------------------------------------------------------------------------
(* Statements of the code's comments that the code refutes. *)

\* pipeline_bridge.rs:290, 558-561: one party discards the half-read file, so
\* nothing of it is left once ParseCancelled was sent.
CancelledIsDiscarded ==
  \A f \in Files : pc[f] = "done" /\ "cancelled" \in told[f] => Nothing(f)

-----------------------------------------------------------------------------
(* The inductive invariant behind the safety properties. *)

\* Before register_job.
Early == { "new", "matching", "locking", "session", "indexing", "registering" }

\* finish_job has begun: the outcome is settled.
Past == { "finish", "cleanup", "done" }

Overdue(f) == \E u \in Users : doing[u] = [op |-> "overdue", file |-> f]

\* While load_file is still to be called, an attempt is left.
TriesInv == \A f \in Files : pc[f] \in Early \cup {"loading"} => tries[f] < LoadAttempts

\* Before it has a job nobody can cancel an import, and it has no data.
EarlyInv ==
  \A f \in Files : pc[f] \in Early =>
    /\ f \notin jobs \cup cancelled \cup done \cup cleaned \cup paths \cup frozen
    /\ store[f] = "none" /\ told[f] = {} /\ outcome[f] = "none"
    /\ f \in index <=> pc[f] = "registering"
    /\ \A u \in Users : doing[u].file # f

\* A job is registered from then to finish_job, unless the import is cancelled,
\* so that whoever is at the file has cancelled it.
JobInv ==
  \A f \in Files :
    /\ f \in jobs => pc[f] \notin Early \cup {"cleanup", "done"}
    /\ f \in done => pc[f] \in {"cleanup", "done"}
    /\ pc[f] \notin Early \cup {"cleanup", "done"} /\ f \notin cancelled =>
         f \in jobs /\ \A u \in Users : doing[u].file # f

\* A canceller that cleans up before the import has finished was overdue, so the
\* import is going to see its flag; and what was cleaned is not listed again.
CancelInv ==
  \A f \in Files :
    /\ \A u \in Users : doing[u].file = f /\ doing[u].op # "unload" => f \in cancelled
    /\ f \in cleaned \/ Overdue(f) =>
         /\ f \in cancelled
         /\ \/ pc[f] \in {"cleanup", "done"}
            \/ pc[f] \notin {"budget", "ready", "failing"} /\ outcome[f] \notin {"ready", "error"}
    /\ "cancelled" \in told[f] => f \in cleaned
    /\ f \in cleaned => f \notin index /\ f \notin frozen
    /\ pc[f] = "done" /\ f \in cancelled => f \notin index /\ f \notin frozen

\* What the import has put into the maps at each stage, if it is not cancelled.
DataInv ==
  \A f \in Files :
    /\ f \in frozen => pc[f] \in Past
    /\ pc[f] \in {"loading", "schema"} => store[f] = "none" /\ f \notin paths
    /\ f \notin cancelled =>
         /\ pc[f] \in {"pathing", "parsing", "freezing"} => store[f] = "open"
         /\ pc[f] \in {"gate", "budget", "ready"} \/ f \in frozen => store[f] = "frozen"
         /\ pc[f] \in {"parsing", "freezing", "gate", "budget", "ready"} \/ f \in frozen
              => f \in paths

\* What each outcome leaves behind.
OutcomeInv ==
  \A f \in Files :
    /\ outcome[f] = "none" <=> pc[f] \notin Past \cup {"failing", "bailing"}
    /\ pc[f] = "failing" => outcome[f] = "error"
    /\ pc[f] = "bailing" => outcome[f] = "cancelled"
    /\ outcome[f] = "cancelled" => f \in cancelled
    /\ pc[f] \in Past /\ outcome[f] \in {"error", "choice"} => Nothing(f)
    /\ outcome[f] = "ready" /\ f \in index => f \in frozen

\* A file that passed the check of the budget does not grow any more, and counts
\* from there on.  This part needs none of the others.
BudgetInv ==
  /\ \A f \in frozen : pc[f] \in Past
  /\ Memory(frozen \cup {f \in Files : pc[f] = "ready"}) <= Budget

IInv == TypeOK /\ TriesInv /\ EarlyInv /\ JobInv /\ CancelInv /\ DataInv /\ OutcomeInv
=============================================================================
