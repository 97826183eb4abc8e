------------------------------ MODULE ImportJobs ------------------------------
(***************************************************************************)
(* The import jobs of ab-server (core/ab-server/src/jobs.rs) with the      *)
(* routes that make, read and cancel them (routes.rs): a request becomes a *)
(* job, the job's task waits for a permit, imports its paths one by one    *)
(* and looks at its cancel flag between two of them.                       *)
(*                                                                         *)
(* A job made by an upload owns the copy of the file the server has        *)
(* written; that copy has to go when the job ends.  A crash of the server  *)
(* leaves copies behind, which the next start-up sweeps.                   *)
(***************************************************************************)
EXTENDS Naturals, FiniteSets

CONSTANTS
  Jobs,           \* requests for an import, each a job id once accepted
  Clients,        \* clients that cancel jobs
  Paths,          \* number of paths of a job that names paths
  MaxConcurrent,  \* --max-concurrent-imports
  MaxLoaded,      \* --max-loaded-files
  Quota,          \* --upload-quota-mb, in units of one uploaded file
  NoJob

ASSUME JobsAssumption  == NoJob \notin Jobs /\ IsFiniteSet(Jobs)
ASSUME CountAssumption == /\ Paths \in Nat \ {0} /\ MaxConcurrent \in Nat \ {0}
                          /\ MaxLoaded \in Nat /\ Quota \in Nat

VARIABLES
  request,   \* where the handler of each request is
  uploads,   \* the requests that upload a file; the others name paths
  jstate,    \* Job::state as GET /imports/{id} shows it, "none" before the job exists
  flags,     \* jobs with an entry in cancel_flags
  raised,    \* jobs whose cancel flag is set
  task,      \* where run_import is
  left,      \* paths it has not started
  fault,     \* jobs whose loop ended by an error
  keep,      \* jobs with a file that needs the user's choice
  outcome,   \* the final state run_import has decided on
  inflight,  \* inflight_paths
  permits,   \* free permits of the semaphore
  late,      \* imports started after the flag was set
  copies,    \* upload copies on disk, by the job they were made for
  stale,     \* whether copies of an earlier process are on disk
  uploaded,  \* uploaded_bytes
  loaded,    \* files the coordinator has loaded
  cancels    \* where each client's cancel is: its step and its job

requestVars == <<request, uploads, uploaded>>
shownVars   == <<jstate, flags, raised>>
loopVars    == <<left, fault, keep, late>>
taskVars    == <<task, loopVars, outcome, permits, inflight>>
worldVars   == <<stale, loaded>>
vars == <<requestVars, shownVars, taskVars, copies, cancels, worldVars>>

Final == {"completed", "failed", "cancelled"}
JobState == {"none", "queued", "running"} \cup Final

TypeOK ==
  /\ request \in [Jobs -> {"new", "saved", "over", "refused", "accepted"}]
  /\ jstate \in [Jobs -> JobState]
  /\ flags \subseteq Jobs /\ raised \subseteq Jobs
  /\ task \in [Jobs -> {"none", "queued", "starting", "next", "taken", "importing", "leaving",
                        "finishing", "done"}]
  /\ left \in [Jobs -> Nat] /\ late \in [Jobs -> Nat]
  /\ fault \subseteq Jobs /\ keep \subseteq Jobs /\ inflight \subseteq Jobs
  /\ outcome \in [Jobs -> Final \cup {"none"}]
  /\ permits \in Nat /\ uploaded \in Nat /\ loaded \in Nat
  /\ uploads \subseteq Jobs /\ copies \subseteq Jobs /\ stale \in BOOLEAN
  /\ cancels \in [Clients -> [at : {"idle", "taken", "flagged"}, job : Jobs \cup {NoJob}]]

\* What a process starts with: no job, all permits, nothing loaded or uploaded.
Fresh ==
  /\ request = [j \in Jobs |-> "new"] /\ jstate = [j \in Jobs |-> "none"]
  /\ flags = {} /\ raised = {} /\ fault = {} /\ keep = {} /\ inflight = {}
  /\ task = [j \in Jobs |-> "none"] /\ left = [j \in Jobs |-> 0]
  /\ late = [j \in Jobs |-> 0] /\ outcome = [j \in Jobs |-> "none"]
  /\ permits = MaxConcurrent /\ uploaded = 0 /\ loaded = 0
  /\ copies = {} /\ uploads = {}
  /\ cancels = [c \in Clients |-> [at |-> "idle", job |-> NoJob]]

Init == Fresh /\ stale = FALSE

-----------------------------------------------------------------------------
(* Requests *)

\* spawn_import: the job is queued, its flag listed, its task spawned.
SpawnImport(j, n) ==
  /\ request' = [request EXCEPT ![j] = "accepted"]
  /\ jstate' = [jstate EXCEPT ![j] = "queued"]
  /\ flags' = flags \cup {j}
  /\ task' = [task EXCEPT ![j] = "queued"] /\ left' = [left EXCEPT ![j] = n]
  /\ UNCHANGED <<raised, fault, keep, late, outcome, permits, inflight, cancels, worldVars>>

Refuse(j) ==
  /\ request' = [request EXCEPT ![j] = "refused"]
  /\ UNCHANGED <<shownVars, taskVars, cancels, worldVars>>

\* POST /imports.  All paths blank, or one outside the import roots: refused.
CreateImport(j) ==
  /\ request[j] = "new"
  /\ \/ SpawnImport(j, Paths)
     \/ Refuse(j)
  /\ UNCHANGED <<uploads, uploaded, copies>>

\* POST /imports/upload: the form is read and the copy written.  The handler's
\* future may be dropped while the blocking task writes: the copy appears all
\* the same, without anyone to own it.
SaveUpload(j) ==
  /\ request[j] = "new"
  /\ copies' = copies \cup {j} /\ uploads' = uploads \cup {j}
  /\ \E r \in {"saved", "refused"} : request' = [request EXCEPT ![j] = r]
  /\ UNCHANGED <<shownVars, taskVars, uploaded, cancels, worldVars>>

\* The copy's own path is outside the import roots.
UploadForbidden(j) ==
  /\ request[j] = "saved" /\ Refuse(j)
  /\ copies' = copies \ {j} /\ UNCHANGED <<uploads, uploaded>>

LimitReached == loaded + 1 > MaxLoaded

\* check_file_limit fails: an early return that leaves the copy where it is.
UploadLimited(j) ==
  /\ request[j] = "saved" /\ LimitReached /\ Refuse(j)
  /\ UNCHANGED <<copies, uploads, uploaded>>

\* fetch_add on the counter.  Within the quota the job is spawned at once.
UploadCounted(j) ==
  /\ request[j] = "saved" /\ ~LimitReached
  /\ uploaded' = uploaded + 1
  /\ \/ uploaded' <= Quota /\ SpawnImport(j, 1)
     \/ /\ uploaded' > Quota /\ request' = [request EXCEPT ![j] = "over"]
        /\ UNCHANGED <<shownVars, taskVars, cancels, worldVars>>
  /\ UNCHANGED <<copies, uploads>>

\* Mutant: a refused upload stays counted.
UploadOverCounted(j) ==
  /\ request[j] = "over" /\ Refuse(j)
  /\ UNCHANGED <<uploaded, copies, uploads>>

\* Over the quota: fetch_sub and an early return, again without the copy.
UploadOver(j) ==
  /\ request[j] = "over" /\ Refuse(j)
  /\ uploaded' = uploaded - 1
  /\ UNCHANGED <<copies, uploads>>

-----------------------------------------------------------------------------
(* run_import *)

At(j, l) == task[j] = l
Goto(j, l) == task' = [task EXCEPT ![j] = l]

\* The permit comes and the flag is not set; the state still says queued.
AcquirePermit(j) ==
  /\ At(j, "queued") /\ permits > 0 /\ j \notin raised
  /\ permits' = permits - 1 /\ Goto(j, "starting")
  /\ UNCHANGED <<requestVars, shownVars, loopVars, outcome, inflight, copies, cancels, worldVars>>

\* Mutant: the copy of a job cancelled in the queue stays.
CancelledKeepsCopy(j) ==
  /\ At(j, "queued") /\ permits > 0 /\ j \in raised
  /\ outcome' = [outcome EXCEPT ![j] = "cancelled"] /\ Goto(j, "finishing")
  /\ UNCHANGED <<requestVars, shownVars, loopVars, permits, inflight, copies, cancels, worldVars>>

\* Cancelled while it waited: the permit goes straight back, the copy away.
CancelledInQueue(j) ==
  /\ At(j, "queued") /\ permits > 0 /\ j \in raised
  /\ copies' = copies \ {j}
  /\ outcome' = [outcome EXCEPT ![j] = "cancelled"] /\ Goto(j, "finishing")
  /\ UNCHANGED <<requestVars, shownVars, loopVars, permits, inflight, cancels, worldVars>>

\* Mutant: the state is set whatever a cancel has made of it.
MarkRunningBlindly(j) ==
  /\ At(j, "starting") /\ Goto(j, "next")
  /\ jstate' = [jstate EXCEPT ![j] = "running"]
  /\ UNCHANGED <<requestVars, flags, raised, loopVars, outcome, permits, inflight, copies,
                 cancels, worldVars>>

MarkRunning(j) ==
  /\ At(j, "starting") /\ Goto(j, "next")
  /\ jstate' = [jstate EXCEPT ![j] = IF @ = "queued" THEN "running" ELSE @]
  /\ UNCHANGED <<requestVars, flags, raised, loopVars, outcome, permits, inflight, copies,
                 cancels, worldVars>>

\* The head of the loop: no path left, or the flag is set.
LeaveLoop(j) ==
  /\ At(j, "next") /\ (left[j] = 0 \/ j \in raised) /\ Goto(j, "leaving")
  /\ UNCHANGED <<requestVars, shownVars, loopVars, outcome, permits, inflight, copies, cancels,
                 worldVars>>

\* Mutant: the flag is not looked at between two paths.
TakeAnyPath(j) ==
  /\ At(j, "next") /\ left[j] > 0
  /\ left' = [left EXCEPT ![j] = @ - 1] /\ Goto(j, "taken")
  /\ UNCHANGED <<requestVars, shownVars, fault, keep, late, outcome, permits, inflight, copies,
                 cancels, worldVars>>

\* Otherwise the next path; a cancel may come before it is in flight.
TakePath(j) ==
  /\ At(j, "next") /\ left[j] > 0 /\ j \notin raised
  /\ left' = [left EXCEPT ![j] = @ - 1] /\ Goto(j, "taken")
  /\ UNCHANGED <<requestVars, shownVars, fault, keep, late, outcome, permits, inflight, copies,
                 cancels, worldVars>>

StartImport(j) ==
  /\ At(j, "taken") /\ Goto(j, "importing")
  /\ inflight' = inflight \cup {j}
  /\ late' = [late EXCEPT ![j] = IF j \in raised THEN @ + 1 ELSE @]
  /\ UNCHANGED <<requestVars, shownVars, left, fault, keep, outcome, permits, copies, cancels,
                 worldVars>>

\* import_files_logic returns.  A file that fails or is cancelled is a result
\* like any other; only a blank path is an error of the call.
ImportReturns(j) ==
  /\ At(j, "importing") /\ inflight' = inflight \ {j}
  /\ \/ loaded' = loaded + 1 /\ Goto(j, "next") /\ UNCHANGED <<fault, keep>>
     \/ Goto(j, "next") /\ UNCHANGED <<loaded, fault, keep>>
     \/ keep' = keep \cup {j} /\ Goto(j, "next") /\ UNCHANGED <<loaded, fault>>
     \/ /\ j \notin uploads
        /\ fault' = fault \cup {j} /\ Goto(j, "leaving") /\ UNCHANGED <<loaded, keep>>
  /\ UNCHANGED <<requestVars, shownVars, left, late, outcome, permits, copies, cancels, stale>>

Verdict(j) == IF j \in fault THEN "failed"
              ELSE IF j \in raised THEN "cancelled"
              ELSE "completed"

\* Mutant: the permit is kept.
ConcludeHolding(j) ==
  /\ At(j, "leaving") /\ Goto(j, "finishing")
  /\ outcome' = [outcome EXCEPT ![j] = Verdict(j)]
  /\ copies' = IF j \in keep THEN copies ELSE copies \ {j}
  /\ UNCHANGED <<requestVars, shownVars, loopVars, permits, inflight, cancels, worldVars>>

\* The permit is dropped, the final state decided, the copy deleted unless a
\* file waits for the user's choice.
Conclude(j) ==
  /\ At(j, "leaving") /\ Goto(j, "finishing")
  /\ permits' = permits + 1
  /\ outcome' = [outcome EXCEPT ![j] = Verdict(j)]
  /\ copies' = IF j \in keep THEN copies ELSE copies \ {j}
  /\ UNCHANGED <<requestVars, shownVars, loopVars, inflight, cancels, worldVars>>

\* finish: what a client has seen cancelled stays so.
Finish(j) ==
  /\ At(j, "finishing") /\ Goto(j, "done")
  /\ jstate' = [jstate EXCEPT ![j] =
                  IF @ # "cancelled" \/ outcome[j] = "cancelled" THEN outcome[j] ELSE @]
  /\ flags' = flags \ {j}
  /\ UNCHANGED <<requestVars, raised, loopVars, outcome, permits, inflight, copies, cancels,
                 worldVars>>

-----------------------------------------------------------------------------
(* DELETE /imports/{job_id} *)

Cancel(c, l, j) == cancels' = [cancels EXCEPT ![c] = [at |-> l, job |-> j]]

\* take_inflight_path: who takes the path will interrupt that file's parse.
TakeInflight(c, j) ==
  /\ cancels[c].at = "idle" /\ request[j] = "accepted"
  /\ Cancel(c, "taken", j)
  /\ inflight' = inflight \ {j}
  /\ UNCHANGED <<requestVars, shownVars, task, loopVars, outcome, permits, copies, worldVars>>

\* JobRegistry::cancel, first lock: a job that has ended has no flag.
RaiseFlag(c) ==
  /\ cancels[c].at = "taken" /\ Cancel(c, "flagged", cancels[c].job)
  /\ raised' = raised \cup (flags \cap {cancels[c].job})
  /\ UNCHANGED <<requestVars, jstate, flags, taskVars, copies, worldVars>>

\* Second lock: a queued job is cancelled in place; the snapshot is the answer.
FlipQueued(c) ==
  /\ cancels[c].at = "flagged" /\ Cancel(c, "idle", NoJob)
  /\ jstate' = [jstate EXCEPT ![cancels[c].job] = IF @ = "queued" THEN "cancelled" ELSE @]
  /\ UNCHANGED <<requestVars, flags, raised, taskVars, copies, worldVars>>

-----------------------------------------------------------------------------
(* The world *)

\* DELETE /files/{file_id}
UnloadFile ==
  /\ loaded > 0 /\ loaded' = loaded - 1
  /\ UNCHANGED <<requestVars, shownVars, taskVars, copies, cancels, stale>>

\* The server is killed and started again.  sweep_stale_uploads removes the
\* copies of processes that are gone; those of a pid in use, its own
\* included, it takes for somebody's.
Restart ==
  /\ request' = [j \in Jobs |-> "new"] /\ jstate' = [j \in Jobs |-> "none"]
  /\ flags' = {} /\ raised' = {} /\ fault' = {} /\ keep' = {} /\ inflight' = {}
  /\ task' = [j \in Jobs |-> "none"] /\ left' = [j \in Jobs |-> 0]
  /\ late' = [j \in Jobs |-> 0] /\ outcome' = [j \in Jobs |-> "none"]
  /\ permits' = MaxConcurrent /\ uploaded' = 0 /\ loaded' = 0 /\ copies' = {}
  /\ uploads' = {}
  /\ cancels' = [c \in Clients |-> [at |-> "idle", job |-> NoJob]]
  /\ \E pidInUse \in BOOLEAN : stale' = (pidInUse /\ (stale \/ copies # {}))

-----------------------------------------------------------------------------
RunImport(j) ==
  \/ AcquirePermit(j) \/ CancelledInQueue(j) \/ MarkRunning(j) \/ LeaveLoop(j) \/ TakePath(j)
  \/ StartImport(j) \/ ImportReturns(j) \/ Conclude(j) \/ Finish(j)

Request(j) ==
  \/ CreateImport(j) \/ SaveUpload(j)
  \/ UploadForbidden(j) \/ UploadLimited(j) \/ UploadCounted(j) \/ UploadOver(j)

CancelJob(c) == (\E j \in Jobs : TakeInflight(c, j)) \/ RaiseFlag(c) \/ FlipQueued(c)

Next ==
  \/ \E j \in Jobs : RunImport(j) \/ Request(j)
  \/ \E c \in Clients : CancelJob(c)
  \/ UnloadFile \/ Restart

\* A spawned task is scheduled, and import_files_logic returns (ImportPipeline's
\* ImportEnds); nothing is asked of the clients.
Fairness == \A j \in Jobs : WF_vars(RunImport(j))

Spec == Init /\ [][Next]_vars /\ Fairness

-----------------------------------------------------------------------------
(* Properties *)

\* What GET /imports/{id} has once shown as final it shows for good: a cancel
\* that comes while the job starts, runs or finishes changes no final state,
\* and no late step of the task brings a cancelled job back to life.
FinalIsFinal ==
  [][\A j \in Jobs : jstate[j] \in Final /\ request'[j] = "accepted" => jstate'[j] = jstate[j]]_vars

\* A cancel lets at most the path the loop had already taken go on: no second
\* import starts after the flag was set, and none at all in a job the client
\* has seen cancelled in the queue.
CancelStopsSoon ==
  \A j \in Jobs : late[j] <= 1 /\ (jstate[j] = "cancelled" /\ j \in flags => late[j] = 0)

\* An upload's copy is on disk only while its handler or its job's task will
\* still look after it, because a file in it waits for the user's choice, or
\* because the request was refused after the copy was written (the early
\* returns of upload_import, which leave it to a later start-up's sweep).
CopiesAreOwned ==
  \A j \in copies : \/ request[j] \in {"saved", "over", "refused"}
                    \/ task[j] \notin {"finishing", "done"}
                    \/ j \in keep

Holding == {j \in Jobs : task[j] \in {"starting", "next", "taken", "importing", "leaving"}}
Accepted == {j \in uploads : request[j] = "accepted"}
Over == {j \in uploads : request[j] = "over"}

\* No more than --max-concurrent-imports jobs run, every other permit is free
\* for the next one, and the uploads accepted stay within the quota: neither a
\* cancel nor a refused upload leaks a permit or a byte.
LimitsHold ==
  /\ permits + Cardinality(Holding) = MaxConcurrent
  /\ Cardinality(Accepted) <= Quota
  /\ uploaded = Cardinality(Accepted) + Cardinality(Over)

\* Every job that is accepted ends, unless the server is killed first.
JobEnds == \A j \in Jobs : jstate[j] = "queued" ~> (jstate[j] \in Final \/ jstate[j] = "none")

-----------------------------------------------------------------------------
(* The inductive invariant *)

\* Which state a client can see beside each step of the task: a job that has
\* started is shown queued no longer, and its flag stays listed to the end.
ShownInv == \A j \in Jobs :
  /\ request[j] = "accepted" <=> task[j] # "none"
  /\ j \in flags <=> task[j] \notin {"none", "done"}
  /\ task[j] = "none" => jstate[j] = "none" /\ j \notin raised
  /\ task[j] \in {"queued", "starting"} => jstate[j] \in {"queued", "cancelled"}
  /\ task[j] \in {"next", "taken", "importing", "leaving"} => jstate[j] \in {"running", "cancelled"}
  /\ task[j] = "finishing" => /\ jstate[j] \in {"queued", "running", "cancelled"}
                              /\ outcome[j] \in Final
                              /\ jstate[j] = "queued" => outcome[j] = "cancelled"
  /\ task[j] = "done" => jstate[j] \in Final

\* An import that starts after the flag was set is the job's last, and a job
\* cancelled in the queue, whose flag was set before, starts none.
LateInv == \A j \in Jobs :
  /\ late[j] <= 1
  /\ late[j] > 0 => j \in raised /\ task[j] \in {"importing", "next", "leaving", "finishing", "done"}
  /\ jstate[j] = "queued" => late[j] = 0
  /\ jstate[j] = "cancelled" /\ j \in flags =>
        /\ j \in raised /\ late[j] = 0
        /\ task[j] \in {"queued", "starting", "next", "leaving", "finishing"}

\* A cancel is under way only for an accepted job, whose flag it sets before
\* it looks at the state.
CancelInv == \A c \in Clients : cancels[c].at # "idle" =>
  /\ cancels[c].job \in Jobs /\ request[cancels[c].job] = "accepted"
  /\ cancels[c].at = "flagged" /\ cancels[c].job \in flags => cancels[c].job \in raised

\* Only an upload is saved or over the quota, and a new request is none yet.
UploadInv == \A j \in Jobs : /\ request[j] = "new" => j \notin uploads
                             /\ request[j] \in {"saved", "over"} => j \in uploads

IInv == TypeOK /\ ShownInv /\ LateInv /\ CancelInv /\ UploadInv /\ CopiesAreOwned /\ LimitsHold
=============================================================================
