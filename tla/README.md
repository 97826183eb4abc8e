# AnalysisBuddy: TLA+ models, checks and proofs

AnalysisBuddy is a log-analysis workbench. An engine written in Rust starts *plugins*
as child processes, speaks JSON-RPC with them over their standard streams, lets them
parse files, and keeps the parsed series in memory for a desktop shell (`core/ab-app`)
or an HTTP server with server-sent events (`core/ab-server`). Plugins are built on a
runtime library or an SDK, installed as zips by a module manager, and examined before
that by a validator. This directory holds a TLA+ account of the parts whose correctness
depends on order, timing, or on two pieces of code that must agree.

## 1. The system

| Part | Source | State it keeps | Operations | What is hard |
|---|---|---|---|---|
| Process state machine | `core/ab-host/src/session.rs:38-171` | nine states | `apply(event)`; an illegal event is ignored | which events may come in which state |
| Plugin session | `session.rs` | state, channel, process handle, watchdog, loaded files, idle task, `terminated` | spawn, load_file, parse, schema, queries, unload_file, shutdown, terminate_from | seven tasks per session, each of which may end it |
| RPC channel | `core/ab-host/src/rpc.rs` | id counter, pending table, `broken`, writer queue | call, read loop, drain_pending, close_stdin | timeouts against late answers, drain against new calls |
| Import coordinator | `core/ab-engine/src/pipeline_bridge.rs` | file_index, jobs, store, paths, frozen, plugin locks | import_one, cancel_parse, unload_file | one task per file, users cancel and unload at any time |
| Parse stream | `host_bridge.rs`, `rpc.rs` (fan-out), `store.rs` | bounded queues, drop counts, sequence numbers | forward_notification, parse_stream, append_batch, freeze | full queues, lost batches, completeness |
| Session directory | `pipeline_bridge.rs`, `session.rs` (`get_or_spawn`) | registry, host_sessions, adapters, runtime sessions, spawn locks | ensure_session, probe_plugin, reload_session, shutdown_plugin_sessions | four maps that name the same process |
| Questions to plugins | `pipeline_bridge.rs` (`match_file`, queries), `commands/` | one task per plugin or file | match_file, query_key_values, query_custom_query | partial failure, timeouts, order |
| Server jobs | `core/ab-server/src/jobs.rs`, `routes.rs` | jobs, cancel flags, inflight paths, semaphore, upload copies and quota | spawn_import, run_import, cancel, upload, sweep | cancel in each phase, one final state, early returns |
| Event hub | `core/ab-server/src/hub.rs`, `ab-engine/src/events.rs` | two broadcast rings, subscriber queue, throttle | forward, subscribe, poll | slow listeners |
| Plugin manager, discovery | `commands/plugin_manager.rs`, `ab-host/src/discovery.rs` | directories, module state file, disabled set, cached discovery | install, uninstall, enable, update, rescan | two commands on one directory, dropped handlers |
| Plugin runtime library | `core/ab-plugin-rt/src/` | file table, parse slot, cancel flag | load, parse, cancel, unload, shutdown | parse thread beside the dispatcher |
| Plugin validator | `tools/plugin-validator/src/` | findings, facts about the plugin | structure, replay, report | two readers of one manifest; late and misdirected lines |
| Mock plugin, fixtures | `tools/mock-plugin`, validator fixtures | script, blocks | one block for each request | |
| Bundled CSV plugin | `plugins/builtin-csv/src/` | frozen columns and counts, batch buffer | can_handle, load_file, parse | two passes over one file |
| Session files, presets, update fetcher, shells, UI, SDKs, protocol types, test harnesses | see `PROJECT.json` | | | mostly data or one-to-one wrappers |

**How they interact.** A shell or a route calls the coordinator; on the server a job's
task does so for its paths, one after the other. `import_one` asks the plugins who can
handle the file, takes the chosen plugin's lock, obtains a session from the directory
(spawning it if needed) and calls `load_file`, `schema` and `parse` on it. Every method
is a `call` of the session's channel: it enters the pending table, queues a frame for
the writer task and waits for the read loop, its timeout or a drain. At the other end of
the pipe the library's dispatcher takes one request after the other, and starts a thread
for a parse. `RecordBatch` and `Progress` notifications go through the
fan-out to the parse adapter and from it to a sink task, which appends to the store.
When the process dies, hangs or writes nonsense, a background task runs
`terminate_from`: the flag `terminated`, a kill, the state, the drain, one event, the
clean-up. Host and coordinator send events, which the hub forwards to listeners. The
module manager changes the plugins' directories, stops their sessions and reloads
discovery. The validator plays the host against a plugin before anybody installs it.

**What makes each part correct.** A session is reported dead once, its process never
outlives it, its methods return. A request's answer reaches its caller and nobody else.
An import that is over is ready with all its data, or has left nothing behind, and
everyone waiting for it learns so. A stream that lost a batch never becomes a ready
file. A plugin has one process, and every map that names a live one names that one. A
job has one final state and gives back what it took. A listener has no silent gap. A
command leaves no temporary directory, and no builtin module is replaced while it is
sound. A question is answered for each plugin by that plugin's answer. The library
answers each request once and never finds its file missing. The validator finds the
fault a fixture was written with, passes what the library does, and what it passes the
host accepts. A file parsed is the file that was loaded. The hazards, with their lines,
are in `PROJECT.json`.

## 2. Modules

### PluginStateMachine
`PluginProcessState`, `SmEvent` and `StateMachine::apply` as one function; an event
with no row leaves the state alone, as `apply` returning `None` does.

### PluginSession
One session with everything that runs beside it. `pc[c]` is where a caller is:
the spawner (`PluginRuntime::spawn`, quick-exit poll and handshake included), the idle
task, and the clients, each inside one method. A step is what the code does between two
points at which another task may see or change shared state: a lock released, an
`await`. `term` is the one run of `terminate_from` that won the flag; it has its own
steps because it awaits the stderr reader (up to 100 ms) between drain and report.
`watcher[c]` is the task `parse` spawns to wait for the watchdog, and `aborted` the
watchers `parse` aborted on return.
A call is four steps (`CheckChannel`, `Register`, `Respond`/`CallTimeout`, return);
RpcChannel looks inside. Clocks are abstract: a timeout is an action that is possible
as long as what it limits is pending. The plugin is free: it answers anything or
nothing, exits, closes stdout or writes a bad frame at any time.

`PluginLock` says whether load and parse of different clients exclude each other. They
do in the engine (`pipeline_bridge.rs:968`); `InFlightIsBusy` depends on it.

### RpcChannel and CallPromise
`call` with the steps the code's locks and awaits separate, the pending table, a writer
queue of `QueueCap` frames, the writer task, responses, drain, close. `Drop` is a
caller whose future an outer timeout drops. `slot[i]` is the oneshot of request `i`.
`CallPromise` is what a caller may rely on: requests are opened in order, each is
settled once and, in `CallPromise!Spec`, each is settled in the end. `RpcChannel`
implements it under `Status`.

### ImportPipeline
`import_one` for several files, with `cancel_parse` and `unload_file` called by
`Users`. `pc[f]` follows the function from the file limit to `finish_job`; the maps of
the coordinator are sets of files. A file stands for one import and for the id it
draws, which is never used again. Simplifications, each with its reason:
- the answer of every plugin call is free, since the session and channel are modelled
  in their own modules;
- the removals from `store`, `frozen`, `paths` and `file_index` at an exit are one
  step: they run without an await between them, and no task decides on some of them;
- the sink's batches are `Append`, which adds one unit of memory;
- `Store::register` never finds the id taken (ids are fresh), so that exit is left out;
- `CancelTimesOut` is possible while a plugin call keeps the import (`Slow`). Every
  other await of the import is bounded by 3 seconds, the wait by 10;
- `EarlyUnload = FALSE` leaves out an `unload_file` exactly between
  `file_index.insert` and `register_job`, two adjacent statements without an await.
  On a multi-threaded runtime it is possible (`uninstall_plugin` unloads every listed
  file of a plugin); with `TRUE`, TLC breaks `ReadyHasData`.

### ParseStream and StreamPromise
The way of a batch: pipe, read pump with `SeqValidator`, fan-out queue (`FanCap`),
forward task of `parse_stream` (`forward`, and `held`, the notification it waits to
send), sink channel (`SinkCap`), sink task, `append_batch`; then `freeze` and the
verdict. A batch is its number and its size; `accepted[f]` are the batches the sequence
check passed and `data[f]` those the store holds, so that order and loss can be seen.
`StreamPromise` says what that amounts to: the store takes the accepted batches one
by one in their order, forgets all or nothing, and a verdict is final; `ParseStream`
implements it under `Status`. Simplifications:
- one session, whose parses run one after another (the plugin lock), while the plugin
  may go on sending for a file that is answered or given up;
- a frame out of turn ends the session: the pipe is emptied, since the plugin is killed;
  what else ends a session is `CallFails`;
- a closed sink, and with it `host_backpressure`, is left out: the sink task ends only
  when its sender does, unless it panics;
- records of undeclared metrics are counted in `records_received` like any other, so
  they are not told apart;
- the exits of `import_one` after parse are one step, `Verdict`; ImportPipeline has them
  one by one.

### SessionDirectory
The maps that name a plugin's process: the runtime's `sessions` with its spawn locks,
and the coordinator's `registry`, `adapters` and `hostSessions`. `processes` lists every
process ever started with its plugin, version and state (starting, live, draining,
dead); a map holds a position in it. `call[c]` is where a task is in `ensure_session`,
`probe_plugin`, `reload_session`, `shutdown_plugin_sessions` or the stop of an
uninstall. A step ends at a lock or an await, so two tasks may both find no session,
and one of them finds the other's once it holds the spawn lock.

### PluginModules
`install`, `uninstall`, `set_plugin_enabled` and `update` of the module manager
with discovery's `scan` and `reload`, composed with SessionDirectory, whose processes
they stop and whose discovered versions (`found`) they replace. A directory is the zip it
was extracted from; `Broken` stands for one whose manifest is not read. `modLock` are the
locks of one id, `file` and `disabled` the state file and the set in memory, `tmp` and
`left` the `.tmp-*` directories with and without somebody to remove them. A handler may
be dropped at any await (`Abandon`), which is how `left` grows.

### PluginFanOut
A question put to several plugins at once. A task is spawned for each plugin or file
(`owner` is looked up at that moment), ends with an answer, an error, a timeout or the
end of its session, and the caller gathers the results in the order of spawning. Candidates are
ranked by confidence and id (`Ranked` is the one sorted order of the claims, said without
an algorithm); a plugin is chosen unasked if it leads by a tenth. A question names at most
`MaxNamed` files.

### ImportJobs
The jobs of the server with the routes that make, read and cancel them. `task[j]` is
`run_import` between two points at which a cancel can come in: the permit, the state, the
look at the flag, the path taken from the list, the import, the drop of the permit, the
final state. A cancel is three steps because it takes three locks. An upload owns its
copy on disk and counts against the quota before it is accepted. `Restart` is a kill of
the server and its sweep at the next start. What an import does inside is ImportPipeline.

### EventHub
Host events and pipeline events, the forwarder with conversion and `PluginMeta`, the
hub's ring, a subscriber's task, its bounded queue, and the stream with filter and
throttle. The rings are whole histories, and a receiver is its position in one; it lags
when it is more than the capacity behind. `ListenerPromise` is what a client of `GET /events`
may expect whatever lies between it and the hub: `HubPromise` maps the hub's ring and what
the stream has shown to it.

### PluginPipes, PluginRuntime and PluginHost
`PluginPipes` are the two pipes, used by every module of the plugin side. `PluginRuntime`
is the library: the dispatcher with every method, and the parse thread with the steps at
which it releases a lock (`at`: take the file, parse, put it back, free the slot, answer).
A parse request passes two locks, so `inHand` holds it between them. `PluginHost` is any
host: every method for every file in any order, impatient or one at a time (`patient`).
Batches are bounded by `MaxBatches` and requests by `MaxRequests`.

### ScriptedPlugin, Findings, ManifestRules, BehaviorCheck, PluginCheck, PassedPlugin, LibraryCheck
`ScriptedPlugin` is the mock plugin: its script parser and the blocks it plays. `Findings`
is a report and its exit code. `ManifestRules` has two readers of one plugin folder, the
validator's structural rules and the host's `load_manifest` with `sanitize_presets`; a
folder is a record whose strings stand for what the readers tell apart. `BehaviorCheck`
puts the twelve requests of `plugin check --behavior` to whatever plugin is at the other
end of the pipes, judges every line, with a watchdog that may run out at any time
(`slow`). `PluginCheck` is the program around them, and the host's later scan. `LibraryCheck`
puts the check and the runtime library at the two ends of the pipes: any folder, any call of
the program and one file that loads; the process is taken to start. It also holds the
inductive invariant of that composition. `PassedPlugin` keeps the lines the check has judged,
each with the request it was read under (`heard`, a history that no step reads), says what
a pass of every behaviour rule is worth (`PassIsEarned`), and holds the invariant that proves it.

### CsvEngine
builtin-csv: `config.json` key by key, the claim made from a file's first lines, the first pass
that freezes columns, times and counts, and the second pass that sends the batches.

### MC modules
`MCPluginSession`, `MCRpcChannel`, `MCImportPipeline` and `MCParseStream` give small
instances. Three others put several parts into one run; the parts share no variable, so
each initial state chooses one of them and the others stand still: `MCServer` (jobs,
hub) and `MCPluginModules` (commands, imports beside reloads, questions), which extend
the modules they are made of, and `MCPluginSide`
(library under any host; library under the validator; scripts under the validator;
folders under validator and host; CSV files).

## 3. Runs

| Run | Question | Bounds |
|---|---|---|
| `session_safety` | Report, kill, busy state and exit while a parse, a load and an unload overlap | two clients, one file; one spawn |
| `session_liveness` | Do methods return, are exits noticed, does a shutdown end the process | one client with all methods |
| `rpc_channel` | Table, ids, and `CallPromise` with its liveness | two callers, three requests, queue of one |
| `import_pipeline` | What every way to end an import leaves behind | two files, plugins, users; limit 1, budget 1, two load attempts |
| `import_liveness` | Imports end, cancel and unload return | two files on one plugin, one user |
| `parse_stream` | Is a ready file complete, does a file fail for a reason only, does every parse end, and `StreamPromise` | two files, three batches in all, one progress report; pipe, fan-out and sink of one place each; batches of one record |
| `server` | Is a final state final, does a cancel stop a job, are permits, bytes and copies accounted for, does every job end; has a listener a silent gap, is `ListenerPromise` kept | two jobs of two paths or one upload each, one permit, quota 1, file limit 1, one cancelling client; hub: two host events and one pipeline event, rings and queue of one |
| `modules` | One process for a plugin, temporary directories, builtin modules; answers of several plugins | two clients with two commands, two importers, two plugins (one builtin), two processes started; questions to two plugins about two files, three confidences |
| `plugin_side` | Library under any host; library, 26 scripts and altered folders under the validator, and what its pass is worth; the CSV plugin's two passes | four requests, two batches, two files (one does not load); the library in a sound folder and in one the check warns of; folders that differ from a sound one in up to two fields, two presets of one entry; tables of up to six lines, batches and samples of two |
| `session_report`, `import_cancel`, `module_smoke` | statements of comments and tests the code does not keep (section 6) | the smallest instance that shows it |

**What the passing runs show**, beyond their names. `ReportedOnce`, `ExitEndsTheSession`,
`AbsorbingHasNoProcess`: whichever of seven tasks ends a session, it is reported once and
the process goes with it. `MapsAgree` (`ReadyHasData` and `ListedIsReady`), `FailureLeavesNothing`,
`CancelIsLast`: what a listener was told last fits what the maps hold. `FinalIsFinal`: a client that has read
`cancelled` never reads `completed`. `CopiesAreOwned` says which of the upload handler's
exits leave a copy behind: the two refusals after it was written (`routes.rs:351`), an upload
that waits for the user's choice, no other. `HubPromise`: a listener is shown events it wants, each
after the last, past none it is owed, and `event_stream_lagged` only if more than `HUB_CAPACITY`
events came after the last one shown; it implies `NoSilentGap`, which is proved besides. It holds
although the forwarder skips what it missed: that gap is upstream, and events lost there are never
published. `OneProcess` covers a session that dies while its spawn still runs and one
replaced by a reload. `LibraryPasses`: a plugin on the library is passed with every
behaviour rule, and what the report says besides is of its folder alone. `FaultIsFound` runs
the validator against plugins with one fault each. `PassIsEarned` is its other side: a
plugin that is passed with every rule of behaviour has broken none in any line that was read. `CheckedIsAccepted` and `WarnedOrKept`
put each folder before both readers; `ForTheHost` names what only the host looks at.
`TwoPassesAgree` compares what `load_file` announced with what `parse` sends, `LoadKeepsClaim` the
answer of `can_handle` with what `load_file` finds.

Why these bounds suffice for the interesting cases: a race over a session needs one
task that ends it and one method in flight, and a check-then-act race two methods; two
callers and a queue of one make a full queue, a reused slot or a drain between two
steps of a call happen; two files with a limit and a budget of one make every limit
both hold and fail; two users let a cancel meet an unload. With one permit a second job
waits in the queue, where it can be cancelled; with a quota of one the second upload is
over it; a ring of one lags as soon as two events come together. Two commands of two
clients make every pair of commands meet, on one id and on two. Four requests reach a
parse with three requests beside it, and the proofs of section 5
have no bound on them. Two altered fields make rules of the validator
interact. `QueueCap`, `MaxCalls`, `FileBytes`, `LoadAttempts`, `MaxBatches`,
`MaxProgress`, `WireCap`, `MaxSpawns`, `MaxOps`, `MaxHost`, `MaxPipeline`, `MaxNamed` and
`MaxRequests` are the only caps on counters. With one place in each queue of the stream, a frame that comes
before the forward task took the last one is dropped. Attempts of `load_file` are three by
default and two in the runs: a first, a last. Symmetry is used in the safety run of
ImportPipeline only; nothing there orders files, plugins or users. `Levels` avoids a
difference of exactly a tenth, which floating-point subtraction in
`needs_user_choice` may round to either side.

`CHECK_DEADLOCK FALSE`: a session that has ended, a channel whose calls are done, a
coordinator without imports, a server without requests, a check that has reported
and a table read to its end really stop.

## 4. Fairness

- **Session**: the host's own tasks run and their timers elapse. Nothing is assumed
  of the plugin, or of a client's will to call anything. The clients' fairness covers a
  method already begun, which ends by its timeout if by nothing else.
- **Channel**: callers run, timeouts elapse. `WF(Write)` is an assumption on the
  environment: the plugin reads its stdin or the write fails. Without it a call that
  waits for room in a full queue (`rpc.rs:355`, no timeout) may wait for ever.
- **Imports**: an import's task runs; each plugin call returns or times out
  (`session_liveness` shows that of a session); the plugin lock is tokio's FIFO mutex.
  Nothing is assumed of `cancel_parse`'s own timeout, so `CallsReturn` says that every
  exit of `import_one` tells the waiting canceller.
- **Stream**: pump, forward task and engine run, a call ends by its 600 s. That a
  plugin's stream is finite is an assumption: the loop that empties the queue after
  parse has returned (`host_bridge.rs:163`) goes on as long as the plugin goes on sending.
- **Jobs**: each job's task is weakly fair: tokio schedules it, the semaphore is FIFO,
  and the import it awaits ends (`import_liveness`). Nothing is assumed of clients or of
  restarts, so `JobEnds` says that a job ends unless the server is killed first.
- Hub, modules and the plugin side are checked for safety only. A subscriber may stop
  reading, a user may issue no further command, and a watchdog ends each request.

## 5. Proofs

| Module | Theorems | Argument |
|---|---|---|
| `PluginSessionProofs` | `TypeCorrect`, `Invariance`, `Reported`, `ExitEnds`, `NoOrphan`, `BusyOwned`, `InFlightBusy` | `IInv` below; the last with `PluginLock = TRUE` |
| `RpcChannelProofs` | `TypeCorrect`, `TableExact`, `UniqueIds`, `Implements` | the table's invariant; then each step maps to a step of `CallPromise` or a stutter |
| `ImportPipelineProofs` | `TypeCorrect`, `Invariance`, `ReadyFiles`, `ListedFiles`, `FilesAgree`, `FailedFiles`, `LastWord`, `Budgeted` | `IInv` below, with `EarlyUnload = FALSE`; `Budgeted` by `BudgetInv` with either value and finitely many files |
| `ParseStreamProofs` | `TypeCorrect`, `Invariance`, `Implements`, `Completeness`, `Reasons` | `IInv` below; each step maps to a step of `StreamPromise` or a stutter; `CountInv` and `ReasonInv` on top |
| `ServerProofs` | jobs: `TypeCorrect`, `Invariance`, `FinalStays`, `CancelBinds`, `CopiesOwned`, `LimitsKept`; hub: `HubInvariance`, `NoGap`, `Listens` | `IInv` below, with finitely many jobs; `HubInv` and `LagInv` below, and each step maps to a step of `ListenerPromise` or a stutter |
| `PluginModulesProofs` | `TypeCorrect`, `Invariance`, `OneProcessEach`, `TmpOwned`, `BuiltinKept`; questions: `AnswersOwn` | `IInv`, of directory and commands together; `FanInv` |
| `PluginSideProofs` | library: `TypeCorrect`, `Invariance`, `FindsItsFile`, `OneAnswer`, `NotTurnedAway`; folders: `FolderInvariance`, `ReadersAgree`, `CutsAreWarned`; CSV plugin: `CsvInvariance`, `PassesAgree`, `ClaimsKept`; replay: `LibraryInvariance`, `AuthorsPass`; a pass: `PassInvariance`, `PassesAreEarned` | `IInv`, `FolderInv`, `CsvInv`, `LibraryInv` and `PassInv` below |
| `SumLemmas` | a library of lemmas: the least element, the smallest subset, sums over finite sets | see *Sums and ranks* |

They hold for all sets of clients, files, plugins, users, jobs and batches, all queue
lengths and limits, any number of requests, processes and commands, and every plugin folder, CSV
file and configuration. The assumptions are
those stated beside the constants: a null value lies outside its set, a bound is a natural
number, a zip and an installed folder are of their type (`ZipAssumption`,
`InstalledAssumption`), the capacities of the hub's rings are natural numbers (`HubAssumption`),
plugins and files of a question are finitely many and confidences natural numbers
(`FanAssumption`), the limits on presets and the CSV plugin's on rows and samples are natural
numbers and a batch is not empty (`LimitsAssumption`, `CsvAssumption`), and the sets of jobs and of
budgeted files are finite (their members are counted). Confidences are whole hundredths there
and floats in the code: the theorem says nothing of a lead that rounding makes a tenth.

*Session.* That an absorbing state has a doomed process does not follow from the step
that enters it: `request_kill` does nothing before the wait task exists. `KillInv` lists
the states in which the kill was lost (`Leaked`) and shows that in them the session is
still `Spawning` or `Initializing`, so the property holds although a kill may be lost
(section 6). `SpawnInv` and `EarlyInv` say what exists at each stage of the spawn;
`BusyIsOwned` is inductive with `FinishInv`. `InFlightIsBusy` needs how far spawn has
brought the state machine (`StageInv`: a session that serves has left `Initializing`, so its
`BeginLoad` and `BeginParse` are legal) and that the plugin lock admits one load or parse from its
admission on (`LockInv`); without that lock it is false, which is why `PluginLock` is there.

*Imports.* The heart is `CancelInv`: when a canceller has cleaned up before the import
was over, or may do so, the import is flagged and has not passed its last look at the
flag. `JobInv` says a job is registered from `register_job` to `finish_job` unless
somebody has cancelled it; `DataInv` says what the maps hold at each stage of an
import nobody cancelled, and `OutcomeInv` what each outcome leaves. `BudgetHolds` is
about imports that check the budget side by side: `BudgetInv` counts a file from its check on,
frozen or not, and says that it no longer grows then, so a check sees all that can matter.

*Stream.* `PassedInv` says that a batch queued anywhere behind the sequence check is the
one its number names in `accepted`; `OwnInv` and `TurnInv` that only one parse runs and
that what is queued before the engine belongs to it. So the batch `append_batch` takes, the
next by number, is the next accepted one, stale batches of earlier parses included.
`ReadyIsComplete`: the store's batches begin the accepted ones (`StoredInv`) and those, of a
truthful plugin, the sent ones (`HonestInv`), whose total its answer tells; equal totals
of a sequence and its beginning make them equal. `FailsForAReason` needs the converse, that
nothing goes missing without a trace: what a truthful plugin sent is on the wire until it is
passed, and its answer follows it (`WireInv`); what was passed is stored, held or queued
(`WholeInv`); and on that way no batch overtakes another (`OrderInv`), so that the next to
be stored is never refused as out of turn. `CalledInv` says that the forward task outlives the
call and leaves its queue empty, which is what an early return of `parse_stream` would break.

*Jobs.* `FinalIsFinal` is an action property: it needs to know which state a client may
see at each step of the task. `ShownInv` says so: a task that has started is shown
running or cancelled, never queued, and `outcome` is set when it finishes.
`CancelStopsSoon` needs that a cancel sets the flag before it flips the state
(`CancelInv`), and that a flagged job never takes another path (`LateInv`). The accounts
of `LimitsHold` are sums over the jobs that hold a permit or a byte; each step moves one
job in or out of those sets, and the library's cardinality theorems do the rest.

*Hub.* `HubInv` speaks of positions in the hub's order. What a listener is owed up to the
place its task has reached is a frame, in the queue or in the task's hand (`PathInv`), the
three in this order (`OrderInv`); a `Lag` is the last item of whatever holds it, and the task
ends with it (`TaskInv`). For `HubPromise` that is not enough: `LagInv` says that nothing queued
or shown is older than the subscription, and that while a `Lag` is on its way the ring has
overtaken the task, which is past all that was shown.

*Directory and modules.* A task in `get_or_spawn` holds the plugin's lock, and while it starts
a process the map names none that lives (`SpawnInv`). So a process that lives is the
map's or the one a lock's holder is starting (`LivesInv`), and two never are. What any other
map names, and what a task is about to write there, stop or use, is dead or the one the
runtime knows (`MapsInv`): this is what a task that found no session, waited for the lock
and looked again relies on. A command past `plugin_lock` holds the lock of its id (`LockInv`);
only an install or update before its rename may have a directory to remove (`TmpInv`);
and an install past its judgement of a builtin id still finds the module broken
(`KeptInv`), since whoever writes that directory holds the same lock.

*Questions.* `TasksInv`: the caller's results are those of the first tasks, and a task that was
gathered never changes. That the leader of the ranking is a tenth ahead of every other, and not
of the second only, needs that the ranking exists and is an order: `LeaderExists`,
`RankExists`.

*Sums and ranks.* The provers cannot use an induction rule with an operator as a parameter;
they can use that every nonempty set of numbers has a least element (`LeastElement`). A
property of all finite subsets is proved by the smallest subset that lacks it. So `SumLemmas`
proves that the fold behind `MapThenSumSet` exists, is unique, and does not depend on the order
in which it takes the elements.

*Library.* `SlotInv` ties the parse slot to the one thread between its claim and the
return of the slot, and a file cleared by the first lock of `parse` to the table or to
that thread's hands; this is what the second lock relies on. `LedgerInv` is the ledger:
ids are taken in order, and each id taken is answered once, or owed by the request
in hand or by one thread, never by two. From both follows `PatientInv`: while a patient
host has a request at the dispatcher, every earlier id is answered, hence no thread is
left that could hold the slot.

*Folders.* `FolderSpec` is the check and the scan with any plugin at the other end of the pipes:
they may change in every step that leaves the check alone. `FolderInv` says that the findings of
the structure are never taken back (`ReplayAdds`) and that the verdict is about the folder that was
checked, so both theorems are about two readers of one record. `ReadersAgree` goes through the
host's conditions in `HostVerdict` and finds the rule of the check that covers each
(`NoErrorSays`, `NoRuleBroken`); the neighbours of a changelog need `Drops`, which sees strict
versions only, hence that a version is strict for the host whenever it is lax and not loose. For
`CutsAreWarned` each filter of `sanitize_presets` keeps a list whole of which MAN-01 and MAN-14 say
nothing, from the keywords up to the presets (`PickAll`: positions all picked are the list).

*CSV plugin.* `CsvInv` says what a parse has come to above a line (`MidParse`): the batches sent are
full and numbered, less than a batch is buffered, and the records sent and buffered are the rows
with a time above the line, times the number columns; the bad ones are the others. A step adds one
row and cuts as many batches as fill up (`CutIs`), and at the end the sums agree with what `load_file`
counted (`RecordsSent`, by `TotalEqual`). That both passes mean the same rows is `SameRows`, which
needs `HeaderFirst`: without it TLC shows that they do not (section 6). `ClaimsKept` follows a time in
the sample to the column load freezes: a sample that was misread has no time in it
(`GarbageHasNoTime`), so sample and file are the same lines, both readers judge the header by the
same two of them, and a column that has a time in the first row of the data is found by name or by
being the first (`ColumnFrozen`).

*Replay against the library.* Two programs and two pipes between them: `LibraryInv` says where the
talk is. At every question of the check but one the pipes are in one of three states: not asked,
asked, answered (`Unsent`, `Sent`, `Replied`), and the answer is the one the check looks for. The
parse is the exception, for the thread writes any number of lines while the check reads.
`Streamed` says that the lines of n batches are a heartbeat and a batch in turn, that the pipe holds
the last k of these 2n and that what was read before has been counted (`Counted`); so the batches
are gapless, and the check's sum is the total when it comes to the answer. `Parses` carries
over the thread's five steps that the slot is free and the file back in its table before the answer is written: the requests
that follow it (`key_values`, `unload_file`) rely on it. A batch names a metric that
was announced because the check asks for the schema again after the load (`TableInv`,
`FactsInv`); a folder without an error has a manifest (`HasManifest`), and the structure speaks of MAN
rules only (`StructureSpeaks`), so the 13 behaviour rules in the report are the replay's.
Both theorems are for every folder, every call, every file that loads and any number of batches; a
watchdog that runs out is left out by `slow`.

*A pass.* `AnyPlugin` is the check and the scan with any plugin at the other end: the pipe
changes freely between two steps of the check, and its lines only have to be ones the pipe can carry
(`FrameOK`). `PassInv` relates the check's few facts to all lines it has read. An answered
request lies behind the current one unless BEH-02 was found (`PlaceInv`). The facts are what the
lines say (`Remembered`): the sum is that of all records (lemmas of `SumLemmas`), the expected
number is the newest batch's successor, the metrics are those announced last. What the lines
broke is among the findings (`Judged`), which are never taken back, and a report passes no rule
that has a finding (`Reported`). A line that is judged is one step, whose proof is split into
what it moves, what is learnt from it and what is found (`JudgeMoves`, `JudgeLearns`,
`JudgeFinds`); every other step leaves the lines alone (`Unheeding`). The watchdog may run out anywhere.

The invariants were checked by TLC on the runs' instances before they were proved;
where a theorem states type correctness or an inductive invariant, no run repeats it.
**Only model-checked** are the liveness properties and the liveness part of `CallPromise`
(fairness and `ENABLED` are out of the prover's reach), and `FaultIsFound`, which is about a list
of 26 scripts; `PassesAreEarned` is the general statement behind it, and `FaultIsFound` adds
which rule each script breaks.

## 6. What the code does otherwise than it says

Each is a run whose counterexample TLC prints; `PROJECT.json` quotes the lines.
1. `session_report`: `parse` aborts the watcher in the middle of `terminate_from`; the
   session's end is never reported and its entries stay.
2. `import_cancel`: after a cancel that timed out, the import's data stay in the store.
3. `module_smoke`: the smoke test of an install passes the extracted directory itself as
   a plugin source, discovery reads the subdirectories of a source only, so a zip with its
   `plugin.json` at the root, as the tests build it, is never found and not installed.

Observations the models led to, which are no runs.

*Sessions and channels.*
- A bad frame in the first 250 ms ends the session before `start_wait_task` has stored
  the kill channel: `request_kill` (`session.rs:758`) does nothing and nobody kills the
  process (against `session.rs:685`, `docs/spec/protocol-v1.md:713`).
- A load that succeeds aborts the idle shutdown half way (`session.rs:673-683`); the
  session stays `Draining` with a live process (`protocol-v1.md:425`). The idle timer
  looks at loaded files only, so it shuts a session down under a load in flight
  (`session.rs:631` says a load cancels it).
- A call between its test of `broken` and its entry in the table escapes
  `drain_pending` and ends by its timeout (`rpc.rs:400` says the drain completes all).
- `HeartbeatMissed` is not legal in `Ready` and `Draining`, so a terminated session may
  keep such a state. The 5-second timeout around `initialize` wins over the channel's
  own, so the error is the outer one.
- `query_key_values` and `query_custom_query` put a 10 s timeout
  (`pipeline_bridge.rs:99-100`) around the channel's own of 10 s (`health.rs:17,19`).
  When the inner one wins, a silent plugin's query reads `plugin_crashed` instead of the
  timeout of `protocol-v1.md:468,470`.
- `retry_loop` (used by tests only) returns the error before the last.

*Imports and streams.*
- A failed parse reads the cancel flag once, waits up to 3 s for the plugin's unload and
  then sends `ParseFailed`, possibly after `FileUnloaded` (`pipeline_bridge.rs:1173,1177`,
  against its comment at 522-524).
- The fan-out drops a notification when its queue of 1024 is full, and nobody reads the count
  (`rpc.rs:197-202`, against `host_bridge.rs:72-76,133-135`); a file that lost a batch
  fails by its gap or its count, never with `host_backpressure`.
- Imports that start together may exceed `max_loaded_files`, compared once at the start.
- `reopen_files` uses ids `reopen-{index}` again for each call.

*Directory, modules, server.*
- `reload_session` may hand back the old process, does not touch `adapters`, and leaves
  the plugin's files listed though the new process does not know them.
- `update` compares with the version read before its lock (`plugin_manager.rs:789-790`).
  A `.tmp-*` directory with a valid manifest counts as a plugin and shadows the installed
  one (347-348). The state file is shared by locks of different ids, so two changes may
  lose one; a scan that is stored late overwrites a newer one. `smoke_install` drops a spawn
  in mid-handshake when its 5 s are over (1052).
- The first crash event of a plugin carries the failure summary of the session before
  (`hub.rs:130`): the summary arrives with `SessionTerminated`, which comes later. The
  forwarder ends as soon as either of its channels closes.
- Two refusals of `upload_import` leave the copy on disk until a later start-up
  (`routes.rs:351`). Job ids begin again after a restart.

*Plugins and the validator.*
- `parse` of the file being parsed answers "invalid params" once the thread has taken
  the file, and "busy" before. A panic in `Plugin::parse` keeps the slot for ever.
  `schema` answers with the metrics of the file loaded last, whichever that was.
- builtin-csv: `parse` skips a header in line 1 only, `load_file` one in the first line that is
  not empty (`HeaderFirst` in `TwoPassesAgree`). A sample whose second line is empty shows no
  header, and a first line that begins with a time counts as data with a time column;
  `load_file` looks for the next line that is not empty (`engine.rs:454` against `226-233`),
  may take the first for a header and then find no time below it (`HeaderOverGap` in
  `LoadKeepsClaim`). A second parse appends to the samples of the
  first; columns named a, a, a_2 give the metrics a, a_2, a_2 (`engine.rs:388-396`).
- `behavior.rs` says a late `unload_file` is no violation, yet its answer, when it comes while
  `shutdown` is awaited, is reported under BEH-02. That the first batch is number 0
  and that a last one says done is not checked (`docs/developer-guide/05-debugging.md:67`).
  BEH-04 to 07 are listed as passed when the plugin did not claim the fixture.
- `sort_by_rule` puts warnings before errors, against its comment.
- Host and validator differ (`ForTheHost`): loose versions, a bare command that lies in
  the folder (`manifest.rs:360-372` searches PATH only; `protocol-v1.md:505`), the single
  space in a tool requirement, `update_url`, extensions and platform overrides are judged
  more strictly by the host; changelog ranges and the plugin's own entry by the validator.

## 7. Plan

Done: all modules of section 2, with the proofs of section 5; every invariant and action
property of the runs is proved but `FaultIsFound`. Next:

- Composition of ImportJobs with ImportPipeline, so that the free result of
  `ImportReturns` becomes the coordinator's.

## 8. Not modelled

Contents of messages, files and series, formatting, HTTP decoding and authentication, the
user interface and the desktop shell's one-to-one commands; session files, presets
on disk and the update fetcher, which are sequential reads and writes; `lttb` and series
selection, which are floating-point arithmetic over arrays; the SDKs in Python and C#, which
repeat the runtime library in languages of their own; the crash-loop breaker and
`retry_loop`, which only tests call; aibench-llama; JSON-schema evaluation beyond what
it tells apart. `PROJECT.json` lists every part with its reason.
