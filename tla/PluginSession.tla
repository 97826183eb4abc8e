---------------------------- MODULE PluginSession ----------------------------
(***************************************************************************)
(* One plugin session of the host (core/ab-host/src/session.rs): the spawn *)
(* path, the callers of the session's methods, the parse watchdog, the     *)
(* idle-reclaim timer, and the background tasks that watch the process and *)
(* its pipes.  Every task runs concurrently with every other; one action   *)
(* is the code a task runs between two points at which another task can    *)
(* observe or change the shared state (a lock, an atomic, an await).       *)
(*                                                                         *)
(* Time is abstract: a timeout is an action that may happen whenever what  *)
(* it limits is still pending.  RpcChannel looks inside a call.            *)
(***************************************************************************)
EXTENDS PluginStateMachine, Naturals

CONSTANTS
  Clients,     \* concurrent users of the session, each with one call at a time
  Files,       \* file ids
  NoFile,      \* the file of a call that names none
  Ops,         \* the methods each client calls
  PluginLock   \* TRUE when load and parse run under the engine's plugin lock

ClientOp == { "load", "parse", "unload", "query", "shutdown" }
HostTask == { "spawner", "idle", "pump", "writer", "wait" }

ASSUME ClientsAssumption == Clients \cap HostTask = {}
ASSUME FilesAssumption   == NoFile \notin Files
ASSUME OpsAssumption     == Ops \in [Clients -> SUBSET ClientOp]
ASSUME LockAssumption    == PluginLock \in BOOLEAN

Caller == Clients \cup { "spawner", "idle" }
Actor  == Clients \cup HostTask

VARIABLES
  state,       \* StateMachine::state
  pc,          \* where each caller is in its method
  job,         \* the method each caller runs, and its file
  reply,       \* the outcome of each caller's last call
  broken,      \* RpcChannel::broken
  writerOpen,  \* RpcChannel::writer is Some
  writer,      \* the writer task
  pump,        \* the read pump
  proc,        \* the child process
  wait,        \* the wait task; kill_tx is Some once it was started
  killReq,     \* a kill is queued for the wait task
  watchdog,    \* ParseWatchdog::deadline
  watcher,     \* the watcher task of each client's parse
  aborted,     \* clients whose running watcher task was aborted
  terminated,  \* SessionInner::terminated
  term,        \* the run of terminate_from that won the flag
  reports,     \* SessionTerminated events sent
  loaded,      \* SessionInner::loaded_files
  inMap,       \* PluginRuntime::sessions maps the plugin to this session
  registered   \* ChildProcessRegistry holds this process

callVars == <<pc, job, reply>>
chanVars == <<broken, writerOpen>>
taskVars == <<writer, pump>>
procVars == <<proc, wait, killReq>>
dogVars  == <<watchdog, watcher, aborted>>
endVars  == <<terminated, term, reports>>
bookVars == <<loaded, inMap, registered>>
vars == <<state, callVars, chanVars, taskVars, procVars, dogVars, endVars, bookVars>>

NoJob == [op |-> "none", file |-> NoFile]
Shake == [op |-> "initialize", file |-> NoFile]
Stop  == [op |-> "shutdown", file |-> NoFile]
NoEnd == [by |-> "spawner", ev |-> "SpawnRequested", step |-> "none"]

PC == { "off", "spawn", "quick", "greet", "publish", "live", "failed",
        "idle", "sleep", "accepted", "call", "register", "wait", "return",
        "finish", "remember", "closing", "sweep" }
Job == [op : {"load", "parse", "unload"}, file : Files]
       \cup [op : {"none", "initialize", "query", "shutdown"}, file : {NoFile}]
Reply == { "none", "ok", "error", "timeout" }
End == [by : Actor, ev : SmEvent,
        step : {"none", "apply", "drain", "flush", "finish", "done", "lost"}]

TypeOK ==
  /\ state \in PluginProcessState
  /\ pc \in [Caller -> PC]
  /\ job \in [Caller -> Job]
  /\ reply \in [Caller -> Reply]
  /\ broken \in BOOLEAN /\ writerOpen \in BOOLEAN
  /\ writer \in {"none", "writing", "breaking", "stopped"}
  /\ pump \in {"none", "reading", "stopped"}
  /\ proc \in {"none", "running", "exited"}
  /\ wait \in {"none", "waiting", "done"}
  /\ killReq \in BOOLEAN
  /\ watchdog \in {"off", "armed", "expired"}
  /\ watcher \in [Clients -> {"none", "run", "fired", "standdown", "kill", "ending"}]
  /\ aborted \subseteq Clients
  /\ terminated \in BOOLEAN
  /\ term \in End
  /\ reports \in Nat
  /\ loaded \subseteq Files
  /\ inMap \in BOOLEAN /\ registered \in BOOLEAN

Init ==
  /\ state = "Discovered"
  /\ pc = [c \in Caller |-> CASE c = "spawner" -> "spawn"
                              [] c = "idle"    -> "off"
                              [] OTHER         -> "idle"]
  /\ job = [c \in Caller |-> CASE c = "spawner" -> Shake
                               [] c = "idle"    -> Stop
                               [] OTHER         -> NoJob]
  /\ reply = [c \in Caller |-> "none"]
  /\ broken = FALSE /\ writerOpen = TRUE
  /\ writer = "none" /\ pump = "none"
  /\ proc = "none" /\ wait = "none" /\ killReq = FALSE
  /\ watchdog = "off" /\ watcher = [c \in Clients |-> "none"] /\ aborted = {}
  /\ terminated = FALSE /\ term = NoEnd /\ reports = 0
  /\ loaded = {} /\ inMap = FALSE /\ registered = FALSE

-----------------------------------------------------------------------------
(* Helpers: the effects several methods share. *)

ApplyEv(ev) == state' = Apply(state, ev)

Goto(c, l) == pc' = [pc EXCEPT ![c] = l]

\* Client c's method returns: its locals are gone.
Leave(c) ==
  /\ pc' = [pc EXCEPT ![c] = "idle"]
  /\ job' = [job EXCEPT ![c] = NoJob]
  /\ reply' = [reply EXCEPT ![c] = "none"]

\* A call of caller c returns outcome r.
Return(c, r) ==
  /\ pc' = [pc EXCEPT ![c] = "return"]
  /\ reply' = [reply EXCEPT ![c] = r]

\* RpcChannel::drain_pending: every call in flight completes with an error,
\* and so do the calls in also.
Drain(also) ==
  LET drained == also \cup {c \in Caller : pc[c] = "wait"}
  IN  /\ broken' = TRUE
      /\ pc' = [c \in Caller |-> IF c \in drained THEN "return" ELSE pc[c]]
      /\ reply' = [c \in Caller |-> IF c \in drained THEN "error" ELSE reply[c]]

\* request_kill: heard only by a wait task, and lost before there is one.
RequestKill == killReq' = (killReq \/ wait = "waiting")

\* Mutant: the flag is set but not tested.
TerminateAgain(a, e) ==
  /\ terminated' = TRUE
  /\ term' = [by |-> a, ev |-> e, step |-> "apply"]
  /\ UNCHANGED reports

\* The entry of terminate_from: the first to set the flag runs the rest.
Terminate(a, e) ==
  IF terminated
  THEN UNCHANGED endVars
  ELSE /\ terminated' = TRUE
       /\ term' = [by |-> a, ev |-> e, step |-> "apply"]
       /\ UNCHANGED reports

Live == pc["spawner"] = "live"

-----------------------------------------------------------------------------
(* PluginRuntime::spawn *)

\* The operating system refuses to start the process: there is no session.
SpawnRefused ==
  /\ pc["spawner"] = "spawn"
  /\ Goto("spawner", "failed")
  /\ UNCHANGED <<state, job, reply, chanVars, taskVars, procVars, dogVars, endVars, bookVars>>

SpawnProcess ==
  /\ pc["spawner"] = "spawn"
  /\ Goto("spawner", "quick")
  /\ ApplyEv("SpawnRequested")
  /\ proc' = "running" /\ writer' = "writing" /\ pump' = "reading"
  /\ UNCHANGED <<job, reply, chanVars, wait, killReq, dogVars, endVars, bookVars>>

\* poll_quick_exit saw the process gone within its window.
QuickExit ==
  /\ pc["spawner"] = "quick" /\ proc = "exited"
  /\ Goto("spawner", "failed")
  /\ Terminate("spawner", "SpawnFailed")
  /\ UNCHANGED <<state, job, reply, chanVars, taskVars, procVars, dogVars, bookVars>>

\* The window passed: start_wait_task stores kill_tx and registers the process.
SpawnSurvives ==
  /\ pc["spawner"] = "quick" /\ proc = "running"
  /\ Goto("spawner", "greet")
  /\ wait' = "waiting" /\ registered' = TRUE
  /\ UNCHANGED <<state, job, reply, chanVars, taskVars, proc, killReq, dogVars, endVars, loaded, inMap>>

GreetPlugin ==
  /\ pc["spawner"] = "greet"
  /\ Goto("spawner", "call")
  /\ ApplyEv("Initialized")
  /\ UNCHANGED <<job, reply, chanVars, taskVars, procVars, dogVars, endVars, bookVars>>

HandshakeAccepted ==
  /\ pc["spawner"] = "return" /\ reply["spawner"] = "ok"
  /\ Goto("spawner", "publish")
  /\ ApplyEv("Initialized")
  /\ reply' = [reply EXCEPT !["spawner"] = "none"]
  /\ UNCHANGED <<job, chanVars, taskVars, procVars, dogVars, endVars, bookVars>>

\* The result names another plugin id or another protocol version.
HandshakeMismatch ==
  /\ pc["spawner"] = "return" /\ reply["spawner"] = "ok"
  /\ Goto("spawner", "failed")
  /\ Terminate("spawner", "ProtocolFatalError")
  /\ reply' = [reply EXCEPT !["spawner"] = "none"]
  /\ UNCHANGED <<state, job, chanVars, taskVars, procVars, dogVars, bookVars>>

\* initialize returned an error; its own timeout counts as a missed heartbeat.
HandshakeFailed ==
  /\ pc["spawner"] = "return" /\ reply["spawner"] # "ok"
  /\ Goto("spawner", "failed")
  /\ Terminate("spawner", IF reply["spawner"] = "timeout"
                          THEN "HeartbeatMissed" ELSE "ProtocolFatalError")
  /\ reply' = [reply EXCEPT !["spawner"] = "none"]
  /\ UNCHANGED <<state, job, chanVars, taskVars, procVars, dogVars, bookVars>>

\* The handshake_timeout around initialize elapsed first; the call is dropped.
HandshakeTimeout ==
  /\ pc["spawner"] = "wait"
  /\ Goto("spawner", "failed")
  /\ Terminate("spawner", "ProtocolFatalError")
  /\ UNCHANGED <<state, job, reply, chanVars, taskVars, procVars, dogVars, bookVars>>

\* sessions.insert, whatever happened to the session since the handshake.
Publish ==
  /\ pc["spawner"] = "publish"
  /\ Goto("spawner", "live")
  /\ inMap' = TRUE
  /\ UNCHANGED <<state, job, reply, chanVars, taskVars, procVars, dogVars, endVars, loaded, registered>>

Spawn == \/ SpawnRefused \/ SpawnProcess \/ QuickExit \/ SpawnSurvives \/ GreetPlugin
         \/ HandshakeAccepted \/ HandshakeMismatch \/ HandshakeFailed
         \/ HandshakeTimeout \/ Publish

-----------------------------------------------------------------------------
(* RpcChannel::call, by any caller *)

CheckChannel(c) ==
  /\ pc[c] = "call"
  /\ IF broken THEN Return(c, "error") ELSE Goto(c, "register") /\ UNCHANGED reply
  /\ UNCHANGED <<state, job, chanVars, taskVars, procVars, dogVars, endVars, bookVars>>

\* Enter the pending table and hand the frame to the writer task.
Enqueue(c) ==
  \/ /\ ~writerOpen
     /\ Return(c, "error")
     /\ UNCHANGED broken
  \/ /\ writerOpen /\ writer # "stopped"
     /\ Goto(c, "wait")
     /\ UNCHANGED <<reply, broken>>
  \/ /\ writerOpen /\ writer = "stopped"
     /\ Drain({c})

Register(c) ==
  /\ pc[c] = "register"
  /\ Enqueue(c)
  /\ UNCHANGED <<state, job, writerOpen, taskVars, procVars, dogVars, endVars, bookVars>>

\* The plugin's answer is read and routed to its caller.
Respond(c, r) ==
  /\ pc[c] = "wait" /\ pump = "reading" /\ proc = "running"
  /\ Return(c, r)
  /\ UNCHANGED <<state, job, chanVars, taskVars, procVars, dogVars, endVars, bookVars>>

\* Mutant: the shutdown request is sent without a deadline.
CallTimeoutNotShutdown(c) ==
  /\ pc[c] = "wait" /\ job[c].op # "shutdown"
  /\ Return(c, "timeout")
  /\ UNCHANGED <<state, job, chanVars, taskVars, procVars, dogVars, endVars, bookVars>>

CallTimeout(c) ==
  /\ pc[c] = "wait"
  /\ Return(c, "timeout")
  /\ UNCHANGED <<state, job, chanVars, taskVars, procVars, dogVars, endVars, bookVars>>

Call(c) == CheckChannel(c) \/ Register(c) \/ CallTimeout(c)

-----------------------------------------------------------------------------
(* The idle-reclaim timer *)

\* Both aborts drop a shutdown the timer's task may already be waiting in.
IdleOff == [pc EXCEPT !["idle"] = "off"]
IdleReset(files) == IF files = {} /\ state \notin Absorbing
                    THEN [pc EXCEPT !["idle"] = "sleep"] ELSE IdleOff

\* The delay passed: shut down when no file is loaded.  The task first suspends
\* in the wait for the answer, so an abort finds it there or later.
IdleFires ==
  /\ pc["idle"] = "sleep"
  /\ IF loaded # {} \/ state \in Absorbing
     THEN Goto("idle", "off") /\ UNCHANGED <<state, reply, broken>>
     ELSE /\ ApplyEv("ShutdownRequested")
          /\ IF broken THEN Return("idle", "error") /\ UNCHANGED broken
                       ELSE Enqueue("idle")
  /\ UNCHANGED <<job, writerOpen, taskVars, procVars, dogVars, endVars, bookVars>>

-----------------------------------------------------------------------------
(* The session's methods *)

\* A client may start a method: the session was returned by spawn.
Free(c, o) == Live /\ pc[c] = "idle" /\ o \in Ops[c]

\* Mutant: the engine parses and loads without its plugin lock.
AdmitUnlocked(c, o, f) ==
  /\ Free(c, o)
  /\ state \notin {"Parsing", "Loading"}
  /\ Goto(c, "accepted")
  /\ job' = [job EXCEPT ![c] = [op |-> o, file |-> f]]
  /\ UNCHANGED <<state, reply, chanVars, taskVars, procVars, dogVars, endVars, bookVars>>

\* reject_busy passes; the engine's plugin lock, when used, is held as well.
Admit(c, o, f) ==
  /\ Free(c, o)
  /\ state \notin {"Parsing", "Loading"}
  /\ PluginLock => \A d \in Clients : job[d].op \notin {"load", "parse"}
  /\ Goto(c, "accepted")
  /\ job' = [job EXCEPT ![c] = [op |-> o, file |-> f]]
  /\ UNCHANGED <<state, reply, chanVars, taskVars, procVars, dogVars, endVars, bookVars>>

StartLoad(c) ==
  /\ pc[c] = "accepted" /\ job[c].op = "load"
  /\ Goto(c, "call")
  /\ ApplyEv("LoadStarted")
  /\ UNCHANGED <<job, reply, chanVars, taskVars, procVars, dogVars, endVars, bookVars>>

\* Mutant: an error returns before LoadFinished is applied.
FinishLoadEarly(c) ==
  /\ pc[c] = "return" /\ job[c].op = "load"
  /\ IF reply[c] = "ok"
     THEN ApplyEv("LoadFinished") /\ Goto(c, "remember") /\ UNCHANGED <<job, reply>>
     ELSE Leave(c) /\ UNCHANGED state
  /\ UNCHANGED <<chanVars, taskVars, procVars, dogVars, endVars, bookVars>>

FinishLoad(c) ==
  /\ pc[c] = "return" /\ job[c].op = "load"
  /\ ApplyEv("LoadFinished")
  /\ IF reply[c] = "ok"
     THEN Goto(c, "remember") /\ UNCHANGED <<job, reply>>
     ELSE Leave(c)
  /\ UNCHANGED <<chanVars, taskVars, procVars, dogVars, endVars, bookVars>>

\* A loaded file is remembered and the idle timer, if any, is cancelled.
RememberFile(c) ==
  /\ pc[c] = "remember" /\ job[c].op = "load"
  /\ loaded' = loaded \cup {job[c].file}
  /\ pc' = [IdleOff EXCEPT ![c] = "idle"]
  /\ job' = [job EXCEPT ![c] = NoJob]
  /\ reply' = [reply EXCEPT ![c] = "none"]
  /\ UNCHANGED <<state, chanVars, taskVars, procVars, dogVars, endVars, inMap, registered>>

\* One watcher task per parse: the client's previous one has ended.
StartParse(c) ==
  /\ pc[c] = "accepted" /\ job[c].op = "parse" /\ watcher[c] = "none"
  /\ Goto(c, "call")
  /\ ApplyEv("ParseStarted")
  /\ watchdog' = "armed"
  /\ watcher' = [watcher EXCEPT ![c] = "run"]
  /\ UNCHANGED <<job, reply, chanVars, taskVars, procVars, aborted, endVars, bookVars>>

\* The parse call returned: disarm the watchdog, abort the watcher task.
StopWatchdog(c) ==
  /\ pc[c] = "return" /\ job[c].op = "parse"
  /\ Goto(c, "finish")
  /\ watchdog' = "off"
  /\ aborted' = IF watcher[c] = "none" THEN aborted ELSE aborted \cup {c}
  /\ UNCHANGED <<state, job, reply, chanVars, taskVars, procVars, watcher, endVars, bookVars>>

FinishParse(c) ==
  /\ pc[c] = "finish"
  /\ Leave(c)
  /\ ApplyEv("ParseFinished")
  /\ UNCHANGED <<chanVars, taskVars, procVars, dogVars, endVars, bookVars>>

\* unload_file and the plain calls check nothing before they call.
BeginCall(c, o, f) ==
  /\ Free(c, o)
  /\ Goto(c, "call")
  /\ job' = [job EXCEPT ![c] = [op |-> o, file |-> f]]
  /\ UNCHANGED <<state, reply, chanVars, taskVars, procVars, dogVars, endVars, bookVars>>

\* Whatever the answer was, the idle timer is restarted when no file is left.
FinishUnload(c) ==
  /\ pc[c] = "return" /\ job[c].op = "unload"
  /\ loaded' = IF reply[c] = "ok" THEN loaded \ {job[c].file} ELSE loaded
  /\ pc' = [IdleReset(loaded') EXCEPT ![c] = "idle"]
  /\ job' = [job EXCEPT ![c] = NoJob]
  /\ reply' = [reply EXCEPT ![c] = "none"]
  /\ UNCHANGED <<state, chanVars, taskVars, procVars, dogVars, endVars, inMap, registered>>

FinishQuery(c) ==
  /\ pc[c] = "return" /\ job[c].op = "query"
  /\ Leave(c)
  /\ UNCHANGED <<state, chanVars, taskVars, procVars, dogVars, endVars, bookVars>>

BeginShutdown(c) ==
  /\ Free(c, "shutdown") /\ state \notin Absorbing
  /\ Goto(c, "call")
  /\ job' = [job EXCEPT ![c] = Stop]
  /\ ApplyEv("ShutdownRequested")
  /\ UNCHANGED <<reply, chanVars, taskVars, procVars, dogVars, endVars, bookVars>>

CloseStdin(c) ==
  /\ pc[c] = "return" /\ job[c].op = "shutdown"
  /\ Goto(c, "closing")
  /\ writerOpen' = FALSE
  /\ reply' = [reply EXCEPT ![c] = "none"]
  /\ UNCHANGED <<state, job, broken, taskVars, procVars, dogVars, endVars, bookVars>>

\* Mutant: shutdown waits for the exit and leaves it at that.
FinishShutdownPolitely(c) ==
  /\ pc[c] = "closing"
  /\ IF c = "idle" THEN Goto(c, "off") /\ UNCHANGED <<job, reply>> ELSE Leave(c)
  /\ UNCHANGED <<state, chanVars, taskVars, procVars, dogVars, endVars, bookVars>>

\* wait_terminated saw the flag, or the budget ran out - even if the flag was set
\* meanwhile - and the kill is requested.  shutdown_all then sweeps the registry.
FinishShutdown(c) ==
  /\ pc[c] = "closing"
  /\ \/ c = "idle" /\ Goto(c, "off") /\ UNCHANGED <<job, reply>>
     \/ c # "idle" /\ Leave(c)
     \/ c # "idle" /\ Goto(c, "sweep") /\ UNCHANGED <<job, reply>>
  /\ RequestKill \/ (terminated /\ UNCHANGED killReq)
  /\ UNCHANGED <<state, chanVars, taskVars, proc, wait, dogVars, endVars, bookVars>>

\* ChildProcessRegistry::sweep_orphans
SweepOrphans(c) ==
  /\ pc[c] = "sweep"
  /\ Leave(c)
  /\ IF registered THEN RequestKill ELSE UNCHANGED killReq
  /\ UNCHANGED <<state, chanVars, taskVars, proc, wait, dogVars, endVars, bookVars>>

Begin(c) ==
  \/ \E f \in Files : Admit(c, "load", f) \/ Admit(c, "parse", f) \/ BeginCall(c, "unload", f)
  \/ BeginCall(c, "query", NoFile)
  \/ BeginShutdown(c)

Proceed(c) ==
  \/ StartLoad(c)  \/ FinishLoad(c)   \/ RememberFile(c)
  \/ StartParse(c) \/ StopWatchdog(c) \/ FinishParse(c)
  \/ FinishUnload(c) \/ FinishQuery(c) \/ SweepOrphans(c)

\* shutdown() runs for its callers and for the idle timer.
EndShutdown(c) == CloseStdin(c) \/ FinishShutdown(c)

-----------------------------------------------------------------------------
(* ParseWatchdog and the watcher tasks *)

\* The window passed since the deadline was last set.
WatchdogExpires ==
  /\ watchdog = "armed"
  /\ watchdog' = "expired"
  /\ UNCHANGED <<state, callVars, chanVars, taskVars, procVars, watcher, aborted, endVars, bookVars>>

\* A progress or RecordBatch notification: ParseWatchdog::reset.
Heartbeat ==
  /\ pump = "reading" /\ proc = "running"
  /\ watchdog = "expired"
  /\ watchdog' = "armed"
  /\ UNCHANGED <<state, callVars, chanVars, taskVars, procVars, watcher, aborted, endVars, bookVars>>

Watcher(c, from, to) ==
  /\ watcher[c] = from
  /\ watcher' = [watcher EXCEPT ![c] = to]
  /\ aborted' = IF to = "none" THEN aborted \ {c} ELSE aborted

\* An aborted task ends where it sleeps between two ticks.
WatcherAborted(c) ==
  /\ c \in aborted
  /\ Watcher(c, "run", "none")
  /\ UNCHANGED <<state, callVars, chanVars, taskVars, procVars, watchdog, endVars, bookVars>>

WatcherFires(c) ==
  /\ watchdog = "expired"
  /\ Watcher(c, "run", "fired")
  /\ UNCHANGED <<state, callVars, chanVars, taskVars, procVars, watchdog, endVars, bookVars>>

\* on_watchdog_fired: is anything running that a missed heartbeat condemns?
WatcherChecks(c) ==
  /\ Watcher(c, "fired", IF state \in {"Parsing", "Loading"} THEN "kill" ELSE "standdown")
  /\ UNCHANGED <<state, callVars, chanVars, taskVars, procVars, watchdog, endVars, bookVars>>

WatcherStandsDown(c) ==
  /\ Watcher(c, "standdown", "none")
  /\ watchdog' = "off"
  /\ UNCHANGED <<state, callVars, chanVars, taskVars, procVars, endVars, bookVars>>

WatcherKills(c) ==
  /\ Watcher(c, "kill", IF terminated THEN "none" ELSE "ending")
  /\ Terminate(c, "HeartbeatMissed")
  /\ UNCHANGED <<state, callVars, chanVars, taskVars, procVars, watchdog, bookVars>>

Watch(c) == WatcherAborted(c) \/ WatcherFires(c) \/ WatcherChecks(c)
            \/ WatcherStandsDown(c) \/ WatcherKills(c)

-----------------------------------------------------------------------------
(* terminate_from, run by the task term.by after it won the flag *)

Step(from, to) ==
  /\ term.step = from
  /\ term' = [term EXCEPT !.step = to]
  /\ UNCHANGED <<terminated, reports>>

TermApply ==
  /\ Step("apply", "drain")
  /\ ApplyEv(term.ev)
  /\ UNCHANGED <<callVars, chanVars, taskVars, procVars, dogVars, bookVars>>

\* Mutant: the process of a dead session is left running.
TermDrainOnly ==
  /\ Drain({})
  /\ \/ Step("drain", "flush")
     \/ Step("drain", "finish") /\ proc = "exited"
  /\ UNCHANGED <<state, job, writerOpen, taskVars, procVars, dogVars, bookVars>>

\* drain_pending, then request_kill.  The wait for stderr's EOF that follows
\* suspends the task, unless the EOF is there already.
TermDrain ==
  /\ Drain({})
  /\ RequestKill
  /\ \/ Step("drain", "flush")
     \/ Step("drain", "finish") /\ proc = "exited"
  /\ UNCHANGED <<state, job, writerOpen, taskVars, proc, wait, dogVars, bookVars>>

\* stderr reached EOF or its 100ms passed, in a task nobody aborted.
TermFlushed ==
  /\ term.by \notin aborted
  /\ Step("flush", "finish")
  /\ UNCHANGED <<state, callVars, chanVars, taskVars, procVars, dogVars, bookVars>>

\* The watcher that runs terminate_from is aborted while it waits for stderr.
TermAborted ==
  /\ term.by \in aborted
  /\ Step("flush", "lost")
  /\ watcher' = [watcher EXCEPT ![term.by] = "none"]
  /\ aborted' = aborted \ {term.by}
  /\ UNCHANGED <<state, callVars, chanVars, taskVars, procVars, watchdog, bookVars>>

\* SessionTerminated is sent; cleanup forgets files, process and session.
TermFinish ==
  /\ term.step = "finish"
  /\ term' = [term EXCEPT !.step = "done"]
  /\ reports' = reports + 1
  /\ loaded' = {} /\ inMap' = FALSE /\ registered' = FALSE
  /\ watcher' = [c \in Clients |-> IF c = term.by THEN "none" ELSE watcher[c]]
  /\ aborted' = aborted \ {term.by}
  /\ UNCHANGED <<state, callVars, chanVars, taskVars, procVars, watchdog, terminated>>

Termination == TermApply \/ TermDrain \/ TermFlushed \/ TermAborted \/ TermFinish

-----------------------------------------------------------------------------
(* The process, its pipes and the tasks that watch them *)

\* The plugin exits or crashes, at any time.
ProcessExits ==
  /\ proc = "running"
  /\ proc' = "exited"
  /\ UNCHANGED <<state, callVars, chanVars, taskVars, wait, killReq, dogVars, endVars, bookVars>>

KillProcess ==
  /\ wait = "waiting" /\ killReq /\ proc = "running"
  /\ proc' = "exited"
  /\ UNCHANGED <<state, callVars, chanVars, taskVars, wait, killReq, dogVars, endVars, bookVars>>

\* Mutant: the wait task calls on_process_exit only for an exit it did not cause.
ObserveExitUnlessKilled ==
  /\ wait = "waiting" /\ proc = "exited"
  /\ wait' = "done"
  /\ IF killReq THEN UNCHANGED endVars ELSE Terminate("wait", "ExitConfirmed")
  /\ UNCHANGED <<state, callVars, chanVars, taskVars, proc, killReq, dogVars, bookVars>>

\* The wait task reaps the process: on_process_exit.
ObserveExit ==
  /\ wait = "waiting" /\ proc = "exited"
  /\ wait' = "done"
  /\ Terminate("wait", "ExitConfirmed")
  /\ UNCHANGED <<state, callVars, chanVars, taskVars, proc, killReq, dogVars, bookVars>>

\* The read pump stops at a frame it cannot accept.
FatalFrame ==
  /\ pump = "reading" /\ proc = "running"
  /\ pump' = "stopped"
  /\ Terminate("pump", "ProtocolFatalError")
  /\ UNCHANGED <<state, callVars, chanVars, writer, procVars, dogVars, bookVars>>

\* EOF on stdout: the wait task is asked to kill, and alone terminates.
StdoutEof ==
  /\ pump = "reading"
  /\ pump' = "stopped"
  /\ RequestKill
  /\ UNCHANGED <<state, callVars, chanVars, writer, proc, wait, dogVars, endVars, bookVars>>

\* A frame cannot be written: on_pipe_broken.
WriteFails ==
  /\ writer = "writing" /\ \E c \in Caller : pc[c] = "wait"
  /\ writer' = "breaking"
  /\ Terminate("writer", "ExitConfirmed")
  /\ UNCHANGED <<state, callVars, chanVars, pump, procVars, dogVars, bookVars>>

\* on_pipe_broken returned: the task ends and its queue closes.
WriterStops ==
  /\ writer = "breaking"
  /\ term.by = "writer" => term.step = "done"
  /\ writer' = "stopped"
  /\ UNCHANGED <<state, callVars, chanVars, pump, procVars, dogVars, endVars, bookVars>>

Next ==
  \/ Spawn
  \/ \E c \in Caller : Call(c) \/ \E r \in {"ok", "error"} : Respond(c, r)
  \/ \E c \in Clients : Begin(c) \/ Proceed(c) \/ Watch(c)
  \/ \E c \in Clients \cup {"idle"} : EndShutdown(c)
  \/ IdleFires \/ WatchdogExpires \/ Heartbeat
  \/ Termination
  \/ ProcessExits \/ KillProcess \/ ObserveExit
  \/ FatalFrame \/ StdoutEof \/ WriteFails \/ WriterStops

Spec == Init /\ [][Next]_vars

(***************************************************************************)
(* Every task the host runs makes progress and its timers elapse; nothing  *)
(* is assumed of the plugin, nor that a client ever starts a method.       *)
(***************************************************************************)
FairSpec ==
  /\ Spec
  /\ WF_vars(Spawn \/ Call("spawner"))
  /\ \A c \in Clients : WF_vars(Call(c) \/ Proceed(c) \/ EndShutdown(c))
  /\ WF_vars(IdleFires \/ Call("idle") \/ EndShutdown("idle"))
  /\ \A c \in Clients : WF_vars(Watch(c))
  /\ WF_vars(Termination)
  /\ WF_vars(KillProcess \/ ObserveExit)
  /\ WF_vars(WriterStops)

-----------------------------------------------------------------------------
(* Properties *)

\* The state machine has seen the event of the termination in progress.
Settled == term.step \notin {"none", "apply"}

\* terminate_from is past its request_kill.
PastKill == term.step \in {"flush", "finish", "done", "lost"}

\* The process is dead, or a living wait task has been told to kill it.
Killed == proc = "exited" \/ (killReq /\ wait = "waiting")

InFlight(c) == pc[c] \in {"call", "register", "wait", "return", "finish"}

(***************************************************************************)
(* However many tasks find the session dead - the wait task, the pump, the *)
(* writer, a watcher, the spawner - SessionTerminated is sent once, and    *)
(* only after the calls in flight were drained (terminate_from).           *)
(***************************************************************************)
ReportedOnce ==
  /\ reports = IF term.step = "done" THEN 1 ELSE 0
  /\ reports = 1 => terminated /\ broken

(***************************************************************************)
(* A process exit - seen by the wait task, the quick-exit poll or a broken *)
(* stdin - is legal in every state in which it can be seen, so it always   *)
(* leaves the session in an absorbing state (on_process_exit).             *)
(***************************************************************************)
ExitEndsTheSession ==
  Settled /\ term.ev \in {"ExitConfirmed", "SpawnFailed"} => state \in Absorbing

(***************************************************************************)
(* A session shown as Shutdown, Crashed or Timeout has no process that     *)
(* nobody is going to kill (request_kill and the wait task).               *)
(***************************************************************************)
AbsorbingHasNoProcess ==
  state \in Absorbing /\ PastKill => Killed

(***************************************************************************)
(* A busy state never outlives the method that set it, whichever methods   *)
(* overlap: otherwise reject_busy would refuse load_file and parse for     *)
(* ever.                                                                   *)
(***************************************************************************)
BusyIsOwned ==
  /\ state = "Parsing" => \E c \in Clients : job[c].op = "parse" /\ InFlight(c)
  /\ state = "Loading" => \E c \in Clients : job[c].op = "load" /\ InFlight(c)

(***************************************************************************)
(* Under the engine's plugin lock a load or parse in flight shows in the   *)
(* state, so reject_busy and the watchdog's state check can rely on it.    *)
(***************************************************************************)
InFlightIsBusy ==
  \A c \in Clients :
    /\ job[c].op = "parse" /\ InFlight(c) => state \in {"Parsing", "Draining"} \cup Absorbing
    /\ job[c].op = "load" /\ InFlight(c)  => state \in {"Loading", "Draining"} \cup Absorbing

(***************************************************************************)
(* No method hangs: each returns to its caller, whatever the plugin and    *)
(* the tasks of the session do.                                            *)
(***************************************************************************)
MethodsReturn == \A c \in Clients : pc[c] # "idle" ~> pc[c] = "idle"

\* An exit of the process is always noticed: some task terminates the session.
ExitIsNoticed == (proc = "exited") ~> terminated

\* A caller's shutdown ends the process even when the plugin ignores it.
ShutdownKills == (\E c \in Clients : job[c].op = "shutdown") ~> (proc = "exited")

-----------------------------------------------------------------------------
(* Statements of the code's comments and documents that the code refutes. *)

\* session.rs:685: every termination ends in the SessionTerminated event.
TerminationIsReported == terminated ~> reports = 1

-----------------------------------------------------------------------------
(* The inductive invariant behind the safety properties. *)

\* The flag, the run of terminate_from it started, and the channel.
EndInv ==
  /\ terminated <=> term.step # "none"
  /\ terminated => term.ev \in { "SpawnFailed", "ProtocolFatalError",
                                 "HeartbeatMissed", "ExitConfirmed" }
  /\ PastKill => broken

\* Nobody uses the session before spawn has returned it.
Unused ==
  /\ \A c \in Clients : pc[c] = "idle" /\ watcher[c] = "none"
  /\ pc["idle"] = "off"

\* What each stage of spawn has done so far.
SpawnInv ==
  /\ pc["spawner"] \in { "spawn", "quick", "greet", "call", "register", "wait",
                         "return", "publish", "live", "failed" }
  /\ pc["spawner"] = "spawn" => state = "Discovered"
  /\ state = "Discovered" => /\ pc["spawner"] \in {"spawn", "failed"} /\ ~terminated
                             /\ proc = "none" /\ wait = "none"
                             /\ pump = "none" /\ writer = "none"
  /\ pc["spawner"] = "quick" => state = "Spawning" /\ wait = "none"
  /\ wait = "none" => pc["spawner"] \in {"spawn", "quick", "failed"}
  /\ ~Live => Unused

\* Before the wait task exists only the quick-exit poll and the pump terminate.
EarlyInv ==
  /\ wait = "none" /\ pc["spawner"] = "failed" =>
       state = "Discovered" \/ (proc = "exited" /\ terminated)
  /\ wait = "none" /\ terminated => term.ev \in {"SpawnFailed", "ProtocolFatalError"}
  /\ terminated /\ term.ev = "SpawnFailed" =>
       /\ pc["spawner"] = "failed" /\ wait = "none"
       /\ term.step = "apply" => state = "Spawning"
  /\ wait = "done" => proc = "exited"

\* The kill was lost in the quick-exit window: spawn is bound to fail.
Leaked ==
  \/ pc["spawner"] = "quick"
  \/ pc["spawner"] = "greet" /\ state = "Spawning"
  \/ pc["spawner"] \in {"call", "failed"} /\ state = "Initializing"
  \/ pc["spawner"] = "return" /\ reply["spawner"] = "error" /\ state = "Initializing"

KillInv == PastKill => Killed \/ Leaked

\* Only a parse is finished by FinishParse.
FinishInv == \A c \in Clients : pc[c] = "finish" => job[c].op = "parse"

\* How far spawn has brought the state machine, unless the session has ended.
StageInv ==
  /\ pc["spawner"] = "greet" => state \in {"Spawning"} \cup Absorbing
  /\ pc["spawner"] \in {"call", "register", "wait", "return"}
       => state \in {"Initializing"} \cup Absorbing
  /\ pc["spawner"] = "publish" => state \in {"Ready"} \cup Absorbing
  /\ Live => state \notin {"Discovered", "Spawning", "Initializing"}

\* The engine's plugin lock lets one load or parse through, from its admission
\* on, and the one in flight shows in the state.
LockInv ==
  /\ \A c \in Clients : pc[c] = "accepted" => job[c].op \in {"load", "parse"}
  /\ \A c, d \in Clients : job[c].op \in {"load", "parse"} /\ job[d].op \in {"load", "parse"}
                              => c = d
  /\ InFlightIsBusy

IInv ==
  /\ TypeOK
  /\ EndInv /\ SpawnInv /\ EarlyInv /\ KillInv
  /\ ReportedOnce /\ ExitEndsTheSession
  /\ FinishInv /\ BusyIsOwned
  /\ StageInv /\ (PluginLock => LockInv)
=============================================================================
