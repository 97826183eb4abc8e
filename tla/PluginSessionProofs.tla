------------------------- MODULE PluginSessionProofs -------------------------
(***************************************************************************)
(* Proofs about PluginSession for every set of clients and files, every    *)
(* choice of the methods they call, with and without the plugin lock.      *)
(***************************************************************************)
EXTENDS PluginSession, TLAPS

\* An event keeps the state machine within its states.
LEMMA ApplyType ==
  ASSUME NEW s \in PluginProcessState, NEW ev
  PROVE  Apply(s, ev) \in PluginProcessState
  BY DEF Apply, PluginProcessState, Absorbing, Started, Working

\* The callers and actors of the host are not clients.
LEMMA HostTasks ==
  /\ "spawner" \in Caller /\ "idle" \in Caller /\ Clients \subseteq Caller
  /\ "spawner" \notin Clients /\ "idle" \notin Clients
  /\ Caller \subseteq Actor /\ HostTask \subseteq Actor
  BY ClientsAssumption DEF Caller, Actor, HostTask

\* The job of a method is one the types allow.
LEMMA JobType ==
  /\ NoJob \in Job /\ Stop \in Job /\ Shake \in Job
  /\ \A o \in {"load", "parse", "unload"}, f \in Files : [op |-> o, file |-> f] \in Job
  /\ [op |-> "query", file |-> NoFile] \in Job
  BY DEF NoJob, Stop, Shake, Job

\* The entry of terminate_from keeps the types of the termination.
LEMMA TerminateType ==
  ASSUME TypeOK, NEW a \in Actor, NEW e \in SmEvent, Terminate(a, e)
  PROVE  terminated' \in BOOLEAN /\ term' \in End /\ reports' \in Nat
<1>1. [by |-> a, ev |-> e, step |-> "apply"] \in End
  BY DEF End
<1>2. CASE terminated
  BY <1>2 DEF TypeOK, Terminate, endVars
<1>3. CASE ~terminated
  BY <1>1, <1>3 DEF TypeOK, Terminate
<1>4. QED
  BY <1>2, <1>3

\* So do its later steps.
LEMMA StepType ==
  ASSUME TypeOK, NEW f, NEW t \in {"drain", "flush", "finish", "lost"}, Step(f, t)
  PROVE  terminated' \in BOOLEAN /\ term' \in End /\ reports' \in Nat
  BY DEF TypeOK, Step, End

\* What happens to one caller keeps the types of the callers.
LEMMA CallerType ==
  ASSUME TypeOK, NEW c \in Caller
  PROVE  /\ \A l \in PC : [pc EXCEPT ![c] = l] \in [Caller -> PC]
         /\ \A j \in Job : [job EXCEPT ![c] = j] \in [Caller -> Job]
         /\ \A r \in Reply : [reply EXCEPT ![c] = r] \in [Caller -> Reply]
  BY DEF TypeOK

\* Draining the calls in flight keeps them too.
LEMMA DrainType ==
  ASSUME TypeOK, NEW also, Drain(also)
  PROVE  broken' \in BOOLEAN /\ pc' \in [Caller -> PC] /\ reply' \in [Caller -> Reply]
<1>1. "return" \in PC /\ "error" \in Reply
  BY DEF PC, Reply
<1>2. QED
  BY <1>1 DEF TypeOK, Drain

LEMMA InitType == Init => TypeOK
<1> SUFFICES ASSUME Init PROVE TypeOK
  OBVIOUS
<1>1. pc \in [Caller -> PC]
  BY DEF Init, PC
<1>2. job \in [Caller -> Job]
  BY JobType DEF Init
<1>3. reply \in [Caller -> Reply]
  BY DEF Init, Reply
<1>4. term \in End
  BY HostTasks DEF Init, NoEnd, End, SmEvent, HostTask
<1>5. QED
  BY <1>1, <1>2, <1>3, <1>4 DEF Init, TypeOK, PluginProcessState

-----------------------------------------------------------------------------
(* Type correctness, one lemma per group of actions. *)

LEMMA SpawnType == TypeOK /\ Spawn => TypeOK'
<1> SUFFICES ASSUME TypeOK, Spawn PROVE TypeOK'
  OBVIOUS
<1> USE HostTasks, ApplyType, CallerType, TerminateType
<1>1. CASE SpawnRefused
  BY <1>1 DEF SpawnRefused, TypeOK, Goto, ApplyEv, SmEvent, PC, Reply, callVars, chanVars, taskVars, procVars, dogVars, endVars, bookVars
<1>2. CASE SpawnProcess
  BY <1>2 DEF SpawnProcess, TypeOK, Goto, ApplyEv, SmEvent, PC, Reply, callVars, chanVars, taskVars, procVars, dogVars, endVars, bookVars
<1>3. CASE QuickExit
  BY <1>3 DEF QuickExit, TypeOK, Goto, ApplyEv, SmEvent, PC, Reply, callVars, chanVars, taskVars, procVars, dogVars, endVars, bookVars
<1>4. CASE SpawnSurvives
  BY <1>4 DEF SpawnSurvives, TypeOK, Goto, ApplyEv, SmEvent, PC, Reply, callVars, chanVars, taskVars, procVars, dogVars, endVars, bookVars
<1>5. CASE GreetPlugin
  BY <1>5 DEF GreetPlugin, TypeOK, Goto, ApplyEv, SmEvent, PC, Reply, callVars, chanVars, taskVars, procVars, dogVars, endVars, bookVars
<1>6. CASE HandshakeAccepted
  BY <1>6 DEF HandshakeAccepted, TypeOK, Goto, ApplyEv, SmEvent, PC, Reply, callVars, chanVars, taskVars, procVars, dogVars, endVars, bookVars
<1>7. CASE HandshakeMismatch
  BY <1>7 DEF HandshakeMismatch, TypeOK, Goto, ApplyEv, SmEvent, PC, Reply, callVars, chanVars, taskVars, procVars, dogVars, endVars, bookVars
<1>8. CASE HandshakeFailed
  BY <1>8 DEF HandshakeFailed, TypeOK, Goto, ApplyEv, SmEvent, PC, Reply, callVars, chanVars, taskVars, procVars, dogVars, endVars, bookVars
<1>9. CASE HandshakeTimeout
  BY <1>9 DEF HandshakeTimeout, TypeOK, Goto, ApplyEv, SmEvent, PC, Reply, callVars, chanVars, taskVars, procVars, dogVars, endVars, bookVars
<1>10. CASE Publish
  BY <1>10 DEF Publish, TypeOK, Goto, ApplyEv, SmEvent, PC, Reply, callVars, chanVars, taskVars, procVars, dogVars, endVars, bookVars
<1>11. QED
  BY <1>1, <1>2, <1>3, <1>4, <1>5, <1>6, <1>7, <1>8, <1>9, <1>10 DEF Spawn

\* A call keeps the types.
LEMMA CallType ==
  ASSUME TypeOK, NEW c \in Caller, Call(c) \/ \E r \in {"ok", "error"} : Respond(c, r)
  PROVE  TypeOK'
<1> USE HostTasks, ApplyType, CallerType, TerminateType, DrainType DEF TypeOK, Goto, ApplyEv, SmEvent, PC, Reply,
         callVars, chanVars, taskVars, procVars, dogVars, endVars, bookVars
<1>1. CASE CheckChannel(c)
  BY <1>1 DEF CheckChannel, Return
<1>2. CASE Register(c)
  BY <1>2 DEF Register, Enqueue, Return
<1>3. CASE CallTimeout(c)
  BY <1>3 DEF CallTimeout, Return
<1>4. CASE \E r \in {"ok", "error"} : Respond(c, r)
  BY <1>4 DEF Respond, Return
<1>5. QED
  BY <1>1, <1>2, <1>3, <1>4 DEF Call

\* Starting a method keeps the types.
LEMMA BeginType ==
  ASSUME TypeOK, NEW c \in Clients, Begin(c)
  PROVE  TypeOK'
<1> USE HostTasks, ApplyType, CallerType, TerminateType, JobType DEF TypeOK, Goto, ApplyEv, SmEvent, PC, Reply,
         callVars, chanVars, taskVars, procVars, dogVars, endVars, bookVars
<1>1. CASE \E f \in Files : Admit(c, "load", f) \/ Admit(c, "parse", f)
  BY <1>1 DEF Admit
<1>2. CASE \E f \in Files : BeginCall(c, "unload", f)
  BY <1>2 DEF BeginCall
<1>3. CASE BeginCall(c, "query", NoFile)
  BY <1>3 DEF BeginCall
<1>4. CASE BeginShutdown(c)
  BY <1>4 DEF BeginShutdown
<1>5. QED
  BY <1>1, <1>2, <1>3, <1>4 DEF Begin

\* The steps of a method keep the types.
LEMMA ProceedType ==
  ASSUME TypeOK, NEW c \in Clients, Proceed(c)
  PROVE  TypeOK'
<1> USE HostTasks, ApplyType, CallerType, TerminateType, JobType DEF TypeOK, Goto, ApplyEv, SmEvent, PC, Reply,
         callVars, chanVars, taskVars, procVars, dogVars, endVars, bookVars
<1>0. c \in Caller
  OBVIOUS
<1> USE <1>0
<1>1. CASE StartLoad(c)
  BY <1>1 DEF StartLoad
<1>2. CASE FinishLoad(c)
  BY <1>2 DEF FinishLoad, Leave
<1>3. CASE RememberFile(c)
  <2>1. [pc EXCEPT !["idle"] = "off"] \in [Caller -> PC]
    OBVIOUS
  <2>2. pc' \in [Caller -> PC]
    BY <1>3, <2>1 DEF RememberFile, IdleOff
  <2>3. job[c].file \in Files
    BY <1>3 DEF RememberFile, Job
  <2>4. QED
    BY <1>3, <2>2, <2>3 DEF RememberFile
<1>4. CASE StartParse(c)
  <2>1. watcher' \in [Clients -> {"none", "run", "fired", "standdown", "kill", "ending"}]
    BY <1>4 DEF StartParse
  <2>2. pc' \in [Caller -> PC] /\ state' \in PluginProcessState
    BY <1>4 DEF StartParse
  <2>3. QED
    BY <1>4, <2>1, <2>2 DEF StartParse
<1>5. CASE StopWatchdog(c)
  <2>1. pc' \in [Caller -> PC]
    BY <1>5 DEF StopWatchdog
  <2>2. aborted' \subseteq Clients
    BY <1>5 DEF StopWatchdog
  <2>3. UNCHANGED <<state, job, reply, chanVars, taskVars, procVars, watcher, endVars, bookVars>>
    BY <1>5 DEF StopWatchdog
  <2>4. watchdog' = "off"
    BY <1>5 DEF StopWatchdog
  <2>5. QED
    BY ONLY TypeOK, <2>1, <2>2, <2>3, <2>4
    DEF TypeOK, callVars, chanVars, taskVars, procVars, dogVars, endVars, bookVars
<1>6. CASE FinishParse(c)
  BY <1>6 DEF FinishParse, Leave
<1>7. CASE FinishUnload(c)
  BY <1>7 DEF FinishUnload, IdleReset, IdleOff
<1>8. CASE FinishQuery(c)
  BY <1>8 DEF FinishQuery, Leave
<1>9. CASE SweepOrphans(c)
  BY <1>9 DEF SweepOrphans, Leave, RequestKill
<1>10. QED
  BY <1>1, <1>2, <1>3, <1>4, <1>5, <1>6, <1>7, <1>8, <1>9 DEF Proceed

\* So do the last steps of shutdown().
LEMMA EndShutdownType ==
  ASSUME TypeOK, NEW c \in Clients \cup {"idle"}, EndShutdown(c)
  PROVE  TypeOK'
<1> USE HostTasks, ApplyType, CallerType, TerminateType, JobType DEF TypeOK, Goto, ApplyEv, SmEvent, PC, Reply,
         callVars, chanVars, taskVars, procVars, dogVars, endVars, bookVars
<1>0. c \in Caller
  OBVIOUS
<1> USE <1>0
<1>1. CASE CloseStdin(c)
  <2>1. pc' \in [Caller -> PC] /\ reply' \in [Caller -> Reply]
    BY <1>1 DEF CloseStdin
  <2>2. UNCHANGED <<state, job, broken, taskVars, procVars, dogVars, endVars, bookVars>>
    BY <1>1 DEF CloseStdin
  <2>3. writerOpen' \in BOOLEAN
    BY <1>1, Zenon DEF CloseStdin
  <2>4. QED
    BY ONLY TypeOK, <2>1, <2>2, <2>3
    DEF TypeOK, callVars, chanVars, taskVars, procVars, dogVars, endVars, bookVars
<1>2. CASE FinishShutdown(c)
  <2>1. pc' \in [Caller -> PC] /\ job' \in [Caller -> Job] /\ reply' \in [Caller -> Reply]
    BY <1>2 DEF FinishShutdown, Leave
  <2>2. killReq' \in BOOLEAN
    BY <1>2 DEF FinishShutdown, RequestKill
  <2>3. UNCHANGED <<state, chanVars, taskVars, proc, wait, dogVars, endVars, bookVars>>
    BY <1>2 DEF FinishShutdown
  <2>4. QED
    BY <2>1, <2>2, <2>3
<1>3. QED
  BY <1>1, <1>2 DEF EndShutdown

\* The watchdog's tasks keep the types.
LEMMA WatchType ==
  ASSUME TypeOK, NEW c \in Clients, Watch(c)
  PROVE  TypeOK'
<1> USE HostTasks, ApplyType, CallerType, TerminateType DEF TypeOK, Goto, ApplyEv, SmEvent, PC, Reply,
         callVars, chanVars, taskVars, procVars, dogVars, endVars, bookVars
<1>1. CASE WatcherAborted(c)
  BY <1>1 DEF WatcherAborted, Watcher
<1>2. CASE WatcherFires(c)
  BY <1>2 DEF WatcherFires, Watcher
<1>3. CASE WatcherChecks(c)
  BY <1>3 DEF WatcherChecks, Watcher
<1>4. CASE WatcherStandsDown(c)
  BY <1>4 DEF WatcherStandsDown, Watcher
<1>5. CASE WatcherKills(c)
  BY <1>5 DEF WatcherKills, Watcher
<1>6. QED
  BY <1>1, <1>2, <1>3, <1>4, <1>5 DEF Watch

\* The steps of terminate_from keep the types.
LEMMA TerminationType ==
  ASSUME TypeOK, Termination
  PROVE  TypeOK'
<1> USE HostTasks, ApplyType, CallerType, TerminateType, DrainType, StepType DEF TypeOK, Goto, ApplyEv, SmEvent, PC, Reply,
         callVars, chanVars, taskVars, procVars, dogVars, endVars, bookVars
<1>1. CASE TermApply
  BY <1>1 DEF TermApply, End, Step
<1>2. CASE TermDrain
  BY <1>2 DEF TermDrain, RequestKill
<1>3. CASE TermFlushed
  BY <1>3 DEF TermFlushed
<1>4. CASE TermAborted
  BY <1>4 DEF TermAborted
<1>5. CASE TermFinish
  <2>1. term' \in End
    BY <1>5 DEF TermFinish, End
  <2>2. watcher' \in [Clients -> {"none", "run", "fired", "standdown", "kill", "ending"}]
    BY <1>5 DEF TermFinish
  <2>3. aborted' \subseteq Clients /\ reports' \in Nat
    BY <1>5 DEF TermFinish
  <2>4. UNCHANGED <<state, callVars, chanVars, taskVars, procVars, watchdog, terminated>>
    BY <1>5 DEF TermFinish
  <2>5. loaded' = {} /\ inMap' \in BOOLEAN /\ registered' \in BOOLEAN
    BY <1>5, Zenon DEF TermFinish
  <2>6. QED
    BY ONLY TypeOK, <2>1, <2>2, <2>3, <2>4, <2>5
    DEF TypeOK, callVars, chanVars, taskVars, procVars, dogVars, endVars, bookVars
<1>6. QED
  BY <1>1, <1>2, <1>3, <1>4, <1>5 DEF Termination

\* The timers, the process and the tasks of its pipes keep the types.
LEMMA RestType ==
  ASSUME TypeOK, \/ IdleFires \/ WatchdogExpires \/ Heartbeat
         \/ ProcessExits \/ KillProcess \/ ObserveExit
         \/ FatalFrame \/ StdoutEof \/ WriteFails \/ WriterStops
  PROVE  TypeOK'
<1> USE HostTasks, ApplyType, CallerType, TerminateType, DrainType DEF TypeOK, Goto, ApplyEv, SmEvent, PC, Reply,
         callVars, chanVars, taskVars, procVars, dogVars, endVars, bookVars
<1>1. CASE IdleFires
  BY <1>1 DEF IdleFires, Return, Enqueue
<1>2. CASE WatchdogExpires
  BY <1>2 DEF WatchdogExpires
<1>3. CASE Heartbeat
  BY <1>3 DEF Heartbeat
<1>4. CASE ProcessExits
  BY <1>4 DEF ProcessExits
<1>5. CASE KillProcess
  BY <1>5 DEF KillProcess
<1>6. CASE ObserveExit
  BY <1>6 DEF ObserveExit, HostTask
<1>7. CASE FatalFrame
  BY <1>7 DEF FatalFrame, HostTask
<1>8. CASE StdoutEof
  BY <1>8 DEF StdoutEof, RequestKill
<1>9. CASE WriteFails
  BY <1>9 DEF WriteFails, HostTask
<1>10. CASE WriterStops
  BY <1>10 DEF WriterStops
<1>11. QED
  BY <1>1, <1>2, <1>3, <1>4, <1>5, <1>6, <1>7, <1>8, <1>9, <1>10 DEF Next

LEMMA NextType == TypeOK /\ [Next]_vars => TypeOK'
<1> SUFFICES ASSUME TypeOK, [Next]_vars PROVE TypeOK'
  OBVIOUS
<1>1. CASE Next
  BY <1>1, SpawnType, CallType, BeginType, ProceedType, EndShutdownType, WatchType,
     TerminationType, RestType DEF Next
<1>2. CASE UNCHANGED vars
  BY <1>2 DEF TypeOK, vars, callVars, chanVars, taskVars, procVars, dogVars, endVars, bookVars
<1>3. QED
  BY <1>1, <1>2

(***************************************************************************)
(* Every variable of a session keeps its type (the state enum, the locks   *)
(* and the atomics of session.rs), whatever the tasks do.                  *)
(***************************************************************************)
THEOREM TypeCorrect == Spec => []TypeOK
  BY InitType, NextType, PTL DEF Spec

-----------------------------------------------------------------------------
(* The run of terminate_from *)

\* An action ends the session, runs terminate_from, or leaves both alone.
LEMMA EndShape ==
  ASSUME TypeOK, Next
  PROVE  \/ UNCHANGED endVars /\ (broken => broken')
         \/ /\ \E a \in Actor, e \in { "SpawnFailed", "ProtocolFatalError",
                                       "HeartbeatMissed", "ExitConfirmed" } : Terminate(a, e)
            /\ broken' = broken
         \/ Termination
<1> USE DEF callVars, chanVars, taskVars, procVars, dogVars, endVars, bookVars
<1>1. CASE Spawn
  BY <1>1, HostTasks DEF Spawn, SpawnRefused, SpawnProcess, QuickExit, SpawnSurvives, GreetPlugin,
     HandshakeAccepted, HandshakeMismatch, HandshakeFailed, HandshakeTimeout, Publish
<1>2. CASE \E c \in Caller : Call(c) \/ \E r \in {"ok", "error"} : Respond(c, r)
  BY <1>2 DEF Call, CheckChannel, Register, Enqueue, CallTimeout, Respond, Drain
<1>3. CASE \E c \in Clients : Begin(c) \/ Proceed(c)
  BY <1>3 DEF Begin, Admit, BeginCall, BeginShutdown, Proceed, StartLoad, FinishLoad,
     RememberFile, StartParse, StopWatchdog, FinishParse, FinishUnload, FinishQuery, SweepOrphans
<1>4. CASE \E c \in Clients : Watch(c)
  BY <1>4, HostTasks DEF Watch, WatcherAborted, WatcherFires, WatcherChecks, WatcherStandsDown, WatcherKills, Actor
<1>5. CASE \E c \in Clients \cup {"idle"} : EndShutdown(c)
  BY <1>5 DEF EndShutdown, CloseStdin, FinishShutdown
<1>6. CASE IdleFires \/ WatchdogExpires \/ Heartbeat
  BY <1>6 DEF IdleFires, Enqueue, Drain, WatchdogExpires, Heartbeat
<1>7. CASE ProcessExits \/ KillProcess \/ ObserveExit
  BY <1>7, HostTasks DEF ProcessExits, KillProcess, ObserveExit, HostTask
<1>8. CASE FatalFrame \/ StdoutEof \/ WriteFails \/ WriterStops
  BY <1>8, HostTasks DEF FatalFrame, StdoutEof, WriteFails, WriterStops, HostTask
<1>9. QED
  BY <1>1, <1>2, <1>3, <1>4, <1>5, <1>6, <1>7, <1>8 DEF Next

LEMMA EndInvStep == TypeOK /\ EndInv /\ ReportedOnce /\ [Next]_vars => EndInv' /\ ReportedOnce'
<1> SUFFICES ASSUME TypeOK, EndInv, ReportedOnce, [Next]_vars PROVE EndInv' /\ ReportedOnce'
  OBVIOUS
<1> USE DEF EndInv, ReportedOnce, PastKill, TypeOK, End, endVars, chanVars
<1>1. CASE UNCHANGED endVars /\ (broken => broken')
  BY <1>1
<1>2. CASE \E a \in Actor, e \in { "SpawnFailed", "ProtocolFatalError",
                                   "HeartbeatMissed", "ExitConfirmed" } : Terminate(a, e)
           /\ broken' = broken
  BY <1>2 DEF Terminate
<1>3. CASE TermApply
  BY <1>3 DEF TermApply, Step
<1>4. CASE TermDrain
  BY <1>4 DEF TermDrain, Step, Drain
<1>5. CASE TermFlushed \/ TermAborted
  BY <1>5 DEF TermFlushed, TermAborted, Step
<1>6. CASE TermFinish
  BY <1>6 DEF TermFinish
<1>7. CASE UNCHANGED vars
  BY <1>7 DEF vars
<1>8. QED
  BY <1>1, <1>2, <1>3, <1>4, <1>5, <1>6, <1>7, EndShape DEF Termination

-----------------------------------------------------------------------------
(* A busy state belongs to a method in flight *)

\* A step whose client, if any, leaves the busy states and its method alone
\* keeps every other client's method in flight.
LEMMA BusyStep == TypeOK /\ EndInv /\ FinishInv /\ BusyIsOwned /\ [Next]_vars
                    => FinishInv' /\ BusyIsOwned'
<1> SUFFICES ASSUME TypeOK, EndInv, FinishInv, BusyIsOwned, [Next]_vars
             PROVE  FinishInv' /\ BusyIsOwned'
  OBVIOUS
<1> USE HostTasks DEF FinishInv, BusyIsOwned, InFlight, TypeOK,
         callVars, chanVars, taskVars, procVars, dogVars, endVars, bookVars
<1>1. CASE Spawn
  BY <1>1 DEF Spawn, SpawnRefused, SpawnProcess, QuickExit, SpawnSurvives, GreetPlugin, HandshakeAccepted,
     HandshakeMismatch, HandshakeFailed, HandshakeTimeout, Publish, Goto, ApplyEv, Apply, Started, Working
<1>2. CASE \E c \in Caller : Call(c) \/ \E r \in {"ok", "error"} : Respond(c, r)
  BY <1>2 DEF Call, CheckChannel, Register, Enqueue, CallTimeout, Respond, Drain, Goto, Return
<1>3. CASE \E c \in Clients : Begin(c)
  BY <1>3 DEF Begin, Free, Admit, BeginCall, BeginShutdown, Goto, ApplyEv, Apply, Started, Working, Stop
<1>4. CASE \E c \in Clients : StartLoad(c) \/ FinishLoad(c) \/ RememberFile(c)
  BY <1>4 DEF StartLoad, FinishLoad, RememberFile, Goto, Leave, IdleOff, ApplyEv, Apply, Started, Working
<1>5. CASE \E c \in Clients : StartParse(c) \/ StopWatchdog(c) \/ FinishParse(c)
  BY <1>5 DEF StartParse, StopWatchdog, FinishParse, Goto, Leave, ApplyEv, Apply, Started, Working
<1>6. CASE \E c \in Clients : FinishUnload(c) \/ FinishQuery(c) \/ SweepOrphans(c)
  BY <1>6 DEF FinishUnload, FinishQuery, SweepOrphans, Leave, IdleOff, IdleReset
<1>7. CASE \E c \in Clients : Watch(c)
  BY <1>7 DEF Watch, WatcherAborted, WatcherFires, WatcherChecks, WatcherStandsDown, WatcherKills
<1>8. CASE \E c \in Clients \cup {"idle"} : EndShutdown(c)
  BY <1>8 DEF EndShutdown, CloseStdin, FinishShutdown, Goto, Leave
<1>9. CASE IdleFires
  BY <1>9 DEF IdleFires, Enqueue, Drain, Goto, Return, ApplyEv, Apply, Started, Working
<1>10. CASE WatchdogExpires \/ Heartbeat
  BY <1>10 DEF WatchdogExpires, Heartbeat
<1>11. CASE TermApply
  BY <1>11 DEF TermApply, Step, ApplyEv, Apply, Started, Working, EndInv
<1>12. CASE TermDrain
  BY <1>12 DEF TermDrain, Drain
<1>13. CASE TermFlushed \/ TermAborted \/ TermFinish
  BY <1>13 DEF TermFlushed, TermAborted, TermFinish
<1>14. CASE ProcessExits \/ KillProcess \/ ObserveExit
  BY <1>14 DEF ProcessExits, KillProcess, ObserveExit
<1>15. CASE FatalFrame \/ StdoutEof \/ WriteFails \/ WriterStops
  BY <1>15 DEF FatalFrame, StdoutEof, WriteFails, WriterStops
<1>16. CASE UNCHANGED vars
  BY <1>16 DEF vars
<1>17. QED
  BY <1>1, <1>2, <1>3, <1>4, <1>5, <1>6, <1>7, <1>8, <1>9, <1>10, <1>11, <1>12, <1>13, <1>14, <1>15, <1>16 DEF Next, Proceed, Termination

-----------------------------------------------------------------------------
(* The stages of spawn *)

\* spawn's stages, and that nobody uses the session before it returned.
LEMMA SpawnStep ==
  ASSUME TypeOK, EndInv, SpawnInv, EarlyInv, [Next]_vars
  PROVE  SpawnInv'
<1> USE HostTasks DEF TypeOK, SpawnInv, Unused, Live, End,
         callVars, chanVars, taskVars, procVars, dogVars, endVars, bookVars
<1>1. CASE Spawn
  BY <1>1 DEF Spawn, SpawnRefused, SpawnProcess, QuickExit, SpawnSurvives, GreetPlugin, HandshakeAccepted,
     HandshakeMismatch, HandshakeFailed, HandshakeTimeout, Publish, Goto, ApplyEv, Apply, Started, Working, Terminate
<1>2. CASE \E c \in Caller : Call(c) \/ \E r \in {"ok", "error"} : Respond(c, r)
  BY <1>2 DEF Call, CheckChannel, Register, Enqueue, CallTimeout, Respond, Drain, Goto, Return
<1>3. CASE \E c \in Clients : Begin(c)
  BY <1>3 DEF Begin, Free, Admit, BeginCall, BeginShutdown, Goto, ApplyEv, Apply, Started, Working, Stop
<1>4. CASE \E c \in Clients : StartLoad(c) \/ FinishLoad(c) \/ RememberFile(c)
  BY <1>4 DEF StartLoad, FinishLoad, RememberFile, Goto, Leave, IdleOff, ApplyEv, Apply, Started, Working
<1>5. CASE \E c \in Clients : StartParse(c) \/ StopWatchdog(c) \/ FinishParse(c)
  BY <1>5 DEF StartParse, StopWatchdog, FinishParse, Goto, Leave, ApplyEv, Apply, Started, Working
<1>6. CASE \E c \in Clients : FinishUnload(c) \/ FinishQuery(c) \/ SweepOrphans(c)
  BY <1>6 DEF FinishUnload, FinishQuery, SweepOrphans, Leave, IdleOff, IdleReset
<1>7. CASE \E c \in Clients : Watch(c)
  BY <1>7 DEF Watch, WatcherAborted, WatcherFires, WatcherChecks, WatcherStandsDown, WatcherKills, Watcher, Terminate
<1>8. CASE \E c \in Clients \cup {"idle"} : EndShutdown(c)
  BY <1>8 DEF EndShutdown, CloseStdin, FinishShutdown, Goto, Leave
<1>9. CASE IdleFires
  BY <1>9 DEF IdleFires, Enqueue, Drain, Goto, Return, ApplyEv, Apply, Started, Working
<1>10. CASE WatchdogExpires \/ Heartbeat
  BY <1>10 DEF WatchdogExpires, Heartbeat
<1>11. CASE TermApply
  BY <1>11 DEF EndInv, EarlyInv, TermApply, Step, ApplyEv, Apply, Started, Working
<1>12. CASE TermDrain
  BY <1>12 DEF TermDrain, Drain, Step
<1>13. CASE TermFlushed \/ TermAborted \/ TermFinish
  BY <1>13 DEF TermFlushed, TermAborted, TermFinish, Step
<1>14. CASE ProcessExits \/ KillProcess \/ ObserveExit
  BY <1>14 DEF ProcessExits, KillProcess, ObserveExit, Terminate
<1>15. CASE FatalFrame \/ StdoutEof \/ WriteFails \/ WriterStops
  BY <1>15 DEF FatalFrame, StdoutEof, WriteFails, WriterStops, Terminate
<1>16. CASE UNCHANGED vars
  BY <1>16 DEF vars
<1>17. QED
  BY <1>1, <1>2, <1>3, <1>4, <1>5, <1>6, <1>7, <1>8, <1>9, <1>10, <1>11, <1>12, <1>13, <1>14, <1>15, <1>16 DEF Next, Proceed, Termination

-----------------------------------------------------------------------------
(* The first terminations *)

\* Which terminations can happen before the wait task exists.
LEMMA EarlyStep ==
  ASSUME TypeOK, EndInv, SpawnInv, EarlyInv, [Next]_vars
  PROVE  EarlyInv'
<1> USE HostTasks DEF TypeOK, EndInv, SpawnInv, EarlyInv, Unused, Live, End,
         callVars, chanVars, taskVars, procVars, dogVars, endVars, bookVars
<1>1. CASE Spawn
  BY <1>1 DEF Spawn, SpawnRefused, SpawnProcess, QuickExit, SpawnSurvives, GreetPlugin, HandshakeAccepted,
     HandshakeMismatch, HandshakeFailed, HandshakeTimeout, Publish, Goto, ApplyEv, Apply, Started, Working, Terminate
<1>2. CASE \E c \in Caller : Call(c) \/ \E r \in {"ok", "error"} : Respond(c, r)
  BY <1>2 DEF Call, CheckChannel, Register, Enqueue, CallTimeout, Respond, Drain, Goto, Return
<1>3. CASE \E c \in Clients : Begin(c)
  BY <1>3 DEF Begin, Free, Admit, BeginCall, BeginShutdown, Goto, ApplyEv, Apply, Started, Working, Stop
<1>4. CASE \E c \in Clients : StartLoad(c) \/ FinishLoad(c) \/ RememberFile(c)
  BY <1>4 DEF StartLoad, FinishLoad, RememberFile, Goto, Leave, IdleOff, ApplyEv, Apply, Started, Working
<1>5. CASE \E c \in Clients : StartParse(c) \/ StopWatchdog(c) \/ FinishParse(c)
  BY <1>5 DEF StartParse, StopWatchdog, FinishParse, Goto, Leave, ApplyEv, Apply, Started, Working
<1>6. CASE \E c \in Clients : FinishUnload(c) \/ FinishQuery(c) \/ SweepOrphans(c)
  BY <1>6 DEF FinishUnload, FinishQuery, SweepOrphans, Leave, IdleOff, IdleReset
<1>7. CASE \E c \in Clients : Watch(c)
  BY <1>7 DEF Watch, WatcherAborted, WatcherFires, WatcherChecks, WatcherStandsDown, WatcherKills, Watcher, Terminate
<1>8. CASE \E c \in Clients \cup {"idle"} : EndShutdown(c)
  BY <1>8 DEF EndShutdown, CloseStdin, FinishShutdown, Goto, Leave
<1>9. CASE IdleFires
  BY <1>9 DEF IdleFires, Enqueue, Drain, Goto, Return, ApplyEv, Apply, Started, Working
<1>10. CASE WatchdogExpires \/ Heartbeat
  BY <1>10 DEF WatchdogExpires, Heartbeat
<1>11. CASE TermApply
  BY <1>11 DEF TermApply, Step, ApplyEv, Apply, Started, Working
<1>12. CASE TermDrain
  BY <1>12 DEF TermDrain, Drain, Step
<1>13. CASE TermFlushed \/ TermAborted \/ TermFinish
  BY <1>13 DEF TermFlushed, TermAborted, TermFinish, Step
<1>14. CASE ProcessExits \/ KillProcess \/ ObserveExit
  BY <1>14 DEF ProcessExits, KillProcess, ObserveExit, Terminate
<1>15. CASE FatalFrame \/ StdoutEof \/ WriteFails \/ WriterStops
  BY <1>15 DEF FatalFrame, StdoutEof, WriteFails, WriterStops, Terminate, Caller
<1>16. CASE UNCHANGED vars
  BY <1>16 DEF vars
<1>17. QED
  BY <1>1, <1>2, <1>3, <1>4, <1>5, <1>6, <1>7, <1>8, <1>9, <1>10, <1>11, <1>12, <1>13, <1>14, <1>15, <1>16 DEF Next, Proceed, Termination

-----------------------------------------------------------------------------
(* The kill *)

\* A kill is delivered, or was lost while spawn was still in its quick-exit window.
LEMMA KillStep ==
  ASSUME TypeOK, EndInv, SpawnInv, EarlyInv, KillInv, [Next]_vars
  PROVE  KillInv'
<1> USE HostTasks DEF TypeOK, EndInv, SpawnInv, EarlyInv, KillInv, Unused, Live, End, PastKill, Killed, Leaked,
         callVars, chanVars, taskVars, procVars, dogVars, endVars, bookVars
<1>1. CASE Spawn
  BY <1>1 DEF Spawn, SpawnRefused, SpawnProcess, QuickExit, SpawnSurvives, GreetPlugin, HandshakeAccepted,
     HandshakeMismatch, HandshakeFailed, HandshakeTimeout, Publish, Goto, ApplyEv, Apply, Started, Working, Terminate
<1>2. CASE \E c \in Caller : Call(c) \/ \E r \in {"ok", "error"} : Respond(c, r)
  BY <1>2 DEF Call, CheckChannel, Register, Enqueue, CallTimeout, Respond, Drain, Goto, Return
<1>3. CASE \E c \in Clients : Begin(c)
  BY <1>3 DEF Begin, Free, Admit, BeginCall, BeginShutdown, Goto, ApplyEv, Apply, Started, Working, Stop
<1>4. CASE \E c \in Clients : StartLoad(c) \/ FinishLoad(c) \/ RememberFile(c)
  BY <1>4 DEF StartLoad, FinishLoad, RememberFile, Goto, Leave, IdleOff, ApplyEv, Apply, Started, Working
<1>5. CASE \E c \in Clients : StartParse(c) \/ StopWatchdog(c) \/ FinishParse(c)
  BY <1>5 DEF StartParse, StopWatchdog, FinishParse, Goto, Leave, ApplyEv, Apply, Started, Working
<1>6. CASE \E c \in Clients : FinishUnload(c) \/ FinishQuery(c) \/ SweepOrphans(c)
  BY <1>6 DEF FinishUnload, FinishQuery, SweepOrphans, Leave, RequestKill, IdleOff, IdleReset
<1>7. CASE \E c \in Clients : Watch(c)
  BY <1>7 DEF Watch, WatcherAborted, WatcherFires, WatcherChecks, WatcherStandsDown, WatcherKills, Watcher, Terminate
<1>8. CASE \E c \in Clients \cup {"idle"} : EndShutdown(c)
  BY <1>8 DEF EndShutdown, CloseStdin, FinishShutdown, Goto, Leave, RequestKill
<1>9. CASE IdleFires
  BY <1>9 DEF IdleFires, Enqueue, Drain, Goto, Return, ApplyEv, Apply, Started, Working
<1>10. CASE WatchdogExpires \/ Heartbeat
  BY <1>10 DEF WatchdogExpires, Heartbeat
<1>11. CASE TermApply
  BY <1>11 DEF TermApply, Step, ApplyEv, Apply, Started, Working, PluginProcessState, Step
<1>12. CASE TermDrain
  BY <1>12 DEF TermDrain, Drain, RequestKill, Step
<1>13. CASE TermFlushed \/ TermAborted \/ TermFinish
  BY <1>13 DEF TermFlushed, TermAborted, TermFinish, Step
<1>14. CASE ProcessExits \/ KillProcess \/ ObserveExit
  BY <1>14 DEF ProcessExits, KillProcess, ObserveExit, Terminate
<1>15. CASE FatalFrame \/ StdoutEof \/ WriteFails \/ WriterStops
  BY <1>15 DEF FatalFrame, StdoutEof, RequestKill, WriteFails, WriterStops, Terminate
<1>16. CASE UNCHANGED vars
  BY <1>16 DEF vars
<1>17. QED
  BY <1>1, <1>2, <1>3, <1>4, <1>5, <1>6, <1>7, <1>8, <1>9, <1>10, <1>11, <1>12, <1>13, <1>14, <1>15, <1>16 DEF Next, Proceed, Termination

-----------------------------------------------------------------------------
(* The final state *)

\* An exit, whoever notices it, leaves an absorbing state.
LEMMA ExitStep ==
  ASSUME TypeOK, EndInv, SpawnInv, EarlyInv, ExitEndsTheSession, [Next]_vars
  PROVE  ExitEndsTheSession'
<1> USE HostTasks DEF TypeOK, EndInv, SpawnInv, EarlyInv, ExitEndsTheSession, Settled, End, Absorbing,
         callVars, chanVars, taskVars, procVars, dogVars, endVars, bookVars
<1>1. CASE Spawn
  BY <1>1 DEF Spawn, SpawnRefused, SpawnProcess, QuickExit, SpawnSurvives, GreetPlugin, HandshakeAccepted,
     HandshakeMismatch, HandshakeFailed, HandshakeTimeout, Publish, Goto, ApplyEv, Apply, Started, Working, Terminate
<1>2. CASE \E c \in Caller : Call(c) \/ \E r \in {"ok", "error"} : Respond(c, r)
  BY <1>2 DEF Call, CheckChannel, Register, Enqueue, CallTimeout, Respond, Drain, Goto, Return
<1>3. CASE \E c \in Clients : Begin(c)
  BY <1>3 DEF Begin, Free, Admit, BeginCall, BeginShutdown, Goto, ApplyEv, Apply, Started, Working, Stop
<1>4. CASE \E c \in Clients : StartLoad(c) \/ FinishLoad(c) \/ RememberFile(c)
  BY <1>4 DEF StartLoad, FinishLoad, RememberFile, Goto, Leave, IdleOff, ApplyEv, Apply, Started, Working
<1>5. CASE \E c \in Clients : StartParse(c) \/ StopWatchdog(c) \/ FinishParse(c)
  BY <1>5 DEF StartParse, StopWatchdog, FinishParse, Goto, Leave, ApplyEv, Apply, Started, Working
<1>6. CASE \E c \in Clients : FinishUnload(c) \/ FinishQuery(c) \/ SweepOrphans(c)
  BY <1>6 DEF FinishUnload, FinishQuery, SweepOrphans, Leave, IdleOff, IdleReset
<1>7. CASE \E c \in Clients : Watch(c)
  BY <1>7 DEF Watch, WatcherAborted, WatcherFires, WatcherChecks, WatcherStandsDown, WatcherKills, Watcher, Terminate
<1>8. CASE \E c \in Clients \cup {"idle"} : EndShutdown(c)
  BY <1>8 DEF EndShutdown, CloseStdin, FinishShutdown, Goto, Leave
<1>9. CASE IdleFires
  BY <1>9 DEF IdleFires, Enqueue, Drain, Goto, Return, ApplyEv, Apply, Started, Working
<1>10. CASE WatchdogExpires \/ Heartbeat
  BY <1>10 DEF WatchdogExpires, Heartbeat
<1>11. CASE TermApply
  BY <1>11 DEF TermApply, Step, ApplyEv, Apply, Started, Working, PluginProcessState, Step
<1>12. CASE TermDrain
  BY <1>12 DEF TermDrain, Drain, Step
<1>13. CASE TermFlushed \/ TermAborted \/ TermFinish
  BY <1>13 DEF TermFlushed, TermAborted, TermFinish, Step
<1>14. CASE ProcessExits \/ KillProcess \/ ObserveExit
  BY <1>14 DEF ProcessExits, KillProcess, ObserveExit, Terminate
<1>15. CASE FatalFrame \/ StdoutEof \/ WriteFails \/ WriterStops
  BY <1>15 DEF FatalFrame, StdoutEof, WriteFails, WriterStops, Terminate
<1>16. CASE UNCHANGED vars
  BY <1>16 DEF vars
<1>17. QED
  BY <1>1, <1>2, <1>3, <1>4, <1>5, <1>6, <1>7, <1>8, <1>9, <1>10, <1>11, <1>12, <1>13, <1>14, <1>15, <1>16 DEF Next, Proceed, Termination

-----------------------------------------------------------------------------
(* Busy while in flight *)

\* spawn greets, initializes and readies the machine stage by stage.
LEMMA StageStep ==
  ASSUME TypeOK, EndInv, SpawnInv, EarlyInv, StageInv, [Next]_vars
  PROVE  StageInv'
<1> USE HostTasks DEF TypeOK, EndInv, SpawnInv, EarlyInv, StageInv, Unused, Live, End, Absorbing,
         callVars, chanVars, taskVars, procVars, dogVars, endVars, bookVars
<1>1. CASE Spawn
  BY <1>1 DEF Spawn, SpawnRefused, SpawnProcess, QuickExit, SpawnSurvives, GreetPlugin, HandshakeAccepted,
     HandshakeMismatch, HandshakeFailed, HandshakeTimeout, Publish, Goto, ApplyEv, Apply, Started, Working, Terminate
<1>2. CASE \E c \in Caller : Call(c) \/ \E r \in {"ok", "error"} : Respond(c, r)
  BY <1>2 DEF Call, CheckChannel, Register, Enqueue, CallTimeout, Respond, Drain, Goto, Return
<1>3. CASE \E c \in Clients : Begin(c)
  BY <1>3 DEF Begin, Free, Admit, BeginCall, BeginShutdown, Goto, ApplyEv, Apply, Started, Working, Stop
<1>4. CASE \E c \in Clients : StartLoad(c) \/ FinishLoad(c) \/ RememberFile(c)
  BY <1>4 DEF StartLoad, FinishLoad, RememberFile, Goto, Leave, IdleOff, ApplyEv, Apply, Started, Working
<1>5. CASE \E c \in Clients : StartParse(c) \/ StopWatchdog(c) \/ FinishParse(c)
  BY <1>5 DEF StartParse, StopWatchdog, FinishParse, Goto, Leave, ApplyEv, Apply, Started, Working
<1>6. CASE \E c \in Clients : FinishUnload(c) \/ FinishQuery(c) \/ SweepOrphans(c)
  BY <1>6 DEF FinishUnload, FinishQuery, SweepOrphans, Leave, IdleOff, IdleReset
<1>7. CASE \E c \in Clients : Watch(c)
  BY <1>7 DEF Watch, WatcherAborted, WatcherFires, WatcherChecks, WatcherStandsDown, WatcherKills, Watcher, Terminate
<1>8. CASE \E c \in Clients \cup {"idle"} : EndShutdown(c)
  BY <1>8 DEF EndShutdown, CloseStdin, FinishShutdown, Goto, Leave
<1>9. CASE IdleFires
  BY <1>9 DEF IdleFires, Enqueue, Drain, Goto, Return, ApplyEv, Apply, Started, Working
<1>10. CASE WatchdogExpires \/ Heartbeat
  BY <1>10 DEF WatchdogExpires, Heartbeat
<1>11. CASE TermApply
  BY <1>11 DEF TermApply, Step, ApplyEv, Apply, Started, Working, PluginProcessState, Step
<1>12. CASE TermDrain
  BY <1>12 DEF TermDrain, Drain, Step
<1>13. CASE TermFlushed \/ TermAborted \/ TermFinish
  BY <1>13 DEF TermFlushed, TermAborted, TermFinish, Step
<1>14. CASE ProcessExits \/ KillProcess \/ ObserveExit
  BY <1>14 DEF ProcessExits, KillProcess, ObserveExit, Terminate
<1>15. CASE FatalFrame \/ StdoutEof \/ WriteFails \/ WriterStops
  BY <1>15 DEF FatalFrame, StdoutEof, WriteFails, WriterStops, Terminate
<1>16. CASE UNCHANGED vars
  BY <1>16 DEF vars
<1>17. QED
  BY <1>1, <1>2, <1>3, <1>4, <1>5, <1>6, <1>7, <1>8, <1>9, <1>10, <1>11, <1>12, <1>13, <1>14, <1>15, <1>16 DEF Next, Proceed, Termination

\* A step that takes no load or parse up, and leaves a busy state only for the end.
LEMMA StillLocked ==
  ASSUME LockInv,
         \A d \in Clients : job'[d].op \in {"load", "parse"}
                             => job'[d] = job[d] /\ (InFlight(d)' => InFlight(d)),
         \A d \in Clients : pc'[d] = "accepted" => pc[d] = "accepted" /\ job'[d] = job[d],
         state' = state \/ state' \in {"Draining"} \cup Absorbing
  PROVE  LockInv'
  BY DEF LockInv, InFlightIsBusy, Absorbing

\* A step of the one load or parse.
LEMMA OneMoves ==
  ASSUME LockInv, NEW c \in Clients, job[c].op \in {"load", "parse"}, pc'[c] # "accepted",
         \A d \in Clients \ {c} : job'[d] = job[d] /\ pc'[d] = pc[d],
         job'[c] \in {job[c], NoJob},
         job'[c] = job[c] /\ InFlight(c)' =>
           state' \in {IF job[c].op = "load" THEN "Loading" ELSE "Parsing", "Draining"} \cup Absorbing
  PROVE  LockInv'
<1>1. NoJob.op = "none"
  BY DEF NoJob
<1>2. \A d \in Clients : job'[d].op \in {"load", "parse"} => d = c /\ job'[c] = job[c]
  BY <1>1 DEF LockInv
<1>3. InFlightIsBusy'
  BY <1>2 DEF InFlightIsBusy
<1>4. QED
  BY <1>2, <1>3 DEF LockInv

\* What a client admitted finds when it starts.
LEMMA FoundIdle ==
  ASSUME SpawnInv, StageInv, LockInv, BusyIsOwned, TypeOK, NEW c \in Clients, pc[c] = "accepted"
  PROVE  state \in {"Ready", "Draining"} \cup Absorbing
<1>1. state \notin {"Parsing", "Loading"}
  BY DEF LockInv, BusyIsOwned, InFlight
<1>2. Live
  BY DEF SpawnInv, Unused
<1>3. QED
  BY <1>1, <1>2 DEF StageInv, TypeOK, PluginProcessState, Absorbing

\* The plugin lock keeps one load or parse, which shows in the state.
LEMMA LockStep ==
  ASSUME TypeOK, EndInv, SpawnInv, FinishInv, BusyIsOwned, StageInv, PluginLock, LockInv, [Next]_vars
  PROVE  LockInv'
<1> USE HostTasks DEF TypeOK, FinishInv, LockInv, InFlightIsBusy, InFlight, Live, End, Absorbing,
         callVars, chanVars, taskVars, procVars, dogVars, endVars, bookVars
<1>1. CASE Spawn
  BY <1>1 DEF Spawn, SpawnRefused, SpawnProcess, QuickExit, SpawnSurvives, GreetPlugin, HandshakeAccepted,
     HandshakeMismatch, HandshakeFailed, HandshakeTimeout, Publish, Goto, ApplyEv, Apply, Started, Working, Terminate
<1>2. CASE \E c \in Caller : Call(c) \/ \E r \in {"ok", "error"} : Respond(c, r)
  BY <1>2 DEF Call, CheckChannel, Register, Enqueue, CallTimeout, Respond, Drain, Goto, Return
<1>3. CASE \E c \in Clients : Begin(c)
  BY <1>3 DEF Begin, Free, Admit, BeginCall, BeginShutdown, Goto, ApplyEv, Apply, Started, Working, Stop
<1>4. CASE \E c \in Clients : StartLoad(c) \/ FinishLoad(c) \/ RememberFile(c)
  <2>1. PICK c \in Clients : StartLoad(c) \/ FinishLoad(c) \/ RememberFile(c)
    BY <1>4
  <2>2. CASE StartLoad(c)
    <3>1. state' \in {"Loading", "Draining"} \cup Absorbing
      BY <2>2, FoundIdle DEF StartLoad, ApplyEv, Apply, Started, Working
    <3>2. job[c].op = "load" /\ job' = job /\ pc' = [pc EXCEPT ![c] = "call"]
      BY <2>2 DEF StartLoad, Goto
    <3>3. QED
      BY <3>1, <3>2, OneMoves
  <2>3. CASE FinishLoad(c)
    <3>1. job[c].op = "load" /\ job' \in {job, [job EXCEPT ![c] = NoJob]} /\ ~InFlight(c)'
      BY <2>3 DEF FinishLoad, Leave, Goto
    <3>2. pc' \in {[pc EXCEPT ![c] = "remember"], [pc EXCEPT ![c] = "idle"]}
      BY <2>3 DEF FinishLoad, Leave, Goto
    <3>3. QED
      BY <3>1, <3>2, OneMoves
  <2>4. CASE RememberFile(c)
    <3>1. job[c].op = "load" /\ job' = [job EXCEPT ![c] = NoJob] /\ UNCHANGED state
      BY <2>4 DEF RememberFile
    <3>2. pc'[c] = "idle" /\ \A d \in Clients \ {c} : pc'[d] = pc[d]
      BY <2>4 DEF RememberFile, IdleOff
    <3>3. QED
      BY <3>1, <3>2, OneMoves
  <2>5. QED
    BY <2>1, <2>2, <2>3, <2>4
<1>5. CASE \E c \in Clients : StartParse(c) \/ StopWatchdog(c) \/ FinishParse(c)
  <2>1. PICK c \in Clients : StartParse(c) \/ StopWatchdog(c) \/ FinishParse(c)
    BY <1>5
  <2>2. CASE StartParse(c)
    <3>1. state' \in {"Parsing", "Draining"} \cup Absorbing
      BY <2>2, FoundIdle DEF StartParse, ApplyEv, Apply, Started, Working
    <3>2. job[c].op = "parse" /\ job' = job /\ pc' = [pc EXCEPT ![c] = "call"]
      BY <2>2 DEF StartParse, Goto
    <3>3. QED
      BY <3>1, <3>2, OneMoves
  <2>3. CASE StopWatchdog(c)
    <3>1. /\ job[c].op = "parse" /\ pc[c] = "return" /\ job' = job
          /\ pc' = [pc EXCEPT ![c] = "finish"] /\ UNCHANGED state
      BY <2>3 DEF StopWatchdog, Goto
    <3>2. state \in {"Parsing", "Draining"} \cup Absorbing
      BY <3>1
    <3>3. QED
      BY <3>1, <3>2, OneMoves
  <2>4. CASE FinishParse(c)
    <3>1. job[c].op = "parse" /\ job' = [job EXCEPT ![c] = NoJob]
      BY <2>4 DEF FinishParse, Leave
    <3>2. pc' = [pc EXCEPT ![c] = "idle"]
      BY <2>4 DEF FinishParse, Leave
    <3>3. QED
      BY <3>1, <3>2, OneMoves
  <2>5. QED
    BY <2>1, <2>2, <2>3, <2>4
<1>6. CASE \E c \in Clients : FinishUnload(c) \/ FinishQuery(c) \/ SweepOrphans(c)
  <2>1. PICK c \in Clients : FinishUnload(c) \/ FinishQuery(c) \/ SweepOrphans(c)
    BY <1>6
  <2>2. job' = [job EXCEPT ![c] = NoJob] /\ UNCHANGED state
    BY <2>1 DEF FinishUnload, FinishQuery, SweepOrphans, Leave
  <2>3. pc'[c] = "idle" /\ \A d \in Clients \ {c} : pc'[d] = pc[d]
    BY <2>1 DEF FinishUnload, FinishQuery, SweepOrphans, Leave, IdleOff, IdleReset
  <2>4. NoJob.op = "none"
    BY DEF NoJob
  <2>5. QED
    BY <2>2, <2>3, <2>4, StillLocked
<1>7. CASE \E c \in Clients : Watch(c)
  BY <1>7 DEF Watch, WatcherAborted, WatcherFires, WatcherChecks, WatcherStandsDown, WatcherKills, Watcher, Terminate
<1>8. CASE \E c \in Clients \cup {"idle"} : EndShutdown(c)
  <2>1. PICK c \in Clients \cup {"idle"} : EndShutdown(c)
    BY <1>8
  <2>2. job' \in {job, [job EXCEPT ![c] = NoJob]} /\ UNCHANGED state
    BY <2>1 DEF EndShutdown, CloseStdin, FinishShutdown, Leave
  <2>3. \E l \in {"idle", "off", "closing", "sweep"} : pc' = [pc EXCEPT ![c] = l]
    BY <2>1 DEF EndShutdown, CloseStdin, FinishShutdown, Goto, Leave
  <2>4. NoJob.op = "none" /\ \A d \in Clients : d \in Caller
    BY DEF NoJob
  <2>5. QED
    BY <2>2, <2>3, <2>4, StillLocked
<1>9. CASE IdleFires
  BY <1>9 DEF IdleFires, Enqueue, Drain, Goto, Return, ApplyEv, Apply, Started, Working
<1>10. CASE WatchdogExpires \/ Heartbeat
  BY <1>10 DEF WatchdogExpires, Heartbeat
<1>11. CASE TermApply
  <2>1. UNCHANGED <<pc, job>> /\ state' = Apply(state, term.ev) /\ term.step = "apply"
    BY <1>11 DEF TermApply, Step, ApplyEv
  <2>2. term.ev \in {"SpawnFailed", "ProtocolFatalError", "HeartbeatMissed", "ExitConfirmed"}
    BY <2>1 DEF EndInv
  <2>3. state' = state \/ state' \in {"Draining"} \cup Absorbing
    BY <2>1, <2>2 DEF Apply, Started, Working
  <2>4. QED
    BY <2>1, <2>3, StillLocked
<1>12. CASE TermDrain
  BY <1>12 DEF TermDrain, Drain, Step
<1>13. CASE TermFlushed \/ TermAborted \/ TermFinish
  BY <1>13 DEF TermFlushed, TermAborted, TermFinish, Step
<1>14. CASE ProcessExits \/ KillProcess \/ ObserveExit
  BY <1>14 DEF ProcessExits, KillProcess, ObserveExit, Terminate
<1>15. CASE FatalFrame \/ StdoutEof \/ WriteFails \/ WriterStops
  BY <1>15 DEF FatalFrame, StdoutEof, WriteFails, WriterStops, Terminate
<1>16. CASE UNCHANGED vars
  BY <1>16 DEF vars
<1>17. QED
  BY <1>1, <1>2, <1>3, <1>4, <1>5, <1>6, <1>7, <1>8, <1>9, <1>10, <1>11, <1>12, <1>13, <1>14, <1>15, <1>16 DEF Next, Proceed, Termination

-----------------------------------------------------------------------------
(* The theorems *)

LEMMA InitInv == Init => IInv
<1> SUFFICES ASSUME Init PROVE IInv
  OBVIOUS
<1>1. TypeOK
  BY InitType
<1>2. EndInv /\ ReportedOnce /\ ExitEndsTheSession /\ KillInv
  BY DEF Init, NoEnd, EndInv, ReportedOnce, ExitEndsTheSession, Settled, KillInv, PastKill
<1>3. SpawnInv /\ EarlyInv /\ FinishInv /\ BusyIsOwned
  BY HostTasks DEF Init, SpawnInv, EarlyInv, FinishInv, BusyIsOwned, Unused, Live
<1>4. StageInv /\ LockInv
  BY HostTasks DEF Init, StageInv, LockInv, InFlightIsBusy, InFlight, Live, NoJob
<1>5. QED
  BY <1>1, <1>2, <1>3, <1>4 DEF IInv

LEMMA Inductive == IInv /\ [Next]_vars => IInv'
  BY NextType, EndInvStep, BusyStep, SpawnStep, EarlyStep, KillStep, ExitStep, StageStep, LockStep DEF IInv

THEOREM Invariance == Spec => []IInv
  BY InitInv, Inductive, PTL DEF Spec

(***************************************************************************)
(* SessionTerminated is sent once, after the calls in flight were drained, *)
(* however many tasks race to call terminate_from.                         *)
(***************************************************************************)
THEOREM Reported == Spec => []ReportedOnce
<1>1. IInv => ReportedOnce
  BY DEF IInv
<1>2. QED
  BY <1>1, Invariance, PTL

(***************************************************************************)
(* on_process_exit, the quick-exit poll and on_pipe_broken find the state  *)
(* machine where their event is legal, so the session ends absorbed.       *)
(***************************************************************************)
THEOREM ExitEnds == Spec => []ExitEndsTheSession
<1>1. IInv => ExitEndsTheSession
  BY DEF IInv
<1>2. QED
  BY <1>1, Invariance, PTL

(***************************************************************************)
(* A session shown as Shutdown, Crashed or Timeout has no process left     *)
(* that nobody is going to kill: the kills that terminate_from can lose    *)
(* all belong to sessions that never reach an absorbing state.             *)
(***************************************************************************)
THEOREM NoOrphan == Spec => []AbsorbingHasNoProcess
<1>1. IInv => AbsorbingHasNoProcess
  BY DEF IInv, SpawnInv, KillInv, Killed, Leaked, AbsorbingHasNoProcess, Absorbing
<1>2. QED
  BY <1>1, Invariance, PTL

(***************************************************************************)
(* Parsing and Loading never outlive the parse or load_file that set them, *)
(* so reject_busy never refuses for ever.                                  *)
(***************************************************************************)
THEOREM BusyOwned == Spec => []BusyIsOwned
<1>1. IInv => BusyIsOwned
  BY DEF IInv
<1>2. QED
  BY <1>1, Invariance, PTL

(***************************************************************************)
(* Under the engine's plugin lock a load or parse in flight shows in the   *)
(* state until the session drains or ends: reject_busy and the watchdog's  *)
(* check of the state cannot miss it.                                      *)
(***************************************************************************)
THEOREM InFlightBusy == Spec => [](PluginLock => InFlightIsBusy)
<1>1. IInv => (PluginLock => InFlightIsBusy)
  BY DEF IInv, LockInv
<1>2. QED
  BY <1>1, Invariance, PTL
=============================================================================
