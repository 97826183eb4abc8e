------------------------- MODULE PluginStateMachine -------------------------
(***************************************************************************)
(* The state machine of one "plugin x session" instance: the transition    *)
(* table of StateMachine::apply in core/ab-host/src/session.rs.  An event  *)
(* with no row is illegal: apply returns None and the state stays.         *)
(***************************************************************************)

PluginProcessState ==
  { "Discovered", "Spawning", "Initializing", "Ready", "Loading", "Parsing",
    "Draining", "Shutdown", "Crashed", "Timeout" }

SmEvent ==
  { "SpawnRequested", "SpawnFailed", "Initialized", "LoadStarted",
    "LoadFinished", "ParseStarted", "ParseFinished", "ShutdownRequested",
    "ExitConfirmed", "HeartbeatMissed", "ProtocolFatalError" }

\* PluginProcessState::is_absorbing
Absorbing == { "Shutdown", "Crashed", "Timeout" }

\* States in which the plugin has been greeted and is expected to answer.
Working == { "Initializing", "Ready", "Loading", "Parsing" }

\* The states of a session whose process was started and not yet asked to stop.
Started == { "Spawning" } \cup Working

\* Mutant: an exit while Draining has no row.
ApplyForgetsDraining(s, ev) ==
  CASE s = "Discovered"   /\ ev = "SpawnRequested"     -> "Spawning"
    [] s = "Spawning"     /\ ev = "SpawnFailed"        -> "Crashed"
    [] s = "Spawning"     /\ ev = "Initialized"        -> "Initializing"
    [] s = "Initializing" /\ ev = "Initialized"        -> "Ready"
    [] s = "Ready"        /\ ev = "LoadStarted"        -> "Loading"
    [] s = "Loading"      /\ ev = "LoadFinished"       -> "Ready"
    [] s = "Ready"        /\ ev = "ParseStarted"       -> "Parsing"
    [] s = "Parsing"      /\ ev = "ParseFinished"      -> "Ready"
    [] s \in Started      /\ ev = "ShutdownRequested"  -> "Draining"
    [] s \in Started      /\ ev = "ExitConfirmed"      -> "Crashed"
    [] OTHER -> s

(***************************************************************************)
(* StateMachine::apply.  An illegal event leaves the state as it is.       *)
(***************************************************************************)
Apply(s, ev) ==
  CASE s = "Discovered"   /\ ev = "SpawnRequested"     -> "Spawning"
    [] s = "Discovered"   /\ ev = "ShutdownRequested"  -> "Shutdown"
    [] s = "Spawning"     /\ ev = "SpawnFailed"        -> "Crashed"
    [] s = "Spawning"     /\ ev = "Initialized"        -> "Initializing"
    [] s = "Initializing" /\ ev = "Initialized"        -> "Ready"
    [] s = "Ready"        /\ ev = "LoadStarted"        -> "Loading"
    [] s = "Loading"      /\ ev = "LoadFinished"       -> "Ready"
    [] s = "Ready"        /\ ev = "ParseStarted"       -> "Parsing"
    [] s = "Parsing"      /\ ev = "ParseFinished"      -> "Ready"
    [] s \in Started      /\ ev = "ShutdownRequested"  -> "Draining"
    [] s \in Started      /\ ev = "ExitConfirmed"      -> "Crashed"
    [] s \in Working      /\ ev = "ProtocolFatalError" -> "Crashed"
    [] s \in Working \ {"Ready"} /\ ev = "HeartbeatMissed" -> "Timeout"
    [] s = "Draining" /\ ev \in {"ExitConfirmed", "ProtocolFatalError"} -> "Shutdown"
    [] OTHER -> s
=============================================================================
