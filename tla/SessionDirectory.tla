---------------------------- MODULE SessionDirectory ----------------------------
(***************************************************************************)
(* Who holds a plugin's process: the runtime's session map with its spawn  *)
(* locks (PluginRuntime::get_or_spawn of ab-host's session.rs) and the     *)
(* coordinator's three maps (registry, adapters and host_sessions of       *)
(* ab-engine's pipeline_bridge.rs) under ensure_session, probe_plugin,     *)
(* reload_session and shutdown_plugin_sessions.                            *)
(*                                                                         *)
(* What happens inside a session is PluginSession's subject; here it is    *)
(* starting, live, draining or dead.                                       *)
(***************************************************************************)
EXTENDS Naturals, Sequences, FiniteSets

CONSTANTS
  Plugins,
  Callers,    \* tasks of the engine: imports, probes and commands
  MaxSpawns,  \* bound on the processes started
  NoCaller

ASSUME CallerAssumption == NoCaller \notin Callers

VARIABLES
  found,         \* the version discovery offers of each plugin, 0 if none
  processes,     \* every process started: its plugin, its version, its state
  sessions,      \* PluginRuntime::sessions, by position in processes, 0 if none
  spawnLock,     \* PluginRuntime::spawn_locks
  registry,      \* SessionRegistry: the session behind the adapter
  adapters,
  hostSessions,
  call           \* what each task does: operation, step, plugin, session at hand

maps == <<registry, adapters, hostSessions>>
runtimeVars == <<processes, sessions, spawnLock>>
directoryVars == <<found, runtimeVars, maps, call>>

NoCall == [op |-> "none", at |-> "idle", plugin |-> "none", s |-> 0]

DirectoryInit ==
  /\ processes = <<>>
  /\ sessions = [p \in Plugins |-> 0] /\ spawnLock = [p \in Plugins |-> NoCaller]
  /\ registry = [p \in Plugins |-> 0] /\ adapters = [p \in Plugins |-> 0]
  /\ hostSessions = [p \in Plugins |-> 0]
  /\ call = [c \in Callers |-> NoCall]

Live(s) == s # 0 /\ processes[s].state # "dead"
AtStep(c, l) == call[c].at = l
GoTo(c, l) == call' = [call EXCEPT ![c].at = l]
Holds(c, s, l) == call' = [call EXCEPT ![c].s = s, ![c].at = l]
Return(c) == call' = [call EXCEPT ![c] = NoCall]
SetState(s, x) == processes' = [processes EXCEPT ![s].state = x]

Begin(c, o, p, l, s) ==
  call' = [call EXCEPT ![c] = [op |-> o, at |-> l, plugin |-> p, s |-> s]]

-----------------------------------------------------------------------------
(* ensure_session, probe_plugin *)

\* A live adapter is handed out; a dead one is forgotten in all three maps.
Ensure(c, p) ==
  /\ AtStep(c, "idle")
  /\ IF Live(registry[p])
     THEN Begin(c, "ensure", p, "use", registry[p]) /\ UNCHANGED maps
     ELSE /\ Begin(c, "ensure", p, "lock", 0)
          /\ IF registry[p] = 0 THEN UNCHANGED maps
             ELSE /\ registry' = [registry EXCEPT ![p] = 0]
                  /\ adapters' = [adapters EXCEPT ![p] = 0]
                  /\ hostSessions' = [hostSessions EXCEPT ![p] = 0]
  /\ UNCHANGED <<found, runtimeVars>>

\* Matching asks the runtime straight away, whatever the registry holds.
Probe(c, p) ==
  /\ AtStep(c, "idle") /\ Begin(c, "probe", p, "lock", 0)
  /\ UNCHANGED <<found, runtimeVars, maps>>

\* The import or the can_handle call is over.
Finish(c) ==
  /\ AtStep(c, "use") /\ call' = [call EXCEPT ![c] = NoCall]
  /\ UNCHANGED <<found, runtimeVars, maps>>

-----------------------------------------------------------------------------
(* reload_session, shutdown_plugin_sessions *)

\* stop_host_session takes the session out of host_sessions; without one there
\* is nothing to stop.
TakeHostSession(c, o, p) ==
  /\ AtStep(c, "idle")
  /\ Begin(c, o, p, IF hostSessions[p] # 0 THEN "stop" ELSE IF o = "reload" THEN "lock" ELSE "stopped",
           hostSessions[p])
  /\ hostSessions' = [hostSessions EXCEPT ![p] = 0]
  /\ UNCHANGED <<found, runtimeVars, registry, adapters>>

\* shutdown asks the process to end; a dead one is done with.
AskToStop(c) ==
  /\ AtStep(c, "stop") /\ GoTo(c, "stopping")
  /\ IF Live(call[c].s) THEN SetState(call[c].s, "draining") ELSE UNCHANGED processes
  /\ UNCHANGED <<found, sessions, spawnLock, maps>>

Stopped(c) ==
  /\ AtStep(c, "stopping")
  /\ SetState(call[c].s, "dead")
  /\ GoTo(c, IF call[c].op = "reload" THEN "lock" ELSE "stopped")
  /\ UNCHANGED <<found, sessions, spawnLock, maps>>

-----------------------------------------------------------------------------
(* get_or_spawn *)

Unlock(p) == spawnLock' = [spawnLock EXCEPT ![p] = NoCaller]

\* Mutant: nobody waits for the lock.
TakeNoSpawnLock(c) ==
  /\ AtStep(c, "lock") /\ GoTo(c, "locked")
  /\ spawnLock' = [spawnLock EXCEPT ![call[c].plugin] = c]
  /\ UNCHANGED <<found, processes, sessions, maps>>

TakeSpawnLock(c) ==
  /\ AtStep(c, "lock") /\ spawnLock[call[c].plugin] = NoCaller /\ GoTo(c, "locked")
  /\ spawnLock' = [spawnLock EXCEPT ![call[c].plugin] = c]
  /\ UNCHANGED <<found, processes, sessions, maps>>

\* The session the map holds lives: a draining one counts.
Reuse(c) ==
  /\ AtStep(c, "locked") /\ Live(sessions[call[c].plugin])
  /\ Holds(c, sessions[call[c].plugin], "register") /\ Unlock(call[c].plugin)
  /\ UNCHANGED <<found, processes, sessions, maps>>

NotFound(c) ==
  /\ AtStep(c, "locked") /\ ~Live(sessions[call[c].plugin]) /\ found[call[c].plugin] = 0
  /\ Holds(c, 0, "failed") /\ Unlock(call[c].plugin)
  /\ UNCHANGED <<found, processes, sessions, maps>>

StartProcess(c) ==
  LET p == call[c].plugin IN
  /\ AtStep(c, "locked") /\ ~Live(sessions[p]) /\ found[p] # 0 /\ Len(processes) < MaxSpawns
  /\ processes' = Append(processes, [plugin |-> p, version |-> found[p], state |-> "starting"])
  /\ Holds(c, Len(processes'), "spawning")
  /\ UNCHANGED <<found, sessions, spawnLock, maps>>

\* The handshake succeeds and the session is published, which its process may
\* not have lived to see.
Spawned(c) ==
  /\ AtStep(c, "spawning") /\ GoTo(c, "register")
  /\ IF processes[call[c].s].state = "starting" THEN SetState(call[c].s, "live")
     ELSE UNCHANGED processes
  /\ sessions' = [sessions EXCEPT ![call[c].plugin] = call[c].s] /\ Unlock(call[c].plugin)
  /\ UNCHANGED <<found, maps>>

SpawnFails(c) ==
  /\ AtStep(c, "spawning") /\ SetState(call[c].s, "dead")
  /\ Holds(c, 0, "failed") /\ Unlock(call[c].plugin)
  /\ UNCHANGED <<found, sessions, maps>>

\* The caller's adapter goes into the registry, and into adapters unless this
\* is a reload; then, under another lock, the session into host_sessions.
Register(c) ==
  LET p == call[c].plugin IN
  /\ AtStep(c, "register") /\ GoTo(c, "list")
  /\ registry' = [registry EXCEPT ![p] = call[c].s]
  /\ adapters' = IF call[c].op = "reload" THEN adapters ELSE [adapters EXCEPT ![p] = call[c].s]
  /\ UNCHANGED <<found, runtimeVars, hostSessions>>

List(c) ==
  /\ AtStep(c, "list") /\ GoTo(c, IF call[c].op = "reload" THEN "reloaded" ELSE "use")
  /\ hostSessions' = [hostSessions EXCEPT ![call[c].plugin] = call[c].s]
  /\ UNCHANGED <<found, runtimeVars, registry, adapters>>

\* An error is the caller's result.
GiveUp(c) ==
  /\ AtStep(c, "failed") /\ call[c].op # "reload" /\ call' = [call EXCEPT ![c] = NoCall]
  /\ UNCHANGED <<found, runtimeVars, maps>>

\* A process crashes or its session is reclaimed after idling.
Die(s) ==
  /\ processes[s].state \in {"live", "starting"} /\ SetState(s, "dead")
  /\ UNCHANGED <<found, sessions, spawnLock, maps, call>>

Serve(c) ==
  \/ TakeSpawnLock(c) \/ Reuse(c) \/ NotFound(c) \/ StartProcess(c) \/ Spawned(c) \/ SpawnFails(c)
  \/ Register(c) \/ List(c) \/ GiveUp(c) \/ AskToStop(c) \/ Stopped(c) \/ Finish(c)

-----------------------------------------------------------------------------
(* Properties *)

\* A plugin has one process at a time, and all maps that name a live one name
\* the one the runtime knows: no import talks to a process that reload,
\* uninstall and shutdown cannot reach.
OneProcess ==
  \A p \in Plugins :
    /\ Cardinality({s \in 1 .. Len(processes) : processes[s].plugin = p /\ Live(s)}) <= 1
    /\ \A s \in {registry[p], adapters[p], hostSessions[p]} : Live(s) => s = sessions[p]

-----------------------------------------------------------------------------
(* The inductive invariant of PluginModulesProofs *)

Procs == [plugin : Plugins, version : Nat, state : {"starting", "live", "draining", "dead"}]
CallSteps == {"idle", "lock", "locked", "spawning", "register", "list", "use", "stop", "stopping",
              "stopped", "reloaded", "failed"}
Calls == [op : {"none", "ensure", "probe", "reload", "stop"}, at : CallSteps,
          plugin : Plugins \cup {"none"}, s : Nat]

DirectoryTypeOK ==
  /\ processes \in Seq(Procs)
  /\ sessions \in [Plugins -> Nat]
  /\ spawnLock \in [Plugins -> Callers \cup {NoCaller}]
  /\ registry \in [Plugins -> Nat] /\ adapters \in [Plugins -> Nat]
  /\ hostSessions \in [Plugins -> Nat]
  /\ call \in [Callers -> Calls]

\* A process of p; one the runtime knows, if it lives.
Of(s, p) == s \in 1 .. Len(processes) /\ processes[s].plugin = p
Reachable(s, p) == Of(s, p) /\ (Live(s) => s = sessions[p])

\* A task in get_or_spawn holds the plugin's lock; the process it starts is
\* the only one, and the map has none that lives.
SpawnInv ==
  \A c \in Callers :
    /\ ~AtStep(c, "idle") => call[c].plugin \in Plugins
    /\ AtStep(c, "locked") \/ AtStep(c, "spawning") => spawnLock[call[c].plugin] = c
    /\ AtStep(c, "spawning") =>
         Of(call[c].s, call[c].plugin) /\ ~Live(sessions[call[c].plugin])

\* Every process that lives is the map's or in the hands of who starts it.
LivesInv ==
  \A s \in 1 .. Len(processes) :
    Live(s) => \/ s = sessions[processes[s].plugin]
               \/ \E c \in Callers : AtStep(c, "spawning") /\ call[c].s = s

\* What the maps name, and what a task is about to write into them, stop or use.
MapsInv ==
  /\ \A p \in Plugins :
       /\ sessions[p] # 0 => Of(sessions[p], p)
       /\ \A s \in {registry[p], adapters[p], hostSessions[p]} : s # 0 => Reachable(s, p)
  /\ \A c \in Callers : call[c].at \in {"register", "list", "use", "stop", "stopping"}
                         => Reachable(call[c].s, call[c].plugin)

DirectoryInv == SpawnInv /\ LivesInv /\ MapsInv
=================================================================================
