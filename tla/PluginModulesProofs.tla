-------------------------- MODULE PluginModulesProofs --------------------------
(***************************************************************************)
(* Proofs about the module commands and the plugin processes beneath them, *)
(* for all sets of plugins, tasks, zips and versions and any number of     *)
(* processes and commands: a plugin has one process, a sound builtin       *)
(* module is kept, and no command that ends leaves its directory.  And     *)
(* about the questions put to several plugins at once: each answer is what *)
(* its own plugin said.                                                    *)
(***************************************************************************)
EXTENDS PluginModules, PluginFanOut, SumLemmas, SequenceTheorems, TLAPS

\* A step that starts no process, and brings none back to life.
NoneRises ==
  /\ processes' \in Seq(Procs) /\ Len(processes') = Len(processes)
  /\ \A t \in 1 .. Len(processes) :
       /\ processes'[t].plugin = processes[t].plugin
       /\ processes'[t].state # "dead" => processes[t].state # "dead"

DInv == DirectoryTypeOK /\ DirectoryInv

-----------------------------------------------------------------------------
(* Processes *)

\* A process that changes its state keeps its plugin, and the others both.
LEMMA SetStateIs ==
  ASSUME DirectoryTypeOK, NEW s \in 1 .. Len(processes),
         NEW x \in {"starting", "live", "draining", "dead"}, SetState(s, x)
  PROVE  /\ processes' \in Seq(Procs) /\ Len(processes') = Len(processes)
         /\ \A t \in 1 .. Len(processes) :
              /\ processes'[t].plugin = processes[t].plugin
              /\ processes'[t].state = IF t = s THEN x ELSE processes[t].state
<1>1. processes \in Seq(Procs) /\ processes' = [processes EXCEPT ![s].state = x]
  BY DEF DirectoryTypeOK, SetState, Procs
<1>2. processes[s] \in Procs /\ [processes[s] EXCEPT !.state = x] \in Procs
  <2>1. processes[s] \in Procs
    BY <1>1
  <2>2. QED
    BY <2>1 DEF Procs
<1>3. processes' = [processes EXCEPT ![s] = [processes[s] EXCEPT !.state = x]]
  BY <1>1
<1>4. processes' \in Seq(Procs) /\ Len(processes') = Len(processes)
  <2> DEFINE e == [processes[s] EXCEPT !.state = x]
  <2>1. e \in Procs /\ processes' = [processes EXCEPT ![s] = e]
    BY <1>2, <1>3
  <2> HIDE DEF e
  <2>2. QED
    BY <1>1, <2>1, ExceptSeq
<1>5. ASSUME NEW t \in 1 .. Len(processes)
      PROVE  /\ processes'[t].plugin = processes[t].plugin
             /\ processes'[t].state = IF t = s THEN x ELSE processes[t].state
  BY <1>1, <1>2 DEF Procs
<1>6. QED
  BY <1>4, <1>5

LEMMA SetStateNoneRises ==
  ASSUME DirectoryTypeOK, NEW s \in 1 .. Len(processes),
         NEW x \in {"starting", "live", "draining", "dead"}, SetState(s, x),
         x = "dead" \/ processes[s].state # "dead"
  PROVE  NoneRises
  BY SetStateIs DEF NoneRises

LEMMA SameNoneRises == ASSUME DirectoryTypeOK, UNCHANGED processes PROVE NoneRises
  BY DEF DirectoryTypeOK, NoneRises, Procs

\* A process that is started comes last.
LEMMA StartIs ==
  ASSUME DirectoryTypeOK, NEW r \in Procs, processes' = Append(processes, r)
  PROVE  /\ processes' \in Seq(Procs) /\ Len(processes') = Len(processes) + 1
         /\ Len(processes) \in Nat /\ processes'[Len(processes) + 1] = r
         /\ \A t \in 1 .. Len(processes) : processes'[t] = processes[t]
<1>1. processes \in Seq(Procs)
  BY DEF DirectoryTypeOK, Procs
<1>2. QED
  BY <1>1

\* What the runtime knows it still knows when none rises.
LEMMA StaysReachable ==
  ASSUME DirectoryTypeOK, NoneRises, UNCHANGED sessions, NEW s, NEW p, Reachable(s, p)
  PROVE  Reachable(s, p)'
  BY DEF DirectoryTypeOK, NoneRises, Reachable, Of, Live

-----------------------------------------------------------------------------
(* The steps of the directory *)

\* A task that begins, goes on or returns outside the lock, with what it has
\* in hand known to the runtime, while maps may come to name what is known.
LEMMA CallStep ==
  ASSUME DInv, NoneRises, UNCHANGED <<sessions, spawnLock>>,
         NEW c \in Callers, NEW r \in Calls, call' = [call EXCEPT ![c] = r],
         r.at \notin {"locked", "spawning"}, call[c].at \notin {"locked", "spawning"},
         r.at # "idle" => r.plugin \in Plugins,
         r.at \in {"register", "list", "use", "stop", "stopping"} => Reachable(r.s, r.plugin),
         registry' \in [Plugins -> Nat], adapters' \in [Plugins -> Nat],
         hostSessions' \in [Plugins -> Nat],
         \A p \in Plugins : \A s \in {registry'[p], adapters'[p], hostSessions'[p]} :
           s # 0 => Reachable(s, p)
  PROVE  DInv'
<1> USE DEF DInv
<1>1. DirectoryTypeOK'
  BY DEF DirectoryTypeOK, NoneRises, Procs, Calls
<1>2. \A d \in Callers : call'[d] = IF d = c THEN r ELSE call[d]
  BY DEF DirectoryTypeOK
<1>3. SpawnInv'
  BY <1>2 DEF DirectoryTypeOK, NoneRises, DirectoryInv, SpawnInv, MapsInv, AtStep, Of, Live
<1>4. LivesInv'
  <2>1. SUFFICES ASSUME NEW s \in 1 .. Len(processes), Live(s)'
                 PROVE  \/ s = sessions[processes[s].plugin]
                        \/ \E d \in Callers : AtStep(d, "spawning")' /\ call'[d].s = s
    BY DEF LivesInv, NoneRises
  <2>2. Live(s)
    BY <2>1 DEF NoneRises, Live
  <2>3. CASE s = sessions[processes[s].plugin]
    BY <2>3
  <2>4. CASE \E d \in Callers : AtStep(d, "spawning") /\ call[d].s = s
    BY <1>2, <2>4 DEF AtStep
  <2>5. QED
    BY <2>2, <2>3, <2>4 DEF DirectoryInv, LivesInv
<1>5. MapsInv'
  <2>1. ASSUME NEW p \in Plugins, sessions[p] # 0 PROVE Of(sessions[p], p)'
    BY <2>1 DEF DirectoryInv, MapsInv, NoneRises, Of
  <2>2. ASSUME NEW p \in Plugins, NEW s \in {registry'[p], adapters'[p], hostSessions'[p]}, s # 0
        PROVE  Reachable(s, p)'
    BY <2>2, StaysReachable
  <2>3. ASSUME NEW d \in Callers, call'[d].at \in {"register", "list", "use", "stop", "stopping"}
        PROVE  Reachable(call[d].s, call[d].plugin)'
    <3>1. Reachable(call'[d].s, call'[d].plugin)
      BY <1>2, <2>3 DEF DirectoryInv, MapsInv
    <3>2. \A s, p : Reachable(s, p) => Reachable(s, p)'
      BY StaysReachable
    <3>3. QED
      BY <3>1, <3>2 DEF Reachable, Of, Live
  <2>4. QED
    BY <2>1, <2>2, <2>3 DEF MapsInv
<1>6. QED
  BY <1>1, <1>3, <1>4, <1>5 DEF DirectoryInv

\* What a task has in hand is a call, and its parts are of their kinds.
LEMMA CallIs ==
  ASSUME DInv, NEW c \in Callers
  PROVE  /\ call[c] \in Calls
         /\ call[c].at # "idle" => call[c].plugin \in Plugins
<1>1. call[c] \in Calls
  BY DEF DInv, DirectoryTypeOK
<1>2. QED
  BY <1>1 DEF DInv, DirectoryInv, SpawnInv, AtStep

LEMMA GoIs ==
  ASSUME NEW r \in Calls, NEW l \in CallSteps
  PROVE  /\ r.s \in Nat
         /\ [r EXCEPT !.at = l] \in Calls /\ [r EXCEPT !.at = l].at = l
         /\ [r EXCEPT !.at = l].s = r.s /\ [r EXCEPT !.at = l].plugin = r.plugin
  BY DEF Calls

LEMMA HoldIs ==
  ASSUME NEW r \in Calls, NEW n \in Nat
  PROVE  /\ [r EXCEPT !.s = n] \in Calls /\ [r EXCEPT !.s = n].s = n
         /\ [r EXCEPT !.s = n].plugin = r.plugin
  BY DEF Calls

\* The maps as they are name what the runtime knows.
LEMMA MapsKnown ==
  ASSUME DInv
  PROVE  /\ registry \in [Plugins -> Nat] /\ adapters \in [Plugins -> Nat]
         /\ hostSessions \in [Plugins -> Nat] /\ sessions \in [Plugins -> Nat]
         /\ \A p \in Plugins : \A s \in {registry[p], adapters[p], hostSessions[p]} :
              s # 0 => Reachable(s, p)
  BY DEF DInv, DirectoryTypeOK, DirectoryInv, MapsInv

LEMMA BeginIs ==
  ASSUME NEW o \in {"ensure", "probe", "reload", "stop"}, NEW l \in CallSteps,
         NEW p \in Plugins, NEW n \in Nat
  PROVE  [op |-> o, at |-> l, plugin |-> p, s |-> n] \in Calls
  BY DEF Calls

LEMMA NoCallIs == NoCall \in Calls /\ NoCall.at = "idle" /\ NoCall.plugin = "none"
  BY DEF Calls, CallSteps, NoCall

LEMMA EnsureStep == ASSUME DInv, NEW c \in Callers, NEW p \in Plugins, Ensure(c, p) PROVE DInv'
<1>1. NoneRises /\ UNCHANGED <<sessions, spawnLock>> /\ call[c].at = "idle"
  BY SameNoneRises DEF Ensure, runtimeVars, AtStep, DInv
<1>2. CASE Live(registry[p])
  <2> DEFINE r == [op |-> "ensure", at |-> "use", plugin |-> p, s |-> registry[p]]
  <2>1. r \in Calls
    BY MapsKnown, BeginIs DEF CallSteps
  <2>4. call' = [call EXCEPT ![c] = r] /\ UNCHANGED maps
    BY <1>2 DEF Ensure, Begin
  <2>2. Reachable(registry[p], p)
    BY <1>2, MapsKnown DEF Live
  <2>3. r.at = "use" /\ r.s = registry[p] /\ r.plugin = p
    OBVIOUS
  <2> HIDE DEF r
  <2>5. QED
    BY <1>1, <2>1, <2>2, <2>3, <2>4, CallStep, MapsKnown DEF maps
<1>3. CASE ~Live(registry[p])
  <2> DEFINE r == [op |-> "ensure", at |-> "lock", plugin |-> p, s |-> 0]
  <2>1. r \in Calls
    BY BeginIs DEF CallSteps
  <2>5. call' = [call EXCEPT ![c] = r] /\ r.at = "lock" /\ r.plugin = p
    BY <1>3 DEF Ensure, Begin
  <2>2. \/ UNCHANGED maps
        \/ /\ registry' = [registry EXCEPT ![p] = 0] /\ adapters' = [adapters EXCEPT ![p] = 0]
           /\ hostSessions' = [hostSessions EXCEPT ![p] = 0]
    BY <1>3 DEF Ensure
  <2>3. /\ registry' \in [Plugins -> Nat] /\ adapters' \in [Plugins -> Nat]
        /\ hostSessions' \in [Plugins -> Nat]
        /\ \A q \in Plugins : \A s \in {registry'[q], adapters'[q], hostSessions'[q]} :
             s # 0 => Reachable(s, q)
    BY <2>2, MapsKnown DEF maps
  <2> HIDE DEF r
  <2>4. QED
    BY <1>1, <2>1, <2>3, <2>5, CallStep
<1>4. QED
  BY <1>2, <1>3

LEMMA ProbeStep == ASSUME DInv, NEW c \in Callers, NEW p \in Plugins, Probe(c, p) PROVE DInv'
<1> DEFINE r == [op |-> "probe", at |-> "lock", plugin |-> p, s |-> 0]
<1>1. /\ NoneRises /\ UNCHANGED <<sessions, spawnLock, maps>> /\ call[c].at = "idle"
      /\ call' = [call EXCEPT ![c] = r] /\ r.at = "lock" /\ r.plugin = p
  BY SameNoneRises DEF Probe, Begin, runtimeVars, AtStep, DInv
<1>2. r \in Calls
  BY BeginIs DEF CallSteps
<1> HIDE DEF r
<1>3. QED
  BY <1>1, <1>2, CallStep, MapsKnown DEF maps

\* A task that is done, or whose command is, has nothing in hand.
LEMMA ReturnStep ==
  ASSUME DInv, NEW c \in Callers, call' = [call EXCEPT ![c] = NoCall],
         UNCHANGED <<runtimeVars, maps>>, call[c].at \notin {"locked", "spawning"}
  PROVE  DInv'
<1>1. NoneRises /\ UNCHANGED <<sessions, spawnLock, maps>>
  BY SameNoneRises DEF runtimeVars, DInv
<1>2. /\ NoCall \in Calls /\ NoCall.at \notin {"locked", "spawning"} /\ NoCall.at = "idle"
      /\ NoCall.at \notin {"register", "list", "use", "stop", "stopping"}
  BY NoCallIs
<1>3. /\ registry' \in [Plugins -> Nat] /\ adapters' \in [Plugins -> Nat]
      /\ hostSessions' \in [Plugins -> Nat]
      /\ \A p \in Plugins : \A s \in {registry'[p], adapters'[p], hostSessions'[p]} :
           s # 0 => Reachable(s, p)
  BY <1>1, MapsKnown DEF maps
<1> DEFINE r == NoCall
<1>4. r \in Calls /\ r.at = "idle" /\ call' = [call EXCEPT ![c] = r]
  BY <1>2
<1> HIDE DEF r
<1>5. QED
  BY <1>1, <1>3, <1>4, CallStep

LEMMA TakeHostSessionStep ==
  ASSUME DInv, NEW c \in Callers, NEW o \in {"stop", "reload"}, NEW p \in Plugins,
         TakeHostSession(c, o, p)
  PROVE  DInv'
<1> DEFINE l == IF hostSessions[p] # 0 THEN "stop" ELSE IF o = "reload" THEN "lock" ELSE "stopped"
           r == [op |-> o, at |-> l, plugin |-> p, s |-> hostSessions[p]]
<1>1. /\ NoneRises /\ UNCHANGED <<sessions, spawnLock, registry, adapters>> /\ call[c].at = "idle"
      /\ call' = [call EXCEPT ![c] = r]
      /\ hostSessions' = [hostSessions EXCEPT ![p] = 0]
  BY SameNoneRises DEF TakeHostSession, Begin, runtimeVars, AtStep, DInv
<1>2. r \in Calls
  BY MapsKnown, BeginIs DEF CallSteps
<1>6. r.at = l /\ r.s = hostSessions[p] /\ r.plugin = p
  OBVIOUS
<1>3. /\ l \in {"stop", "lock", "stopped"}
      /\ l = "stop" => Reachable(hostSessions[p], p)
  BY MapsKnown
<1>4. /\ hostSessions' \in [Plugins -> Nat]
      /\ \A q \in Plugins : \A s \in {registry'[q], adapters'[q], hostSessions'[q]} :
             s # 0 => Reachable(s, q)
  BY <1>1, MapsKnown
<1> HIDE DEF l, r
<1>5. QED
  BY <1>1, <1>2, <1>3, <1>4, <1>6, CallStep, MapsKnown

\* A task asks its process to end, or sees it end.
LEMMA StopStep ==
  ASSUME DInv, NEW c \in Callers, AskToStop(c) \/ Stopped(c)
  PROVE  DInv'
<1>1. PICK l \in {"stopping", "lock", "stopped"} :
        /\ call' = [call EXCEPT ![c].at = l] /\ UNCHANGED <<sessions, spawnLock, maps>>
        /\ call[c].at \in {"stop", "stopping"} /\ (l = "stopping" => call[c].at = "stop")
  BY DEF AskToStop, Stopped, GoTo, AtStep
<1> DEFINE r == [call[c] EXCEPT !.at = l]
<1>2. /\ r \in Calls /\ r.at = l /\ r.s = call[c].s /\ r.plugin = call[c].plugin
      /\ call[c].plugin \in Plugins
  <2>1. l \in CallSteps /\ call[c] \in Calls /\ call[c].plugin \in Plugins
    BY <1>1, CallIs DEF CallSteps
  <2>2. QED
    BY <2>1, GoIs
<1>3. Reachable(call[c].s, call[c].plugin)
  BY <1>1 DEF DInv, DirectoryInv, MapsInv
<1>4. NoneRises
  BY <1>3, SetStateNoneRises, SameNoneRises
     DEF AskToStop, Stopped, Live, DInv, Reachable, Of
<1>5. call' = [call EXCEPT ![c] = r]
  BY <1>1
<1> HIDE DEF r
<1>6. QED
  BY <1>1, <1>2, <1>3, <1>4, <1>5, CallStep, MapsKnown DEF maps

LEMMA RegisterStep == ASSUME DInv, NEW c \in Callers, Register(c) \/ List(c) PROVE DInv'
<1>1. PICK l \in {"list", "reloaded", "use"} :
        /\ call' = [call EXCEPT ![c].at = l] /\ UNCHANGED runtimeVars
        /\ call[c].at \in {"register", "list"}
  BY DEF Register, List, GoTo, AtStep
<1> DEFINE r == [call[c] EXCEPT !.at = l]
<1>2. /\ r \in Calls /\ r.at = l /\ r.s = call[c].s /\ r.plugin = call[c].plugin
      /\ call[c].plugin \in Plugins /\ call[c].s \in Nat
  <2>1. l \in CallSteps /\ call[c] \in Calls /\ call[c].plugin \in Plugins
    BY <1>1, CallIs DEF CallSteps
  <2>2. QED
    BY <2>1, GoIs
<1>3. Reachable(call[c].s, call[c].plugin)
  BY <1>1 DEF DInv, DirectoryInv, MapsInv
<1>4. NoneRises
  BY <1>1, SameNoneRises DEF DInv, runtimeVars
<1>5. call' = [call EXCEPT ![c] = r]
  BY <1>1
<1>6. /\ registry' \in {registry, [registry EXCEPT ![call[c].plugin] = call[c].s]}
      /\ adapters' \in {adapters, [adapters EXCEPT ![call[c].plugin] = call[c].s]}
      /\ hostSessions' \in {hostSessions, [hostSessions EXCEPT ![call[c].plugin] = call[c].s]}
  BY DEF Register, List
<1>7. /\ registry' \in [Plugins -> Nat] /\ adapters' \in [Plugins -> Nat]
      /\ hostSessions' \in [Plugins -> Nat]
      /\ \A q \in Plugins : \A s \in {registry'[q], adapters'[q], hostSessions'[q]} :
             s # 0 => Reachable(s, q)
  BY <1>2, <1>3, <1>6, MapsKnown
<1> HIDE DEF r
<1>8. QED
  BY <1>1, <1>2, <1>3, <1>4, <1>5, <1>7, CallStep DEF runtimeVars

\* The lock of a plugin is taken, and given back with a session or without.
LEMMA TakeSpawnLockStep == ASSUME DInv, NEW c \in Callers, TakeSpawnLock(c) PROVE DInv'
<1> DEFINE p == call[c].plugin
<1>1. /\ call[c] \in Calls /\ call[c].at = "lock" /\ p \in Plugins /\ spawnLock[p] = NoCaller
      /\ UNCHANGED <<processes, sessions, maps>>
      /\ spawnLock' = [spawnLock EXCEPT ![p] = c]
  BY CallIs DEF TakeSpawnLock, AtStep
<1> DEFINE r == [call[c] EXCEPT !.at = "locked"]
<1>2. "locked" \in CallSteps
  BY DEF CallSteps
<1>3. /\ r \in Calls /\ r.at = "locked" /\ r.s = call[c].s /\ r.plugin = p
  BY <1>1, <1>2, GoIs
<1>4. call' = [call EXCEPT ![c] = r]
  BY <1>1 DEF TakeSpawnLock, GoTo
<1> HIDE DEF r, p
<1>5. DirectoryTypeOK'
  BY <1>1, <1>3, <1>4 DEF DInv, DirectoryTypeOK, maps
<1>6. \A d \in Callers : call'[d] = IF d = c THEN r ELSE call[d]
  BY <1>4 DEF DInv, DirectoryTypeOK
<1>7. SpawnInv'
  <2>1. SUFFICES ASSUME NEW d \in Callers
                 PROVE  /\ call'[d].at # "idle" => call'[d].plugin \in Plugins
                        /\ call'[d].at \in {"locked", "spawning"} => spawnLock'[call'[d].plugin] = d
                        /\ call'[d].at = "spawning" =>
                             Of(call[d].s, call[d].plugin)' /\ ~Live(sessions[call[d].plugin])'
    BY DEF SpawnInv, AtStep
  <2>2. CASE d = c
    BY <1>1, <1>3, <1>6, <2>2 DEF DInv, DirectoryTypeOK
  <2>3. CASE d # c
    <3>1. call'[d] = call[d]
      BY <1>6, <2>3
    <3>2. call[d].at \in {"locked", "spawning"} => call[d].plugin # p
      BY <1>1, CallerAssumption DEF DInv, DirectoryInv, SpawnInv, AtStep
    <3>3. QED
      BY <1>1, <3>1, <3>2 DEF DInv, DirectoryTypeOK, DirectoryInv, SpawnInv, AtStep, Of, Live
  <2>4. QED
    BY <2>2, <2>3
<1>8. LivesInv'
  BY <1>1, <1>3, <1>6 DEF DInv, DirectoryInv, LivesInv, AtStep, Live
<1>9. MapsInv'
  BY <1>1, <1>3, <1>6 DEF DInv, DirectoryInv, MapsInv, Reachable, Of, Live, maps
<1>10. QED
  BY <1>5, <1>7, <1>8, <1>9 DEF DInv, DirectoryInv

\* Two tasks are never both between lock and unlock of one plugin.
LEMMA OneHolder ==
  ASSUME DInv, NEW c \in Callers, call[c].at \in {"locked", "spawning"},
         NEW d \in Callers, call[d].at \in {"locked", "spawning"},
         call[d].plugin = call[c].plugin
  PROVE  d = c
  BY DEF DInv, DirectoryInv, SpawnInv, AtStep

\* The lock is given back by a task that found a session or nothing, or whose
\* process is dead.
LEMMA UnlockStep ==
  ASSUME DInv, NoneRises, UNCHANGED <<sessions, maps>>,
         NEW c \in Callers, call[c].at \in {"locked", "spawning"},
         NEW r \in Calls, call' = [call EXCEPT ![c] = r], Unlock(call[c].plugin),
         r.plugin = call[c].plugin,
         \/ r.at = "register" /\ call[c].at = "locked" /\ Reachable(r.s, r.plugin)
         \/ r.at = "failed" /\ (call[c].at = "spawning" => processes'[call[c].s].state = "dead")
  PROVE  DInv'
<1> DEFINE p == call[c].plugin
<1>1. p \in Plugins /\ spawnLock' = [spawnLock EXCEPT ![p] = NoCaller]
  BY CallIs DEF Unlock
<1> HIDE DEF p
<1>2. DirectoryTypeOK'
  BY <1>1 DEF DInv, DirectoryTypeOK, NoneRises, Procs, maps
<1>3. \A d \in Callers : call'[d] = IF d = c THEN r ELSE call[d]
  BY DEF DInv, DirectoryTypeOK
<1>4. r.plugin = p /\ call[c].plugin = p
  BY DEF p
<1>5. SpawnInv'
  <2>1. SUFFICES ASSUME NEW d \in Callers
                 PROVE  /\ call'[d].at # "idle" => call'[d].plugin \in Plugins
                        /\ call'[d].at \in {"locked", "spawning"} => spawnLock'[call'[d].plugin] = d
                        /\ call'[d].at = "spawning" =>
                             Of(call[d].s, call[d].plugin)' /\ ~Live(sessions[call[d].plugin])'
    BY DEF SpawnInv, AtStep
  <2>2. CASE d = c
    BY <1>1, <1>3, <1>4, <2>2
  <2>3. CASE d # c
    <3>1. call'[d] = call[d]
      BY <1>3, <2>3
    <3>2. call[d].at \in {"locked", "spawning"} => call[d].plugin # p
      BY <1>4, <2>3, OneHolder
    <3>3. call[d].at \in {"locked", "spawning"} => call[d].plugin \in Plugins
      BY CallIs
    <3>4. call[d].at \in {"locked", "spawning"} => spawnLock'[call[d].plugin] = d
      BY <1>1, <3>2, <3>3 DEF DInv, DirectoryTypeOK, DirectoryInv, SpawnInv, AtStep
    <3>5. call[d].at = "spawning" =>
            Of(call[d].s, call[d].plugin)' /\ ~Live(sessions[call[d].plugin])'
      BY <3>1, <3>3 DEF DInv, DirectoryTypeOK, DirectoryInv, SpawnInv, MapsInv, AtStep, NoneRises,
                        Of, Live
    <3>6. QED
      BY <3>1, <3>4, <3>5, CallIs
  <2>4. QED
    BY <2>2, <2>3
<1>6. LivesInv'
  <2>1. SUFFICES ASSUME NEW s \in 1 .. Len(processes), Live(s)'
                 PROVE  \/ s = sessions[processes[s].plugin]
                        \/ \E d \in Callers : AtStep(d, "spawning")' /\ call'[d].s = s
    BY DEF LivesInv, NoneRises
  <2>2. Live(s)
    BY <2>1 DEF NoneRises, Live
  <2>3. CASE \E d \in Callers : AtStep(d, "spawning") /\ call[d].s = s
    <3>1. PICK d \in Callers : AtStep(d, "spawning") /\ call[d].s = s
      BY <2>3
    <3>2. d # c
      BY <2>1, <3>1 DEF AtStep, Live
    <3>3. QED
      BY <1>3, <3>1, <3>2 DEF AtStep
  <2>4. QED
    BY <2>2, <2>3 DEF DInv, DirectoryInv, LivesInv
<1>7. MapsInv'
  <2>1. \A q \in Plugins : sessions[q] # 0 => Of(sessions[q], q)'
    BY DEF DInv, DirectoryInv, MapsInv, NoneRises, Of
  <2>2. \A s, q : Reachable(s, q) => Reachable(s, q)'
    BY StaysReachable DEF DInv
  <2>3. ASSUME NEW d \in Callers, call'[d].at \in {"register", "list", "use", "stop", "stopping"}
        PROVE  Reachable(call'[d].s, call'[d].plugin)
    BY <1>3, <2>3 DEF DInv, DirectoryInv, MapsInv
  <2>4. QED
    BY <2>1, <2>2, <2>3 DEF DInv, DirectoryInv, MapsInv, maps, Reachable, Of, Live
<1>8. QED
  BY <1>2, <1>5, <1>6, <1>7 DEF DInv, DirectoryInv

LEMMA GiveBackStep ==
  ASSUME DInv, NEW c \in Callers, Reuse(c) \/ NotFound(c) \/ SpawnFails(c)
  PROVE  DInv'
<1>1. /\ call[c].at \in {"locked", "spawning"} /\ UNCHANGED <<sessions, maps>>
      /\ Unlock(call[c].plugin) /\ call[c] \in Calls /\ call[c].plugin \in Plugins
  BY CallIs DEF Reuse, NotFound, SpawnFails, AtStep
<1>2. PICK n \in Nat, l \in {"register", "failed"} :
        /\ Holds(c, n, l)
        /\ l = "register" => call[c].at = "locked" /\ Reachable(n, call[c].plugin)
        /\ l = "failed" => (call[c].at = "spawning" => SetState(call[c].s, "dead"))
  <2>1. CASE Reuse(c)
    BY <1>1, <2>1 DEF Reuse, Live, AtStep, Reachable, Of, DInv, DirectoryInv, MapsInv, DirectoryTypeOK
  <2>2. CASE NotFound(c) \/ SpawnFails(c)
    BY <2>2 DEF NotFound, SpawnFails, AtStep
  <2>3. QED
    BY <2>1, <2>2
<1>3. call[c].at = "spawning" => call[c].s \in 1 .. Len(processes)
  BY DEF DInv, DirectoryInv, SpawnInv, AtStep, Of
<1>4. NoneRises /\ (call[c].at = "spawning" => processes'[call[c].s].state = "dead")
  <2>1. CASE Reuse(c) \/ NotFound(c)
    BY <2>1, SameNoneRises DEF Reuse, NotFound, AtStep, DInv
  <2>2. CASE SpawnFails(c)
    <3>1. SetState(call[c].s, "dead") /\ call[c].s \in 1 .. Len(processes) /\ DirectoryTypeOK
      BY <1>3, <2>2 DEF SpawnFails, AtStep, DInv
    <3>2. NoneRises
      BY <3>1, SetStateNoneRises
    <3>3. processes'[call[c].s].state = "dead"
      BY <3>1, SetStateIs
    <3>4. QED
      BY <3>2, <3>3
  <2>3. QED
    BY <2>1, <2>2 DEF Reuse, NotFound, SpawnFails
<1> DEFINE q == [call[c] EXCEPT !.s = n]
           r == [q EXCEPT !.at = l]
<1>5. q \in Calls /\ q.s = n /\ q.plugin = call[c].plugin
  BY <1>1, HoldIs
<1>6. l \in CallSteps
  BY DEF CallSteps
<1>7. call' = [call EXCEPT ![c] = r]
  BY <1>2 DEF Holds
<1> HIDE DEF q
<1>8. r \in Calls /\ r.s = n /\ r.at = l /\ r.plugin = call[c].plugin
  BY <1>5, <1>6, GoIs
<1> HIDE DEF r
<1>9. QED
  BY <1>1, <1>2, <1>4, <1>7, <1>8, UnlockStep


LEMMA StartProcessStep ==
  ASSUME DInv, found \in [Plugins -> Nat], NEW c \in Callers, StartProcess(c)
  PROVE  DInv'
<1> DEFINE p == call[c].plugin
           n == Len(processes) + 1
           new == [plugin |-> p, version |-> found[p], state |-> "starting"]
<1>1. /\ call[c] \in Calls /\ call[c].at = "locked" /\ p \in Plugins /\ ~Live(sessions[p])
      /\ processes' = Append(processes, new) /\ UNCHANGED <<sessions, spawnLock, maps>>
  BY CallIs DEF StartProcess, AtStep
<1>2. new \in Procs /\ new.plugin = p
  BY <1>1 DEF Procs
<1>3. call' = [call EXCEPT ![c].s = Len(processes'), ![c].at = "spawning"]
  BY DEF StartProcess, Holds
<1> HIDE DEF new
<1>4. /\ processes' \in Seq(Procs) /\ Len(processes') = n /\ n \in Nat /\ n # 0
      /\ Len(processes) \in Nat /\ processes'[n] = new
      /\ \A t \in 1 .. Len(processes) : processes'[t] = processes[t]
  BY <1>1, <1>2, StartIs DEF DInv
<1> HIDE DEF n
<1>20. n = Len(processes) + 1
  BY DEF n
<1> DEFINE q == [call[c] EXCEPT !.s = n]
           r == [q EXCEPT !.at = "spawning"]
<1>5. q \in Calls /\ q.s = n /\ q.plugin = p
  BY <1>1, <1>4, HoldIs
<1>6. "spawning" \in CallSteps
  BY DEF CallSteps
<1>7. call' = [call EXCEPT ![c] = r]
  BY <1>3, <1>4
<1> HIDE DEF q
<1>8. r \in Calls /\ r.s = n /\ r.at = "spawning" /\ r.plugin = p
  BY <1>5, <1>6, GoIs
<1> HIDE DEF r, p
<1>9. \A d \in Callers : call'[d] = IF d = c THEN r ELSE call[d]
  BY <1>7 DEF DInv, DirectoryTypeOK
<1>10. DirectoryTypeOK'
  BY <1>1, <1>4, <1>7, <1>8 DEF DInv, DirectoryTypeOK, Procs, maps
<1>12. \A s \in Nat : \A x : s # 0 /\ Of(s, x) => (Live(s)' <=> Live(s))
  BY <1>4 DEF Live, Of
<1>13. \A x \in Plugins : (Live(sessions[x])' <=> Live(sessions[x])) /\ sessions[x] \in Nat
  BY <1>1, <1>12 DEF DInv, DirectoryTypeOK, DirectoryInv, MapsInv, Live
<1>14. SpawnInv'
  <2>1. SUFFICES ASSUME NEW d \in Callers
                 PROVE  /\ call'[d].at # "idle" => call'[d].plugin \in Plugins
                        /\ call'[d].at \in {"locked", "spawning"} => spawnLock'[call'[d].plugin] = d
                        /\ call'[d].at = "spawning" =>
                             Of(call[d].s, call[d].plugin)' /\ ~Live(sessions[call[d].plugin])'
    BY DEF SpawnInv, AtStep
  <2>2. CASE d = c
    <3>1. spawnLock'[p] = c
      BY <1>1 DEF p, DInv, DirectoryInv, SpawnInv, AtStep
    <3>2. Of(call[d].s, call[d].plugin)'
      BY <1>2, <1>4, <1>8, <1>9, <2>2 DEF Of
    <3>3. ~Live(sessions[call[d].plugin])'
      BY <1>1, <1>4, <1>8, <1>9, <1>13, <2>2 DEF Live
    <3>4. QED
      BY <1>1, <1>8, <1>9, <2>2, <3>1, <3>2, <3>3
  <2>3. CASE d # c
    <3>1. call'[d] = call[d]
      BY <1>9, <2>3
    <3>2. /\ call[d].at # "idle" => call[d].plugin \in Plugins
          /\ call[d].at \in {"locked", "spawning"} => spawnLock[call[d].plugin] = d
          /\ call[d].at = "spawning" =>
                             Of(call[d].s, call[d].plugin) /\ ~Live(sessions[call[d].plugin])
      BY DEF DInv, DirectoryInv, SpawnInv, AtStep
    <3>3. call[d].at = "spawning" => Of(call[d].s, call[d].plugin)'
      BY <1>4, <1>20, <3>1, <3>2 DEF Of
    <3>4. call[d].at = "spawning" => ~Live(sessions[call[d].plugin])'
      BY <1>1, <1>13, <3>1, <3>2 DEF Live
    <3>5. QED
      BY <1>1, <3>1, <3>2, <3>3, <3>4
  <2>4. QED
    BY <2>2, <2>3
<1>15. LivesInv'
  <2>1. SUFFICES ASSUME NEW s \in 1 .. n, Live(s)'
                 PROVE  \/ s = sessions'[processes'[s].plugin]
                        \/ \E d \in Callers : AtStep(d, "spawning")' /\ call'[d].s = s
    BY <1>4 DEF LivesInv
  <2>2. CASE s = n
    BY <1>8, <1>9, <2>2 DEF AtStep
  <2>3. CASE s # n
    <3>1. s \in 1 .. Len(processes) /\ Live(s) /\ processes'[s] = processes[s]
      BY <1>4, <1>20, <2>1, <2>3 DEF Live
    <3>2. CASE s = sessions[processes[s].plugin]
      BY <1>1, <3>1, <3>2
    <3>3. CASE \E d \in Callers : AtStep(d, "spawning") /\ call[d].s = s
      BY <1>1, <1>9, <3>3 DEF AtStep
    <3>4. QED
      BY <3>1, <3>2, <3>3 DEF DInv, DirectoryInv, LivesInv
  <2>4. QED
    BY <2>2, <2>3
<1>16. MapsInv'
  <2>1. \A x \in Plugins : sessions[x] # 0 => Of(sessions[x], x)'
    BY <1>1, <1>4, <1>20 DEF DInv, DirectoryInv, MapsInv, Of
  <2>2. \A s, x : Reachable(s, x) => Reachable(s, x)'
    BY <1>1, <1>4, <1>20 DEF Reachable, Of, Live
  <2>3. ASSUME NEW d \in Callers, call'[d].at \in {"register", "list", "use", "stop", "stopping"}
        PROVE  Reachable(call'[d].s, call'[d].plugin)
    BY <1>8, <1>9, <2>3 DEF DInv, DirectoryInv, MapsInv
  <2>4. QED
    BY <1>1, <2>1, <2>2, <2>3 DEF DInv, DirectoryInv, MapsInv, maps, Reachable, Of, Live
<1>17. QED
  BY <1>10, <1>14, <1>15, <1>16 DEF DInv, DirectoryInv

\* The session is published; the one before it in the map is dead, so nothing
\* that lives is lost sight of.
LEMMA SpawnedStep == ASSUME DInv, NEW c \in Callers, Spawned(c) PROVE DInv'
<1> DEFINE p == call[c].plugin
           n == call[c].s
<1>1. /\ call[c] \in Calls /\ call[c].at = "spawning" /\ p \in Plugins /\ n \in Nat
      /\ sessions' = [sessions EXCEPT ![p] = n] /\ spawnLock' = [spawnLock EXCEPT ![p] = NoCaller]
      /\ UNCHANGED maps /\ call' = [call EXCEPT ![c].at = "register"]
  BY CallIs, GoIs DEF Spawned, AtStep, Unlock, GoTo, CallSteps
<1>2. Of(n, p) /\ ~Live(sessions[p])
  BY <1>1 DEF DInv, DirectoryInv, SpawnInv, AtStep
<1>3. NoneRises
  <2>1. CASE processes[n].state = "starting" /\ SetState(n, "live")
    BY <1>2, <2>1, SetStateNoneRises DEF DInv, Of
  <2>2. CASE UNCHANGED processes
    BY <2>2, SameNoneRises DEF DInv
  <2>3. QED
    BY <2>1, <2>2 DEF Spawned
<1> DEFINE r == [call[c] EXCEPT !.at = "register"]
<1>4. "register" \in CallSteps
  BY DEF CallSteps
<1>5. r \in Calls /\ r.at = "register" /\ r.s = n /\ r.plugin = p
  BY <1>1, <1>4, GoIs
<1>6. call' = [call EXCEPT ![c] = r]
  BY <1>1
<1>7. p = call[c].plugin /\ n = call[c].s
  OBVIOUS
<1> HIDE DEF r, p, n
<1>8. \A d \in Callers : call'[d] = IF d = c THEN r ELSE call[d]
  BY <1>6 DEF DInv, DirectoryTypeOK
<1>9. DirectoryTypeOK'
  BY <1>1, <1>3, <1>5, <1>6 DEF DInv, DirectoryTypeOK, NoneRises, Procs, maps
<1>10. \A d \in Callers : d # c /\ call[d].at \in {"locked", "spawning"} => call[d].plugin # p
  BY <1>1, <1>7, OneHolder
<1>11. \A q \in Plugins : sessions'[q] = IF q = p THEN n ELSE sessions[q]
  BY <1>1 DEF DInv, DirectoryTypeOK
<1>12. SpawnInv'
  <2>1. SUFFICES ASSUME NEW d \in Callers
                 PROVE  /\ call'[d].at # "idle" => call'[d].plugin \in Plugins
                        /\ call'[d].at \in {"locked", "spawning"} => spawnLock'[call'[d].plugin] = d
                        /\ call'[d].at = "spawning" =>
                             Of(call[d].s, call[d].plugin)' /\ ~Live(sessions[call[d].plugin])'
    BY DEF SpawnInv, AtStep
  <2>2. CASE d = c
    BY <1>1, <1>5, <1>8, <2>2
  <2>3. CASE d # c
    <3>1. call'[d] = call[d]
      BY <1>8, <2>3
    <3>2. /\ call[d].at # "idle" => call[d].plugin \in Plugins
          /\ call[d].at \in {"locked", "spawning"} => spawnLock[call[d].plugin] = d
          /\ call[d].at = "spawning" =>
                             Of(call[d].s, call[d].plugin) /\ ~Live(sessions[call[d].plugin])
      BY DEF DInv, DirectoryInv, SpawnInv, AtStep
    <3>3. call[d].at \in {"locked", "spawning"} => spawnLock'[call[d].plugin] = d
      BY <1>1, <1>10, <2>3, <3>2 DEF DInv, DirectoryTypeOK
    <3>4. call[d].at = "spawning" => Of(call[d].s, call[d].plugin)'
      BY <1>3, <3>1, <3>2 DEF Of, NoneRises
    <3>5. call[d].at = "spawning" => ~Live(sessions[call[d].plugin])'
      <4>1. SUFFICES ASSUME call[d].at = "spawning", sessions[call[d].plugin] # 0
                     PROVE  sessions'[call[d].plugin] = sessions[call[d].plugin]
                            /\ processes'[sessions[call[d].plugin]].state = "dead"
        BY <1>10, <1>11, <2>3, <3>1, <3>2 DEF Live
      <4>2. Of(sessions[call[d].plugin], call[d].plugin)
        BY <3>2, <4>1 DEF DInv, DirectoryInv, MapsInv
      <4>3. QED
        BY <1>3, <1>10, <1>11, <2>3, <3>2, <4>1, <4>2 DEF NoneRises, Of, Live
    <3>6. QED
      BY <3>1, <3>2, <3>3, <3>4, <3>5
  <2>4. QED
    BY <2>2, <2>3
<1>13. LivesInv'
  <2>1. SUFFICES ASSUME NEW s \in 1 .. Len(processes), Live(s)'
                 PROVE  \/ s = sessions'[processes[s].plugin]
                        \/ \E d \in Callers : AtStep(d, "spawning")' /\ call'[d].s = s
    BY <1>3 DEF LivesInv, NoneRises
  <2>2. Live(s) /\ processes[s].plugin \in Plugins
    <3>1. processes[s] \in Procs
      BY DEF DInv, DirectoryTypeOK
    <3>2. QED
      BY <1>3, <2>1, <3>1 DEF NoneRises, Live, Procs
  <2>3. CASE s = n
    BY <1>2, <1>11, <2>2, <2>3 DEF Of
  <2>4. CASE s # n
    <3>1. CASE \E d \in Callers : AtStep(d, "spawning") /\ call[d].s = s
      BY <1>7, <1>8, <2>4, <3>1 DEF AtStep
    <3>2. CASE s = sessions[processes[s].plugin]
      BY <1>2, <1>11, <2>2, <3>2
    <3>3. QED
      BY <2>2, <3>1, <3>2 DEF DInv, DirectoryInv, LivesInv
  <2>5. QED
    BY <2>3, <2>4
<1>14. MapsInv'
  <2>1. ASSUME NEW x \in Plugins, sessions'[x] # 0 PROVE Of(sessions[x], x)'
    <3>1. Of(sessions'[x], x)
      BY <1>2, <1>11, <2>1 DEF DInv, DirectoryInv, MapsInv
    <3>2. QED
      BY <1>3, <3>1 DEF Of, NoneRises
  <2>2. \A s, x : x \in Plugins /\ Reachable(s, x) => Reachable(s, x)'
    BY <1>2, <1>3, <1>11 DEF Reachable, Of, Live, NoneRises
  <2>3. \A s, x : s = n /\ x = p => Reachable(s, x)'
    BY <1>1, <1>2, <1>3, <1>11 DEF Reachable, Of, Live, NoneRises
  <2>4. ASSUME NEW d \in Callers, call'[d].at \in {"register", "list", "use", "stop", "stopping"}
        PROVE  Reachable(call[d].s, call[d].plugin)'
    <3>1. CASE d = c
      BY <1>5, <1>8, <2>3, <3>1 DEF Reachable, Of, Live
    <3>2. CASE d # c
      <4>1. call'[d] = call[d] /\ call[d].plugin \in Plugins
        BY <1>8, <2>4, <3>2, CallIs
      <4>2. Reachable(call[d].s, call[d].plugin)
        BY <2>4, <4>1 DEF DInv, DirectoryInv, MapsInv
      <4>3. QED
        BY <2>2, <4>1, <4>2 DEF Reachable, Of, Live
    <3>3. QED
      BY <3>1, <3>2
  <2>5. ASSUME NEW x \in Plugins, NEW s \in {registry'[x], adapters'[x], hostSessions'[x]}, s # 0
        PROVE  Reachable(s, x)'
    BY <1>1, <2>2, <2>5, MapsKnown DEF maps
  <2>6. QED
    BY <2>1, <2>4, <2>5 DEF MapsInv
<1>15. QED
  BY <1>9, <1>12, <1>13, <1>14 DEF DInv, DirectoryInv

\* A step of the world that at most ends processes.
LEMMA StillStep ==
  ASSUME DInv, NoneRises, UNCHANGED <<sessions, spawnLock, maps, call>> PROVE DInv'
<1>1. DirectoryTypeOK'
  BY DEF DInv, DirectoryTypeOK, NoneRises, Procs, maps
<1>2. SpawnInv'
  BY DEF DInv, DirectoryTypeOK, NoneRises, DirectoryInv, SpawnInv, MapsInv, AtStep, Of, Live
<1>3. LivesInv'
  BY DEF DInv, NoneRises, DirectoryInv, LivesInv, AtStep, Live
<1>4. MapsInv'
  BY DEF DInv, NoneRises, DirectoryInv, MapsInv, Reachable, Of, Live, maps
<1>5. QED
  BY <1>1, <1>2, <1>3, <1>4 DEF DInv, DirectoryInv

LEMMA DieStep == ASSUME DInv, NEW s \in 1 .. Len(processes), Die(s) PROVE DInv'
<1>1. SetState(s, "dead") /\ UNCHANGED <<sessions, spawnLock, maps, call>> /\ DirectoryTypeOK
  BY DEF Die, DInv
<1>2. NoneRises
  BY <1>1, SetStateNoneRises
<1>3. QED
  BY <1>1, <1>2, StillStep

LEMMA ServeStep ==
  ASSUME DInv, found \in [Plugins -> Nat], NEW c \in Callers, Serve(c) PROVE DInv'
<1>1. CASE TakeSpawnLock(c)
  BY <1>1, TakeSpawnLockStep
<1>2. CASE Reuse(c) \/ NotFound(c) \/ SpawnFails(c)
  BY <1>2, GiveBackStep
<1>3. CASE StartProcess(c)
  BY <1>3, StartProcessStep
<1>4. CASE Spawned(c)
  BY <1>4, SpawnedStep
<1>5. CASE Register(c) \/ List(c)
  BY <1>5, RegisterStep
<1>6. CASE AskToStop(c) \/ Stopped(c)
  BY <1>6, StopStep
<1>7. CASE GiveUp(c) \/ Finish(c)
  <2>1. /\ call' = [call EXCEPT ![c] = NoCall] /\ UNCHANGED <<runtimeVars, maps>>
        /\ call[c].at \notin {"locked", "spawning"}
    BY <1>7 DEF GiveUp, Finish, AtStep
  <2>2. QED
    BY <2>1, ReturnStep
<1>8. QED
  BY <1>1, <1>2, <1>3, <1>4, <1>5, <1>6, <1>7 DEF Serve

\* At most one process of a plugin lives, be it the map's or one being started.
LEMMA OneLives ==
  ASSUME DInv, NEW p \in Plugins, NEW s \in 1 .. Len(processes), NEW t \in 1 .. Len(processes),
         processes[s].plugin = p, processes[t].plugin = p, Live(s), Live(t)
  PROVE  s = t
<1>1. \/ s = sessions[p]
      \/ \E c \in Callers : AtStep(c, "spawning") /\ call[c].s = s
  BY DEF DInv, DirectoryInv, LivesInv
<1>2. \/ t = sessions[p]
      \/ \E c \in Callers : AtStep(c, "spawning") /\ call[c].s = t
  BY DEF DInv, DirectoryInv, LivesInv
<1>3. ASSUME NEW c \in Callers, AtStep(c, "spawning"), call[c].s \in {s, t}
      PROVE  call[c].plugin = p /\ ~Live(sessions[p])
  BY <1>3 DEF DInv, DirectoryInv, SpawnInv, Of
<1>4. ASSUME NEW c \in Callers, AtStep(c, "spawning"), call[c].s = s,
             NEW d \in Callers, AtStep(d, "spawning"), call[d].s = t
      PROVE  c = d
  <2>1. call[c].plugin = p /\ call[d].plugin = p
    BY <1>3, <1>4
  <2>2. QED
    BY <1>4, <2>1, OneHolder DEF AtStep
<1>5. QED
  BY <1>1, <1>2, <1>3, <1>4

LEMMA ImpliesOneProcess == DInv => OneProcess
<1>1. SUFFICES ASSUME DInv, NEW p \in Plugins
               PROVE  /\ Cardinality({s \in 1 .. Len(processes) :
                                        processes[s].plugin = p /\ Live(s)}) <= 1
                      /\ \A s \in {registry[p], adapters[p], hostSessions[p]} :
                           Live(s) => s = sessions[p]
  BY DEF OneProcess
<1> DEFINE L == {s \in 1 .. Len(processes) : processes[s].plugin = p /\ Live(s)}
<1>2. \A s, t \in L : s = t
  BY <1>1, OneLives
<1>3. Cardinality(L) <= 1
  <2>1. CASE L = {}
    BY <2>1, FS_EmptySet
  <2>2. CASE L # {}
    <3>1. PICK s \in L : TRUE
      BY <2>2
    <3>2. L = {s}
      BY <1>2, <3>1
    <3> HIDE DEF L
    <3>3. QED
      BY <3>2, FS_Singleton
  <2>3. QED
    BY <2>1, <2>2
<1>4. \A s \in {registry[p], adapters[p], hostSessions[p]} : Live(s) => s = sessions[p]
  BY <1>1, MapsKnown DEF Reachable, Live
<1>5. QED
  BY <1>3, <1>4

-----------------------------------------------------------------------------
(* The steps of the commands *)

\* The types of what is shared, and what holds of one client's command.
SharedOK ==
  /\ dest \in [Plugins -> Nat] /\ user \in [Plugins -> Nat]
  /\ tmp \in [Clients -> Dirs] /\ left \subseteq Dirs
  /\ file \subseteq Plugins /\ disabled \subseteq Plugins
  /\ where \in [Plugins -> Places] /\ found \in [Plugins -> Nat]
  /\ modLock \in [Plugins -> Clients \cup {NoCaller}] /\ ops \in Nat

InLock(k, l) == k \in Locking /\ l \in Locked(k)
MayHaveTmp(k, l) ==
  \/ k = "install" /\ l \in {"extract", "smoke", "wait", "judge", "remove", "rename"}
  \/ k = "update" /\ l \in {"extract", "check", "close", "closing", "remove", "rename"}

Sound(c) ==
  /\ job[c].at \in StepsOf(job[c].kind)
  /\ job[c].kind \in Locking => job[c].id \in Plugins
  /\ job[c].at = "store" => job[c].scan # <<>>
  /\ InLock(job[c].kind, job[c].at) => modLock[job[c].id] = c
  /\ tmp[c] # NoDir => MayHaveTmp(job[c].kind, job[c].at)
  /\ job[c].kind \in {"uninstall", "update"} => job[c].id \notin Builtin
  /\ job[c].kind = "install" /\ job[c].at \in {"remove", "rename"} /\ job[c].id \in Builtin
       => ~Healthy(job[c].id)

MInv == ModulesTypeOK /\ StepsInv /\ LockInv /\ TmpInv /\ KeptInv

LEMMA MInvIs == MInv <=> SharedOK /\ job \in [Clients -> Jobs] /\ \A c \in Clients : Sound(c)
  BY DEF MInv, ModulesTypeOK, SharedOK, Sound, StepsInv, LockInv, TmpInv, KeptInv, InLock, MayHaveTmp

\* A command of c keeps to its own job, its own directory or others' ends,
\* the locks of others, and the module whose lock it has.
Apart(c) ==
  /\ \A d \in Clients \ {c} : tmp'[d] \in {tmp[d], NoDir}
  /\ \A d \in Clients \ {c}, p \in Plugins : modLock[p] = d => modLock'[p] = d
  /\ \A p \in Plugins : dest'[p] # dest[p] => modLock[p] = c

LEMMA PutStep ==
  ASSUME MInv, NEW c \in Clients, NEW j \in Jobs, job' = [job EXCEPT ![c] = j],
         SharedOK', Apart(c), Sound(c)'
  PROVE  MInv'
<1>1. /\ SharedOK /\ job \in [Clients -> Jobs] /\ \A d \in Clients : Sound(d)
  BY MInvIs
<1>2. job' \in [Clients -> Jobs] /\ \A d \in Clients \ {c} : job'[d] = job[d]
  BY <1>1
<1>3. ASSUME NEW d \in Clients \ {c} PROVE Sound(d)'
  <2>1. Sound(d) /\ job'[d] = job[d] /\ d # c
    BY <1>1, <1>2
  <2>2. InLock(job[d].kind, job[d].at) => job[d].id \in Plugins
    BY <2>1 DEF Sound, InLock
  <2>3. /\ job[d].kind = "install" /\ job[d].at \in {"remove", "rename"} => InLock(job[d].kind, job[d].at)
    BY DEF InLock, Locked, Locking
  <2>4. InLock(job[d].kind, job[d].at) => dest'[job[d].id] = dest[job[d].id] /\ modLock'[job[d].id] = d
    BY <2>1, <2>2 DEF Sound, Apart
  <2>5. tmp'[d] # NoDir => tmp[d] # NoDir
    BY DEF Apart
  <2>6. QED
    BY <2>1, <2>3, <2>4, <2>5 DEF Sound, Healthy
<1>4. QED
  <2>1. \A d \in Clients : Sound(d)'
    BY <1>3
  <2>2. (SharedOK /\ job \in [Clients -> Jobs] /\ \A d \in Clients : Sound(d))'
    BY <1>2, <2>1
  <2>3. QED
    BY <2>2, MInvIs DEF MInv, ModulesTypeOK, SharedOK, Sound, StepsInv, LockInv, TmpInv, KeptInv,
                        InLock, MayHaveTmp

LEMMA JobIs ==
  ASSUME MInv, NEW c \in Clients
  PROVE  /\ job \in [Clients -> Jobs] /\ job[c] \in Jobs /\ Sound(c) /\ SharedOK
         /\ c # NoCaller /\ c \in Callers
  BY MInvIs, ModuleAssumption, CallerAssumption

LEMMA GoesTo ==
  ASSUME NEW j \in Jobs, NEW l \in JobSteps
  PROVE  /\ [j EXCEPT !.at = l] \in Jobs /\ [j EXCEPT !.at = l].at = l
         /\ [j EXCEPT !.at = l].kind = j.kind /\ [j EXCEPT !.at = l].id = j.id
         /\ [j EXCEPT !.at = l].scan = j.scan
  BY DEF Jobs

LEMMA NoDirIs == NoDir \in Dirs /\ Partial \in Dirs
  BY DEF NoDir, Partial, Dirs, Broken

LEMMA NoJobIs == NoJob \in Jobs /\ NoJob.kind = "none" /\ NoJob.at = "idle"
<1>1. Nowhere \in Places
  BY DEF Places
<1>2. NoJob \in Jobs
  BY <1>1, NoDirIs DEF NoJob, Jobs, JobSteps, Locking
<1>3. QED
  BY <1>2 DEF NoJob

LEMMA ReleaseIs ==
  ASSUME MInv, NEW c \in Clients, ReleaseLock(c)
  PROVE  /\ modLock' \in [Plugins -> Clients \cup {NoCaller}]
         /\ \A d \in Clients \ {c}, p \in Plugins : modLock[p] = d => modLock'[p] = d
  BY JobIs DEF SharedOK, ReleaseLock

\* A command that ends has no directory left, and no lock that counts.
LEMMA EndStep ==
  ASSUME MInv, NEW c \in Clients, EndJob(c), SharedOK', Apart(c), tmp'[c] = NoDir
  PROVE  MInv'
<1>1. job' = [job EXCEPT ![c] = NoJob] /\ job'[c] = NoJob
  BY JobIs DEF EndJob
<1>2. Sound(c)'
  BY <1>1, NoJobIs DEF Sound, StepsOf, InLock, Locking
<1>3. QED
  BY <1>1, <1>2, NoJobIs, PutStep

\* A command that goes on, in the ways that leave its other fields alone.
LEMMA AdvanceStep ==
  ASSUME MInv, NEW c \in Clients, NEW l \in JobSteps, Step(c, l), SharedOK', Apart(c),
         l \in StepsOf(job[c].kind), l # "store",
         InLock(job[c].kind, l) => modLock'[job[c].id] = c,
         tmp'[c] # NoDir => MayHaveTmp(job[c].kind, l),
         job[c].kind = "install" /\ l \in {"remove", "rename"} /\ job[c].id \in Builtin
           => ~Whole(dest'[job[c].id])
  PROVE  MInv'
<1> DEFINE j == [job[c] EXCEPT !.at = l]
<1>1. job' = [job EXCEPT ![c] = j]
  BY DEF Step
<1>2. /\ j \in Jobs /\ j.at = l /\ j.kind = job[c].kind /\ j.id = job[c].id
  BY JobIs, GoesTo
<1> HIDE DEF j
<1>3. job'[c] = j
  BY <1>1, JobIs
<1>4. Sound(c)'
  BY <1>2, <1>3, JobIs DEF Sound, Healthy
<1>5. QED
  BY <1>1, <1>2, <1>4, PutStep

\* The module's directory, the locks and the directories of others stay.
LEMMA QuietApart ==
  ASSUME MInv, NEW c \in Clients, UNCHANGED <<dest, modLock>>,
         UNCHANGED tmp \/ (\E z \in Dirs : tmp' = [tmp EXCEPT ![c] = z])
  PROVE  Apart(c) /\ dest' = dest
  BY JobIs DEF Apart, SharedOK

LEMMA FailCleanStep ==
  ASSUME MInv, NEW c \in Clients, NEW r, FailClean(c, r)
  PROVE  MInv' /\ dest' = dest
<1>1. /\ EndJob(c) /\ tmp' = [tmp EXCEPT ![c] = NoDir] /\ ReleaseLock(c)
      /\ UNCHANGED <<dest, user, left, file, disabled, where, ops, found>>
  BY DEF FailClean, RemoveTmp, stateVars
<1>2. SharedOK' /\ tmp'[c] = NoDir /\ Apart(c)
  BY <1>1, JobIs, ReleaseIs, NoDirIs DEF SharedOK, Apart
<1>3. QED
  BY <1>1, <1>2, EndStep

LEMMA QuietlyIs ==
  ASSUME MInv, NEW c \in Clients, NEW l, Quietly(c, l)
  PROVE  Step(c, l) /\ SharedOK' /\ Apart(c) /\ UNCHANGED <<dest, tmp, modLock>>
<1>1. Step(c, l) /\ UNCHANGED <<dest, user, tmp, left, file, disabled, where, modLock, ops, found>>
  BY DEF Quietly, diskVars, stateVars
<1>2. QED
  BY <1>1, JobIs, QuietApart DEF SharedOK

\* What a step may not do to a builtin module.
KeepsBuiltin == \A p \in Builtin : Healthy(p) => dest'[p] = dest[p]

\* A command begins outside its lock.
LEMMA BeginStep ==
  ASSUME MInv, NEW c \in Clients, job[c].at = "idle", NEW j \in Jobs,
         job' = [job EXCEPT ![c] = j], SharedOK', UNCHANGED <<dest, modLock>>,
         UNCHANGED tmp \/ (/\ j.kind = "install" /\ j.at = "extract"
                           /\ \E z \in Dirs : tmp' = [tmp EXCEPT ![c] = z]),
         j.kind \in Locking => j.at \in BeforeLock(j.kind) /\ j.id \in Plugins,
         j.kind \notin Locking => j.at \in StepsOf(j.kind) /\ j.at # "store",
         j.kind \in {"uninstall", "update"} => j.id \notin Builtin
  PROVE  MInv'
<1>1. job'[c] = j
  BY JobIs
<1>2. j.at \in StepsOf(j.kind) /\ ~InLock(j.kind, j.at) /\ j.at \notin {"store", "remove", "rename"}
  BY DEF Jobs, StepsOf, InLock, Locked, Locking, BeforeLock
<1>3. job[c].kind = "none" /\ tmp[c] = NoDir
  BY JobIs DEF Sound, StepsOf, MayHaveTmp, Locked, BeforeLock, Jobs, Locking
<1>4. tmp'[c] # NoDir => MayHaveTmp(j.kind, j.at)
  BY <1>3 DEF MayHaveTmp
<1>5. Sound(c)'
  BY <1>1, <1>2, <1>4 DEF Sound
<1>6. QED
  BY <1>1, <1>5, PutStep, QuietApart

LEMMA NewJobIs ==
  ASSUME NEW k \in Locking \cup {"rescan", "reload"}, NEW i \in Plugins \cup {"none"},
         NEW l \in JobSteps, NEW v \in Nat
  PROVE  /\ [NoJob EXCEPT !.kind = k, !.id = i, !.at = l] \in Jobs
         /\ [NoJob EXCEPT !.kind = k, !.id = i, !.at = l, !.current = v] \in Jobs
<1>1. NoJob \in Jobs
  BY NoJobIs
<1>2. [NoJob EXCEPT !.kind = k] \in Jobs
  BY <1>1 DEF Jobs
<1>3. [NoJob EXCEPT !.kind = k, !.id = i] \in Jobs
  BY <1>2 DEF Jobs
<1>4. [NoJob EXCEPT !.kind = k, !.id = i, !.at = l] \in Jobs
  BY <1>3 DEF Jobs
<1>5. QED
  BY <1>4 DEF Jobs

LEMMA StartJobIs ==
  ASSUME MInv, NEW c \in Clients, NEW k \in Locking \cup {"rescan", "reload"},
         NEW i \in Plugins \cup {"none"}, NEW l \in JobSteps, StartJob(c, k, i, l)
  PROVE  \E j \in Jobs : /\ job' = [job EXCEPT ![c] = j] /\ j.kind = k /\ j.id = i /\ j.at = l
                         /\ job[c].at = "idle" /\ ops' = ops + 1
<1> DEFINE j == [NoJob EXCEPT !.kind = k, !.id = i, !.at = l]
<1>1. j \in Jobs
  BY NewJobIs, 0 \in Nat
<1>2. j.kind = k /\ j.id = i /\ j.at = l
  BY DEF NoJob
<1>3. /\ job' = [job EXCEPT ![c] = j] /\ job[c].at = "idle" /\ ops' = ops + 1
  BY DEF StartJob
<1> HIDE DEF j
<1>4. QED
  BY <1>1, <1>2, <1>3

LEMMA BeginInstallStep ==
  ASSUME MInv, NEW c \in Clients, NEW z \in Zips, BeginInstall(c, z)
  PROVE  MInv' /\ KeepsBuiltin
<1>1. z.id \in Plugins
  BY ZipAssumption
<1>2. PICK j \in Jobs : /\ job' = [job EXCEPT ![c] = j] /\ j.kind = "install" /\ j.id = z.id
                        /\ j.at = "extract" /\ job[c].at = "idle" /\ ops' = ops + 1
  BY <1>1, StartJobIs DEF BeginInstall, Locking, JobSteps
<1>3. /\ tmp' = [tmp EXCEPT ![c] = Partial]
      /\ UNCHANGED <<dest, user, left, file, disabled, where, modLock, found>>
  BY DEF BeginInstall, stateVars
<1>4. SharedOK'
  BY <1>2, <1>3, JobIs, NoDirIs DEF SharedOK
<1>5. MInv'
  BY <1>1, <1>2, <1>3, <1>4, NoDirIs, BeginStep DEF Locking, BeforeLock
<1>6. QED
  BY <1>3, <1>5 DEF KeepsBuiltin

LEMMA BeginOtherStep ==
  ASSUME MInv, NEW c \in Clients,
         \/ Rescan(c)
         \/ \E p \in Plugins : \/ BeginUninstall(c, p) \/ ReloadPlugin(c, p)
                               \/ \E k \in {"enable", "disable"} : BeginSetEnabled(c, k, p)
  PROVE  MInv' /\ KeepsBuiltin
<1>1. \/ StartJob(c, "rescan", "none", "scan")
      \/ \E p \in Plugins : \/ StartJob(c, "uninstall", p, "wait") /\ p \notin Builtin
                            \/ StartJob(c, "reload", p, "reloading")
                            \/ \E k \in {"enable", "disable"} : StartJob(c, k, p, "wait")
  BY DEF Rescan, BeginUninstall, ReloadPlugin, BeginSetEnabled
<1>2. PICK j \in Jobs :
        /\ job' = [job EXCEPT ![c] = j] /\ job[c].at = "idle" /\ ops' = ops + 1
        /\ \/ j.kind = "rescan" /\ j.at = "scan"
           \/ j.kind = "reload" /\ j.at = "reloading"
           \/ j.kind = "uninstall" /\ j.at = "wait" /\ j.id \in Plugins /\ j.id \notin Builtin
           \/ j.kind \in {"enable", "disable"} /\ j.at = "wait" /\ j.id \in Plugins
  BY <1>1, StartJobIs DEF Locking, JobSteps
<1>3. UNCHANGED <<dest, user, tmp, left, file, disabled, where, modLock, found>>
  BY DEF Rescan, BeginUninstall, ReloadPlugin, BeginSetEnabled, diskVars, stateVars, TakeHostSession
<1>4. SharedOK'
  BY <1>2, <1>3, JobIs DEF SharedOK
<1>5. /\ j.kind \in Locking => j.at \in BeforeLock(j.kind) /\ j.id \in Plugins
      /\ j.kind \notin Locking => j.at \in StepsOf(j.kind) /\ j.at # "store"
      /\ j.kind \in {"uninstall", "update"} => j.id \notin Builtin
      /\ ~(j.kind = "install")
  BY <1>2 DEF Locking, BeforeLock, StepsOf
<1>6. MInv'
  BY <1>2, <1>3, <1>4, <1>5, BeginStep
<1>7. QED
  BY <1>3, <1>6 DEF KeepsBuiltin

LEMMA BeginUpdateStep ==
  ASSUME MInv, NEW c \in Clients, NEW p \in Plugins, BeginUpdate(c, p)
  PROVE  MInv' /\ KeepsBuiltin
<1> DEFINE j == [NoJob EXCEPT !.kind = "update", !.id = p, !.at = "wait", !.current = found[p]]
<1>1. found[p] \in Nat
  BY JobIs DEF SharedOK
<1>2. j \in Jobs /\ j.kind = "update" /\ j.id = p /\ j.at = "wait"
  BY <1>1, NewJobIs DEF Locking, JobSteps, NoJob
<1>3. /\ job' = [job EXCEPT ![c] = j] /\ job[c].at = "idle" /\ ops' = ops + 1 /\ p \notin Builtin
      /\ UNCHANGED <<dest, user, tmp, left, file, disabled, where, modLock, found>>
  BY DEF BeginUpdate, diskVars, stateVars
<1> HIDE DEF j
<1>4. SharedOK'
  BY <1>3, JobIs DEF SharedOK
<1>5. MInv'
  BY <1>2, <1>3, <1>4, BeginStep DEF Locking, BeforeLock
<1>6. QED
  BY <1>3, <1>5 DEF KeepsBuiltin

LEMMA RefusalStep ==
  ASSUME MInv, NEW c \in Clients,
         \/ ExtractFails(c) \/ SmokeFails(c) \/ RefuseBuiltin(c) \/ Conflict(c) \/ RenameFails(c)
         \/ DeleteFails(c) \/ SaveFails(c) \/ NoUpdate(c) \/ DownloadFails(c)
  PROVE  MInv' /\ KeepsBuiltin
<1>1. PICK r : FailClean(c, r)
  BY DEF ExtractFails, SmokeFails, RefuseBuiltin, Conflict, RenameFails, DeleteFails, SaveFails,
         NoUpdate, DownloadFails
<1>2. QED
  BY <1>1, FailCleanStep DEF KeepsBuiltin

LEMMA LockStep == ASSUME MInv, NEW c \in Clients, Lock(c) PROVE MInv' /\ KeepsBuiltin
<1> DEFINE l == CASE job[c].kind = "install" -> "judge"
                  [] job[c].kind = "uninstall" -> "resolve"
                  [] job[c].kind = "update" -> "fetch"
                  [] OTHER -> "read"
<1>1. /\ job[c].kind \in Locking /\ job[c].at = "wait" /\ job[c].id \in Plugins
      /\ modLock[job[c].id] = NoCaller /\ modLock' = [modLock EXCEPT ![job[c].id] = c]
      /\ Step(c, l)
      /\ UNCHANGED <<dest, user, tmp, left, file, disabled, where, ops, found>>
  BY JobIs DEF Lock, JobAt, diskVars, stateVars, Locking, Sound
<1>2. /\ l \in JobSteps /\ l \in StepsOf(job[c].kind) /\ l \notin {"store", "remove", "rename"}
      /\ (job[c].kind = "install" => MayHaveTmp(job[c].kind, l))
  BY <1>1 DEF JobSteps, StepsOf, Locked, Locking, MayHaveTmp
<1>3. tmp[c] # NoDir => job[c].kind = "install"
  BY <1>1, JobIs DEF Sound, MayHaveTmp
<1>4. SharedOK' /\ modLock'[job[c].id] = c
  BY <1>1, JobIs DEF SharedOK
<1>5. Apart(c)
  BY <1>1, JobIs DEF Apart, SharedOK
<1> HIDE DEF l
<1>6. MInv'
  BY <1>1, <1>2, <1>3, <1>4, <1>5, AdvanceStep
<1>7. QED
  BY <1>1, <1>6 DEF KeepsBuiltin

LEMMA ExtractStep ==
  ASSUME MInv, NEW c \in Clients, NEW z \in Zips, Extract(c, z)
  PROVE  MInv' /\ KeepsBuiltin
<1>1. z \in Dirs
  BY ZipAssumption DEF Dirs
<1>2. /\ job[c].at = "extract" /\ tmp' = [tmp EXCEPT ![c] = z]
      /\ UNCHANGED <<dest, user, left, file, disabled, where, modLock, ops, found>>
  BY DEF Extract, stateVars
<1>3. PICK o \in BOOLEAN :
        job' = [job EXCEPT ![c].zip = z, ![c].overwrite = o,
                           ![c].at = IF job[c].kind = "install" THEN "smoke" ELSE "check"]
  BY DEF Extract
<1> DEFINE l == IF job[c].kind = "install" THEN "smoke" ELSE "check"
           j1 == [job[c] EXCEPT !.zip = z]
           j2 == [j1 EXCEPT !.overwrite = o]
           j == [j2 EXCEPT !.at = l]
<1>4. job' = [job EXCEPT ![c] = j]
  BY <1>3, JobIs
<1>5. job[c] \in Jobs /\ Sound(c) /\ job \in [Clients -> Jobs]
  BY JobIs
<1>6. j1 \in Jobs /\ j1.kind = job[c].kind /\ j1.id = job[c].id /\ j1.at = job[c].at
  BY <1>1, <1>5 DEF Jobs
<1> HIDE DEF j1
<1>7. j2 \in Jobs /\ j2.kind = job[c].kind /\ j2.id = job[c].id
  BY <1>6 DEF Jobs
<1> HIDE DEF j2
<1>8. l \in JobSteps /\ l \in {"smoke", "check"} /\ (l = "smoke" <=> job[c].kind = "install")
  BY DEF JobSteps
<1> HIDE DEF l
<1>9. j \in Jobs /\ j.at = l /\ j.kind = job[c].kind /\ j.id = job[c].id
  BY <1>7, <1>8, GoesTo
<1> HIDE DEF j
<1>10. job'[c] = j
  BY <1>4, <1>5
<1>11. job[c].kind \in {"install", "update"}
  BY <1>2, <1>5 DEF Sound, StepsOf, Locked, BeforeLock
<1>12. /\ l \in StepsOf(job[c].kind) /\ MayHaveTmp(job[c].kind, l)
       /\ InLock(job[c].kind, l) => InLock(job[c].kind, job[c].at)
  BY <1>2, <1>8, <1>11 DEF StepsOf, Locked, BeforeLock, MayHaveTmp, InLock, Locking
<1>13. SharedOK' /\ Apart(c)
  BY <1>1, <1>2, JobIs, QuietApart DEF SharedOK
<1>14. Sound(c)'
  BY <1>2, <1>5, <1>8, <1>9, <1>10, <1>11, <1>12 DEF Sound
<1>15. MInv'
  BY <1>4, <1>9, <1>13, <1>14, PutStep
<1>16. QED
  BY <1>2, <1>15 DEF KeepsBuiltin

LEMMA QuietSteps ==
  ASSUME MInv, NEW c \in Clients, Smoke(c) \/ Proceed(c) \/ (\E v \in Versions : Fetch(c, v))
  PROVE  MInv' /\ KeepsBuiltin
<1>1. PICK l \in {"wait", "remove", "download"} :
        /\ Quietly(c, l)
        /\ l = "wait" => job[c].kind = "install" /\ job[c].at = "smoke"
        /\ l = "remove" => /\ job[c].kind = "install" /\ job[c].at = "judge"
                           /\ ~(job[c].id \in Builtin /\ Healthy(job[c].id))
        /\ l = "download" => job[c].kind = "update" /\ job[c].at = "fetch"
  BY DEF Smoke, Proceed, Fetch, JobAt
<1>2. Step(c, l) /\ SharedOK' /\ Apart(c) /\ UNCHANGED <<dest, tmp, modLock>>
  BY <1>1, QuietlyIs
<1>3. Sound(c) /\ l \in JobSteps
  BY JobIs DEF JobSteps
<1>4. /\ l \in StepsOf(job[c].kind) /\ l # "store"
      /\ InLock(job[c].kind, l) => InLock(job[c].kind, job[c].at)
      /\ MayHaveTmp(job[c].kind, job[c].at) => MayHaveTmp(job[c].kind, l)
  BY <1>1 DEF StepsOf, Locked, BeforeLock, MayHaveTmp, InLock, Locking
<1>5. ~(job[c].id \in Builtin /\ Whole(dest'[job[c].id])) \/ l # "remove"
  BY <1>1, <1>2 DEF Healthy
<1>6. MInv'
  BY <1>1, <1>2, <1>3, <1>4, <1>5, AdvanceStep DEF Sound
<1>7. QED
  BY <1>2, <1>6 DEF KeepsBuiltin

LEMMA CheckZipStep == ASSUME MInv, NEW c \in Clients, CheckZip(c) PROVE MInv' /\ KeepsBuiltin
<1>1. job[c].kind = "update" /\ job[c].at = "check"
  BY DEF CheckZip, JobAt
<1>2. CASE Quietly(c, "close")
  <2>1. Step(c, "close") /\ SharedOK' /\ Apart(c) /\ UNCHANGED <<dest, tmp, modLock>>
    BY <1>2, QuietlyIs
  <2>2. Sound(c) /\ "close" \in JobSteps
    BY JobIs DEF JobSteps
  <2>3. /\ "close" \in StepsOf(job[c].kind)
        /\ InLock(job[c].kind, "close") => InLock(job[c].kind, job[c].at)
        /\ MayHaveTmp(job[c].kind, job[c].at) => MayHaveTmp(job[c].kind, "close")
    BY <1>1 DEF StepsOf, Locked, BeforeLock, MayHaveTmp, InLock, Locking
  <2>4. MInv'
    BY <1>1, <2>1, <2>2, <2>3, AdvanceStep DEF Sound
  <2>5. QED
    BY <2>1, <2>4 DEF KeepsBuiltin
<1>3. CASE FailClean(c, "module_install")
  BY <1>3, FailCleanStep DEF KeepsBuiltin
<1>4. QED
  BY <1>2, <1>3 DEF CheckZip

\* Who holds the lock of a builtin id past the judgement may write there: the
\* module is not healthy.
LEMMA WriteKeepsBuiltin ==
  ASSUME MInv, NEW c \in Clients, job[c].kind \in {"install", "update", "uninstall"},
         job[c].kind = "install" => job[c].at \in {"remove", "rename"},
         NEW v, dest' \in {dest, [dest EXCEPT ![job[c].id] = v]}
  PROVE  KeepsBuiltin
<1>1. job[c].id \in Builtin => ~Healthy(job[c].id)
  BY JobIs DEF Sound
<1>2. \A p \in Plugins : p # job[c].id => dest'[p] = dest[p]
  BY JobIs DEF SharedOK
<1>3. QED
  BY <1>1, <1>2, ModuleAssumption DEF KeepsBuiltin

LEMMA WriteApart ==
  ASSUME MInv, NEW c \in Clients, InLock(job[c].kind, job[c].at),
         NEW v, dest' \in {dest, [dest EXCEPT ![job[c].id] = v]},
         UNCHANGED modLock \/ ReleaseLock(c),
         \A d \in Clients \ {c} : tmp'[d] \in {tmp[d], NoDir}
  PROVE  Apart(c)
<1>1. modLock[job[c].id] = c /\ job[c].id \in Plugins
  BY JobIs DEF Sound, InLock
<1>2. \A p \in Plugins : dest'[p] # dest[p] => p = job[c].id
  BY JobIs DEF SharedOK
<1>3. \A d \in Clients \ {c}, p \in Plugins : modLock[p] = d => modLock'[p] = d
  BY ReleaseIs
<1>4. QED
  BY <1>1, <1>2, <1>3 DEF Apart

LEMMA RemoveOldStep ==
  ASSUME MInv, NEW c \in Clients, RemoveOld(c) \/ RemoveOldFails(c)
  PROVE  MInv' /\ KeepsBuiltin
<1>1. job[c].kind \in {"install", "update"} /\ job[c].at = "remove"
  BY DEF RemoveOld, RemoveOldFails, JobAt
<1>2. Sound(c) /\ SharedOK /\ job[c].id \in Plugins
  BY <1>1, JobIs DEF Sound, Locking
<1>3. InLock(job[c].kind, "remove") /\ InLock(job[c].kind, "rename")
      /\ MayHaveTmp(job[c].kind, "rename") /\ "rename" \in StepsOf(job[c].kind)
      /\ "rename" \in JobSteps
  BY <1>1 DEF InLock, Locking, Locked, MayHaveTmp, StepsOf, JobSteps
<1>4. CASE RemoveOld(c)
  <2>1. /\ Step(c, "rename") /\ dest' = [dest EXCEPT ![job[c].id] = 0]
        /\ UNCHANGED <<user, tmp, left, file, disabled, where, modLock, ops, found>>
    BY <1>4 DEF RemoveOld, stateVars
  <2>2. SharedOK' /\ dest'[job[c].id] = 0
    BY <1>2, <2>1 DEF SharedOK
  <2>7. /\ dest' \in {dest, [dest EXCEPT ![job[c].id] = 0]}
        /\ \A d \in Clients \ {c} : tmp'[d] \in {tmp[d], NoDir}
        /\ UNCHANGED modLock
    BY <2>1
  <2>3. Apart(c) /\ KeepsBuiltin
    <3>1. InLock(job[c].kind, job[c].at)
      BY <1>1, <1>3
    <3>2. Apart(c)
      BY <2>7, <3>1, WriteApart
    <3>3. KeepsBuiltin
      BY <1>1, <2>7, WriteKeepsBuiltin
    <3>4. QED
      BY <3>2, <3>3
  <2>4. ~Whole(dest'[job[c].id])
    BY <2>2 DEF Whole
  <2>5. modLock'[job[c].id] = c
    BY <1>1, <1>2, <1>3, <2>1 DEF Sound
  <2>6. MInv'
    BY <1>3, <2>1, <2>2, <2>3, <2>4, <2>5, AdvanceStep
  <2>8. QED
    BY <2>3, <2>6
<1>5. CASE RemoveOldFails(c)
  <2>1. /\ dest' \in {dest, [dest EXCEPT ![job[c].id] = Broken]}
        /\ EndJob(c) /\ tmp' = [tmp EXCEPT ![c] = NoDir] /\ ReleaseLock(c)
        /\ UNCHANGED <<user, left, file, disabled, where, ops, found>>
    BY <1>5 DEF RemoveOldFails, RemoveTmp, stateVars
  <2>2. SharedOK'
    BY <1>2, <2>1, ReleaseIs, NoDirIs DEF SharedOK, Broken
  <2>3. tmp'[c] = NoDir /\ \A d \in Clients \ {c} : tmp'[d] \in {tmp[d], NoDir}
    BY <1>2, <2>1 DEF SharedOK
  <2>4. Apart(c) /\ KeepsBuiltin
    BY <1>1, <1>3, <2>1, <2>3, WriteApart, WriteKeepsBuiltin
  <2>5. QED
    BY <2>1, <2>2, <2>3, <2>4, EndStep
<1>6. QED
  BY <1>4, <1>5

LEMMA RenameStep == ASSUME MInv, NEW c \in Clients, Rename(c) PROVE MInv' /\ KeepsBuiltin
<1>1. /\ job[c].kind \in {"install", "update"} /\ job[c].at = "rename" /\ Step(c, "scan")
      /\ dest' = [dest EXCEPT ![job[c].id] = tmp[c].version]
      /\ tmp' = [tmp EXCEPT ![c] = NoDir]
      /\ UNCHANGED <<user, left, file, disabled, where, modLock, ops, found>>
  BY DEF Rename, JobAt, RemoveTmp, stateVars
<1>2. Sound(c) /\ SharedOK /\ job[c].id \in Plugins
  BY <1>1, JobIs DEF Sound, Locking
<1>3. /\ InLock(job[c].kind, "rename") /\ InLock(job[c].kind, "scan")
      /\ "scan" \in StepsOf(job[c].kind) /\ "scan" \in JobSteps
  BY <1>1 DEF InLock, Locking, Locked, StepsOf, JobSteps
<1>4. tmp[c].version \in Nat
  BY <1>2 DEF SharedOK, Dirs
<1>5. SharedOK'
  BY <1>1, <1>2, <1>4, NoDirIs DEF SharedOK
<1>6. tmp'[c] = NoDir /\ \A d \in Clients \ {c} : tmp'[d] \in {tmp[d], NoDir}
  BY <1>1, <1>2 DEF SharedOK
<1> DEFINE v == tmp[c].version
<1>10. /\ dest' \in {dest, [dest EXCEPT ![job[c].id] = v]} /\ UNCHANGED modLock
       /\ job[c].kind \in {"install", "update"} /\ job[c].at = "rename"
  BY <1>1
<1> HIDE DEF v
<1>7. Apart(c) /\ KeepsBuiltin
  <2>1. InLock(job[c].kind, job[c].at)
    BY <1>3, <1>10
  <2>2. Apart(c)
    BY <1>6, <1>10, <2>1, WriteApart
  <2>3. KeepsBuiltin
    BY <1>10, WriteKeepsBuiltin
  <2>4. QED
    BY <2>2, <2>3
<1>8. modLock'[job[c].id] = c
  BY <1>1, <1>2, <1>3 DEF Sound
<1>9. MInv'
  BY <1>1, <1>3, <1>5, <1>6, <1>7, <1>8, AdvanceStep
<1>11. QED
  BY <1>7, <1>9

LEMMA DeleteStep == ASSUME MInv, NEW c \in Clients, Delete(c) PROVE MInv' /\ KeepsBuiltin
<1>1. /\ job[c].kind = "uninstall" /\ job[c].at = "delete" /\ Step(c, "scan")
      /\ dest' \in {dest, [dest EXCEPT ![job[c].id] = 0]}
      /\ user' \in {user, [user EXCEPT ![job[c].id] = 0]}
      /\ tmp' = tmp \/ (\E x : tmp' = [tmp EXCEPT ![x] = NoDir])
      /\ left' \subseteq left
      /\ UNCHANGED <<file, disabled, where, modLock, ops, found>>
  BY DEF Delete, JobAt, stateVars
<1>2. Sound(c) /\ SharedOK /\ job[c].id \in Plugins
  BY <1>1, JobIs DEF Sound, Locking
<1>3. /\ InLock(job[c].kind, "delete") /\ InLock(job[c].kind, "scan")
      /\ "scan" \in StepsOf(job[c].kind) /\ "scan" \in JobSteps
      /\ ~MayHaveTmp(job[c].kind, "delete")
  BY <1>1 DEF InLock, Locking, Locked, StepsOf, JobSteps, MayHaveTmp
<1>4. /\ tmp' \in [Clients -> Dirs]
      /\ \A d \in Clients : tmp'[d] \in {tmp[d], NoDir}
  BY <1>1, <1>2, NoDirIs DEF SharedOK
<1>5. SharedOK'
  BY <1>1, <1>2, <1>4 DEF SharedOK
<1>6. Apart(c) /\ KeepsBuiltin
  BY <1>1, <1>3, <1>4, WriteApart, WriteKeepsBuiltin
<1>7. modLock'[job[c].id] = c /\ tmp'[c] = NoDir
  BY <1>1, <1>2, <1>3, <1>4 DEF Sound
<1>8. MInv'
  BY <1>1, <1>3, <1>5, <1>6, <1>7, AdvanceStep
<1>9. QED
  BY <1>6, <1>8

\* What a scan finds of a plugin, on a disk as it may be, is a place with a version.
DiskOK ==
  /\ dest \in [Plugins -> Nat] /\ user \in [Plugins -> Nat]
  /\ tmp \in [Clients -> Dirs] /\ left \subseteq Dirs

LEMMA WinnerIs ==
  ASSUME DiskOK, NEW p \in Plugins, NEW d \in Winners(p)
  PROVE  d \in Places /\ VersionAt(p, d) \in Nat
<1>1. CASE d = Nowhere
  <2>1. d[1] = "none" /\ d # <<"dest">> /\ d # <<"user">>
    BY <1>1 DEF Nowhere
  <2>2. QED
    BY <1>1, <2>1 DEF Places, VersionAt
<1>2. CASE d = <<"dest">>
  BY <1>2 DEF Places, VersionAt, DiskOK
<1>3. CASE d = <<"user">>
  <2>1. d # <<"dest">>
    BY <1>3
  <2>2. QED
    BY <1>3, <2>1 DEF Places, VersionAt, DiskOK
<1>4. ASSUME NEW c \in Clients, d = <<"tmp", c>> PROVE d \in Places /\ VersionAt(p, d) \in Nat
  <2>1. d[1] = "tmp" /\ d[2] = c /\ d # <<"dest">> /\ d # <<"user">> /\ d \in {"tmp"} \X Clients
    BY <1>4
  <2>2. VersionAt(p, d) = tmp[c].version /\ tmp[c].version \in Nat
    BY <2>1 DEF VersionAt, DiskOK, Dirs
  <2>3. QED
    BY <2>1, <2>2 DEF Places
<1>5. ASSUME NEW z \in left, d = <<"left", z>> PROVE d \in Places /\ VersionAt(p, d) \in Nat
  <2>1. z \in Dirs
    BY DEF DiskOK
  <2>2. d[1] = "left" /\ d[2] = z /\ d # <<"dest">> /\ d # <<"user">> /\ d \in {"left"} \X Dirs
    BY <1>5, <2>1
  <2>3. VersionAt(p, d) = z.version /\ z.version \in Nat
    BY <2>1, <2>2 DEF VersionAt, Dirs
  <2>4. QED
    BY <2>2, <2>3 DEF Places
<1>6. QED
  BY <1>1, <1>2, <1>3, <1>4, <1>5 DEF Winners, TmpDirs

LEMMA ScanIs ==
  ASSUME DiskOK, NEW s \in Scans
  PROVE  /\ s \in [Plugins -> Places] /\ Versioned(s) \in [Plugins -> Nat]
         /\ <<s, Versioned(s)>> \in [Plugins -> Places] \X [Plugins -> Nat]
<1>1. \A p \in Plugins : s[p] \in Places /\ VersionAt(p, s[p]) \in Nat
  BY WinnerIs DEF Scans
<1>2. s \in [Plugins -> Places]
  BY <1>1 DEF Scans
<1>3. Versioned(s) \in [Plugins -> Nat]
  BY <1>1 DEF Versioned
<1>4. QED
  BY <1>2, <1>3

LEMMA ScanStep == ASSUME MInv, NEW c \in Clients, ScanAll(c) PROVE MInv' /\ KeepsBuiltin
<1>1. /\ job[c].at = "scan"
      /\ UNCHANGED <<dest, user, tmp, left, file, disabled, where, modLock, ops, found>>
  BY DEF ScanAll, diskVars, stateVars
<1>2. PICK s \in Scans : job' = [job EXCEPT ![c].scan = <<s, Versioned(s)>>, ![c].at = "store"]
  BY DEF ScanAll
<1>3. /\ job[c] \in Jobs /\ Sound(c) /\ SharedOK /\ job \in [Clients -> Jobs]
  BY JobIs
<1> DEFINE v == <<s, Versioned(s)>>
           j1 == [job[c] EXCEPT !.scan = v]
           j == [j1 EXCEPT !.at = "store"]
<1>4. v \in [Plugins -> Places] \X [Plugins -> Nat] /\ v # <<>>
  BY <1>3, ScanIs DEF SharedOK, DiskOK
<1>5. job' = [job EXCEPT ![c] = j]
  BY <1>2, <1>3
<1> HIDE DEF v
<1>6. j1 \in Jobs /\ j1.kind = job[c].kind /\ j1.id = job[c].id /\ j1.scan = v
  BY <1>3, <1>4 DEF Jobs
<1> HIDE DEF j1
<1>7. "store" \in JobSteps
  BY DEF JobSteps
<1>8. j \in Jobs /\ j.at = "store" /\ j.kind = job[c].kind /\ j.id = job[c].id /\ j.scan = v
  BY <1>6, <1>7, GoesTo
<1> HIDE DEF j
<1>9. job'[c] = j
  BY <1>3, <1>5
<1>10. /\ "store" \in StepsOf(job[c].kind) /\ ~MayHaveTmp(job[c].kind, "scan")
       /\ InLock(job[c].kind, "store") => InLock(job[c].kind, job[c].at)
  BY <1>1, <1>3 DEF Sound, Jobs, StepsOf, Locked, BeforeLock, MayHaveTmp, InLock, Locking
<1>11. Sound(c)'
  BY <1>1, <1>3, <1>4, <1>8, <1>9, <1>10 DEF Sound
<1>12. SharedOK' /\ Apart(c)
  BY <1>1, <1>3, QuietApart DEF SharedOK
<1>13. MInv'
  BY <1>5, <1>8, <1>11, <1>12, PutStep
<1>14. QED
  BY <1>1, <1>13 DEF KeepsBuiltin

LEMMA StoreStep == ASSUME MInv, NEW c \in Clients, Store(c) PROVE MInv' /\ KeepsBuiltin
<1>1. /\ job[c].at = "store" /\ where' = job[c].scan[1] /\ found' = job[c].scan[2]
      /\ UNCHANGED <<dest, user, tmp, left, file, disabled, ops>>
      /\ \/ job[c].kind = "update" /\ Step(c, "restart") /\ UNCHANGED modLock
         \/ EndJob(c) /\ ReleaseLock(c)
  BY DEF Store, diskVars, stateVars
<1>2. job[c] \in Jobs /\ Sound(c) /\ SharedOK
  BY JobIs
<1>3. job[c].scan \in [Plugins -> Places] \X [Plugins -> Nat]
  BY <1>1, <1>2 DEF Sound, Jobs
<1>4. where' \in [Plugins -> Places] /\ found' \in [Plugins -> Nat]
  BY <1>1, <1>3
<1>5. tmp'[c] = NoDir
  BY <1>1, <1>2 DEF Sound, MayHaveTmp
<1>6. CASE job[c].kind = "update" /\ Step(c, "restart") /\ UNCHANGED modLock
  <2>1. SharedOK' /\ Apart(c)
    BY <1>1, <1>2, <1>4, <1>6, QuietApart DEF SharedOK
  <2>2. /\ "restart" \in JobSteps /\ "restart" \in StepsOf(job[c].kind)
        /\ InLock(job[c].kind, "restart") => InLock(job[c].kind, job[c].at)
    BY <1>1, <1>6 DEF JobSteps, StepsOf, Locked, InLock, Locking
  <2>3. MInv'
    BY <1>2, <1>5, <1>6, <2>1, <2>2, AdvanceStep DEF Sound
  <2>4. QED
    BY <1>1, <2>3 DEF KeepsBuiltin
<1>7. CASE EndJob(c) /\ ReleaseLock(c)
  <2>1. SharedOK' /\ Apart(c)
    BY <1>1, <1>2, <1>4, <1>7, ReleaseIs DEF SharedOK, Apart
  <2>2. QED
    BY <1>1, <1>5, <1>7, <2>1, EndStep DEF KeepsBuiltin
<1>8. QED
  BY <1>1, <1>6, <1>7

LEMMA ResolveStep == ASSUME MInv, NEW c \in Clients, Resolve(c) PROVE MInv' /\ KeepsBuiltin
<1>1. /\ job[c].kind = "uninstall" /\ job[c].at = "resolve"
      /\ \/ FailClean(c, "module_not_found")
         \/ /\ job' = [job EXCEPT ![c].at = "close", ![c].target = TargetDir(job[c].id)]
            /\ UNCHANGED <<dest, user, tmp, left, file, disabled, where, modLock, ops, found>>
  BY DEF Resolve, JobAt, diskVars, stateVars
<1>2. CASE FailClean(c, "module_not_found")
  BY <1>2, FailCleanStep DEF KeepsBuiltin
<1>3. CASE /\ job' = [job EXCEPT ![c].at = "close", ![c].target = TargetDir(job[c].id)]
           /\ UNCHANGED <<dest, user, tmp, left, file, disabled, where, modLock, ops, found>>
  <2>1. /\ job[c] \in Jobs /\ Sound(c) /\ SharedOK /\ job \in [Clients -> Jobs]
    BY JobIs
  <2> DEFINE t == TargetDir(job[c].id)
             j1 == [job[c] EXCEPT !.at = "close"]
             j == [j1 EXCEPT !.target = t]
  <2>2. t \in Places
    BY <1>1, <2>1 DEF Sound, Locking, SharedOK, TargetDir, Places
  <2>3. job' = [job EXCEPT ![c] = j]
    BY <1>3, <2>1
  <2>4. "close" \in JobSteps
    BY DEF JobSteps
  <2>5. j1 \in Jobs /\ j1.kind = job[c].kind /\ j1.id = job[c].id /\ j1.at = "close"
    BY <2>1, <2>4, GoesTo
  <2> HIDE DEF t, j1
  <2>6. j \in Jobs /\ j.kind = job[c].kind /\ j.id = job[c].id /\ j.at = "close"
    BY <2>2, <2>5 DEF Jobs
  <2> HIDE DEF j
  <2>7. job'[c] = j
    BY <2>1, <2>3
  <2>8. /\ "close" \in StepsOf(job[c].kind) /\ ~MayHaveTmp(job[c].kind, "resolve")
        /\ InLock(job[c].kind, "close") => InLock(job[c].kind, job[c].at)
    BY <1>1 DEF StepsOf, Locked, MayHaveTmp, InLock, Locking
  <2>9. Sound(c)'
    BY <1>1, <1>3, <2>1, <2>6, <2>7, <2>8 DEF Sound
  <2>10. SharedOK' /\ Apart(c)
    BY <1>3, <2>1, QuietApart DEF SharedOK
  <2>11. MInv'
    BY <2>3, <2>6, <2>9, <2>10, PutStep
  <2>12. QED
    BY <1>3, <2>11 DEF KeepsBuiltin
<1>4. QED
  BY <1>1, <1>2, <1>3

LEMMA ReadStateStep == ASSUME MInv, NEW c \in Clients, ReadState(c) PROVE MInv' /\ KeepsBuiltin
<1>1. /\ job[c].kind \in {"enable", "disable"} /\ job[c].at = "read"
      /\ job' = [job EXCEPT ![c].at = "save", ![c].ids = Toggled(c)]
      /\ UNCHANGED <<dest, user, tmp, left, file, disabled, where, modLock, ops, found>>
  BY DEF ReadState, JobAt, diskVars, stateVars
<1>2. /\ job[c] \in Jobs /\ Sound(c) /\ SharedOK /\ job \in [Clients -> Jobs]
  BY JobIs
<1> DEFINE t == Toggled(c)
           j1 == [job[c] EXCEPT !.at = "save"]
           j == [j1 EXCEPT !.ids = t]
<1>3. t \in SUBSET Plugins
  BY <1>1, <1>2 DEF Sound, Locking, SharedOK, Toggled
<1>4. job' = [job EXCEPT ![c] = j]
  BY <1>1, <1>2
<1>5. "save" \in JobSteps
  BY DEF JobSteps
<1>6. j1 \in Jobs /\ j1.kind = job[c].kind /\ j1.id = job[c].id /\ j1.at = "save"
  BY <1>2, <1>5, GoesTo
<1> HIDE DEF t, j1
<1>7. j \in Jobs /\ j.kind = job[c].kind /\ j.id = job[c].id /\ j.at = "save"
  BY <1>3, <1>6 DEF Jobs
<1> HIDE DEF j
<1>8. job'[c] = j
  BY <1>2, <1>4
<1>9. /\ "save" \in StepsOf(job[c].kind) /\ ~MayHaveTmp(job[c].kind, "read")
      /\ InLock(job[c].kind, "save") => InLock(job[c].kind, job[c].at)
  BY <1>1 DEF StepsOf, Locked, MayHaveTmp, InLock, Locking
<1>10. Sound(c)'
  BY <1>1, <1>2, <1>7, <1>8, <1>9 DEF Sound
<1>11. SharedOK' /\ Apart(c)
  BY <1>1, <1>2, QuietApart DEF SharedOK
<1>12. MInv'
  BY <1>4, <1>7, <1>10, <1>11, PutStep
<1>13. QED
  BY <1>1, <1>12 DEF KeepsBuiltin

\* The other steps of a command that change neither the module's directory
\* nor a lock.
LEMMA OnwardStep ==
  ASSUME MInv, NEW c \in Clients,
         \/ Close(c) \/ Closed(c) \/ SaveState(c) \/ SetDisabled(c) \/ Download(c) \/ Restart(c)
  PROVE  MInv' /\ KeepsBuiltin
<1>1. PICK l \in {"closing", "remove", "delete", "set", "scan", "extract", "restarting"} :
        /\ Step(c, l) /\ UNCHANGED <<dest, user, left, where, modLock, ops, found>>
        /\ l = "closing" => job[c].kind \in {"uninstall", "update"} /\ job[c].at = "close"
        /\ l = "remove" => job[c].at = "closing" /\ job[c].kind = "update"
        /\ l = "delete" => job[c].at = "closing" /\ job[c].kind # "update"
        /\ l = "set" => job[c].at = "save"
        /\ l = "scan" => job[c].at = "set"
        /\ l = "extract" => job[c].kind = "update" /\ job[c].at = "download"
        /\ l = "restarting" => job[c].kind = "update" /\ job[c].at = "restart"
        /\ IF l = "extract" THEN tmp' = [tmp EXCEPT ![c] = Partial] ELSE UNCHANGED tmp
        /\ file' \in {file, job[c].ids} /\ disabled' \in {disabled, job[c].ids}
  BY DEF Close, Closed, SaveState, SetDisabled, Download, Restart, JobAt, TakeHostSession, diskVars,
         stateVars
<1>2. job[c] \in Jobs /\ Sound(c) /\ SharedOK /\ job[c].ids \in SUBSET Plugins
  BY JobIs DEF Jobs
<1>3. SharedOK' /\ Apart(c)
  BY <1>1, <1>2, NoDirIs, QuietApart DEF SharedOK
<1>4. job[c].kind \in Locking \cup {"none", "rescan", "reload"} /\ job[c].at \in StepsOf(job[c].kind)
  BY <1>2 DEF Jobs, Sound
<1>5. job[c].at \in {"closing"} /\ job[c].kind # "update" => job[c].kind = "uninstall"
  BY <1>4 DEF StepsOf, Locked, BeforeLock, Locking
<1>6. job[c].at \in {"save", "set"} => job[c].kind \in {"enable", "disable"}
  BY <1>4 DEF StepsOf, Locked, BeforeLock, Locking
<1>7. /\ l \in JobSteps /\ l \in StepsOf(job[c].kind) /\ l # "store" /\ l # "rename"
      /\ InLock(job[c].kind, l) => InLock(job[c].kind, job[c].at)
      /\ l # "extract" /\ MayHaveTmp(job[c].kind, job[c].at) => MayHaveTmp(job[c].kind, l)
      /\ l = "extract" => MayHaveTmp(job[c].kind, l)
      /\ l = "remove" => job[c].kind = "update"
  BY <1>1, <1>5, <1>6 DEF JobSteps, StepsOf, Locked, BeforeLock, MayHaveTmp, InLock, Locking
<1>8. tmp'[c] # NoDir => MayHaveTmp(job[c].kind, l)
  BY <1>1, <1>2, <1>7 DEF Sound
<1>9. InLock(job[c].kind, l) => modLock'[job[c].id] = c
  BY <1>1, <1>2, <1>7 DEF Sound
<1>10. MInv'
  BY <1>1, <1>3, <1>7, <1>8, <1>9, AdvanceStep
<1>11. QED
  BY <1>1, <1>10 DEF KeepsBuiltin

LEMMA RestartedStep ==
  ASSUME MInv, NEW c \in Clients, Restarted(c) \/ Reloaded(c)
  PROVE  MInv' /\ KeepsBuiltin
<1>1. /\ EndJob(c) /\ job[c].at \in {"restarting", "reloading"}
      /\ UNCHANGED modLock \/ ReleaseLock(c)
      /\ UNCHANGED <<dest, user, tmp, left, file, disabled, where, ops, found>>
  BY DEF Restarted, Reloaded, diskVars, stateVars
<1>2. Sound(c) /\ SharedOK
  BY JobIs
<1>3. SharedOK' /\ Apart(c)
  BY <1>1, <1>2, ReleaseIs DEF SharedOK, Apart
<1>4. tmp'[c] = NoDir
  BY <1>1, <1>2 DEF Sound, MayHaveTmp
<1>5. QED
  BY <1>1, <1>3, <1>4, EndStep DEF KeepsBuiltin

LEMMA AbandonStep == ASSUME MInv, NEW c \in Clients, Abandon(c) PROVE MInv' /\ KeepsBuiltin
<1>1. /\ EndJob(c) /\ ReleaseLock(c) /\ tmp' = [tmp EXCEPT ![c] = NoDir]
      /\ UNCHANGED <<dest, user, file, disabled, where, ops, found>>
  BY DEF Abandon, RemoveTmp, stateVars
<1>2. PICK z \in Zips : left' \in {left, left \cup {z}, left \cup {tmp[c]}}
  BY DEF Abandon
<1>3. SharedOK /\ z \in Dirs /\ tmp[c] \in Dirs
  BY JobIs, ZipAssumption DEF SharedOK, Dirs
<1>4. left' \subseteq Dirs
  BY <1>2, <1>3 DEF SharedOK
<1>5. SharedOK' /\ tmp'[c] = NoDir /\ Apart(c)
  BY <1>1, <1>3, <1>4, ReleaseIs, NoDirIs DEF SharedOK, Apart
<1>6. QED
  BY <1>1, <1>5, EndStep DEF KeepsBuiltin

\* Every step of a command keeps the invariant, and builtin modules.
LEMMA CommandStep == ASSUME MInv, NEW c \in Clients, Command(c) PROVE MInv' /\ KeepsBuiltin
<1>1. CASE \E z \in Zips : BeginInstall(c, z) \/ Extract(c, z)
  BY <1>1, BeginInstallStep, ExtractStep
<1>2. CASE \/ Rescan(c)
           \/ \E p \in Plugins : \/ BeginUninstall(c, p) \/ ReloadPlugin(c, p)
                                 \/ \E k \in {"enable", "disable"} : BeginSetEnabled(c, k, p)
  BY <1>2, BeginOtherStep
<1>3. CASE \E p \in Plugins : BeginUpdate(c, p)
  BY <1>3, BeginUpdateStep
<1>4. CASE \/ ExtractFails(c) \/ SmokeFails(c) \/ RefuseBuiltin(c) \/ Conflict(c) \/ RenameFails(c)
           \/ DeleteFails(c) \/ SaveFails(c) \/ NoUpdate(c) \/ DownloadFails(c)
  BY <1>4, RefusalStep
<1>5. CASE Smoke(c) \/ Proceed(c) \/ (\E v \in Versions : Fetch(c, v))
  BY <1>5, QuietSteps
<1>6. CASE Close(c) \/ Closed(c) \/ SaveState(c) \/ SetDisabled(c) \/ Download(c) \/ Restart(c)
  BY <1>6, OnwardStep
<1>7. CASE Lock(c) \/ CheckZip(c) \/ ReadState(c) \/ Abandon(c)
  BY <1>7, LockStep, CheckZipStep, ReadStateStep, AbandonStep
<1>8. CASE RemoveOld(c) \/ RemoveOldFails(c) \/ Rename(c) \/ Delete(c)
  BY <1>8, RemoveOldStep, RenameStep, DeleteStep
<1>9. CASE ScanAll(c) \/ Store(c) \/ Resolve(c)
  BY <1>9, ScanStep, StoreStep, ResolveStep
<1>10. CASE Restarted(c) \/ Reloaded(c)
  BY <1>10, RestartedStep
<1>11. QED
  BY <1>1, <1>2, <1>3, <1>4, <1>5, <1>6, <1>7, <1>8, <1>9, <1>10 DEF Command

\* What a command does to the processes: it takes the plugin's session to stop
\* or reload it, forgets its call, or does nothing.
LEMMA CommandDirectory ==
  ASSUME MInv, DInv, NEW c \in Clients, Command(c)
  PROVE  DInv'
<1>1. c \in Callers /\ Sound(c)
  BY JobIs
<1>2. CASE UNCHANGED callVars
  <2>1. NoneRises /\ UNCHANGED <<sessions, spawnLock, maps, call>>
    BY <1>2, SameNoneRises DEF callVars, runtimeVars, DInv
  <2>2. QED
    BY <2>1, StillStep
<1>3. CASE \/ Close(c) \/ Restart(c) \/ (\E p \in Plugins : ReloadPlugin(c, p))
  <2>1. job[c].kind \in {"uninstall", "update"} => job[c].id \in Plugins
    BY <1>1 DEF Sound, Locking
  <2>2. \E o \in {"stop", "reload"}, p \in Plugins : TakeHostSession(c, o, p)
    BY <1>3, <2>1 DEF Close, Restart, ReloadPlugin, JobAt
  <2>3. QED
    BY <1>1, <2>2, TakeHostSessionStep
<1>4. CASE Closed(c) \/ Restarted(c) \/ Reloaded(c)
  <2>1. /\ call' = [call EXCEPT ![c] = NoCall] /\ UNCHANGED <<runtimeVars, maps>>
        /\ call[c].at \notin {"locked", "spawning"}
    BY <1>4 DEF Closed, Restarted, Reloaded, Return, AtStep
  <2>2. QED
    BY <1>1, <2>1, ReturnStep
<1>5. QED
  <2>1. CASE \/ (\E z \in Zips : BeginInstall(c, z) \/ Extract(c, z)) \/ Rescan(c)
             \/ (\E p \in Plugins : \/ BeginUninstall(c, p) \/ BeginUpdate(c, p)
                                    \/ \E k \in {"enable", "disable"} : BeginSetEnabled(c, k, p))
             \/ (\E v \in Versions : Fetch(c, v)) \/ Lock(c) \/ Smoke(c) \/ Proceed(c)
    BY <1>2, <2>1 DEF BeginInstall, Extract, Rescan, BeginUninstall, BeginUpdate, BeginSetEnabled,
                      Fetch, Lock, Smoke, Proceed, Quietly
  <2>2. CASE \/ ExtractFails(c) \/ SmokeFails(c) \/ RefuseBuiltin(c) \/ Conflict(c) \/ RenameFails(c)
             \/ DeleteFails(c) \/ SaveFails(c) \/ NoUpdate(c) \/ DownloadFails(c) \/ CheckZip(c)
    BY <1>2, <2>2 DEF ExtractFails, SmokeFails, RefuseBuiltin, Conflict, RenameFails, DeleteFails,
                      SaveFails, NoUpdate, DownloadFails, CheckZip, FailClean, Quietly
  <2>3. CASE \/ RemoveOld(c) \/ RemoveOldFails(c) \/ Rename(c) \/ ScanAll(c) \/ Store(c)
             \/ Resolve(c) \/ Delete(c) \/ ReadState(c) \/ SaveState(c) \/ SetDisabled(c)
             \/ Download(c) \/ Abandon(c)
    BY <1>2, <2>3 DEF RemoveOld, RemoveOldFails, Rename, ScanAll, Store, Resolve, Delete, ReadState,
                      SaveState, SetDisabled, Download, Abandon, FailClean
  <2>4. QED
    BY <1>3, <1>4, <2>1, <2>2, <2>3 DEF Command

-----------------------------------------------------------------------------
(* Theorems *)

IInv == MInv /\ DInv
allVars == <<directoryVars, moduleVars>>

LEMMA InitIInv == ModulesInit => IInv
<1>1. SUFFICES ASSUME ModulesInit PROVE IInv
  OBVIOUS
<1>2. DInv
  <2>1. DirectoryTypeOK
    BY <1>1, NoCallIs DEF ModulesInit, DirectoryInit, DirectoryTypeOK
  <2>2. /\ SpawnInv /\ LivesInv
    BY <1>1, NoCallIs DEF ModulesInit, DirectoryInit, SpawnInv, LivesInv, AtStep
  <2>3. MapsInv
    BY <1>1, NoCallIs DEF ModulesInit, DirectoryInit, MapsInv
  <2>4. QED
    BY <2>1, <2>2, <2>3 DEF DInv, DirectoryInv
<1>3. SharedOK
  <2>1. /\ dest \in [Plugins -> Nat] /\ user \in [Plugins -> Nat] /\ ops = 0
        /\ tmp = [c \in Clients |-> NoDir] /\ left = {} /\ file = {} /\ disabled = {}
        /\ where \in Scans /\ found = Versioned(where)
        /\ modLock = [p \in Plugins |-> NoCaller]
    BY <1>1, InstalledAssumption DEF ModulesInit
  <2>2. tmp \in [Clients -> Dirs] /\ left \subseteq Dirs
    BY <2>1, NoDirIs
  <2>3. where \in [Plugins -> Places] /\ found \in [Plugins -> Nat]
    BY <2>1, <2>2, ScanIs DEF DiskOK
  <2>4. QED
    BY <2>1, <2>2, <2>3 DEF SharedOK
<1>4. job \in [Clients -> Jobs] /\ \A c \in Clients : Sound(c)
  BY <1>1, NoJobIs DEF ModulesInit, Sound, StepsOf, InLock, Locking
<1>5. QED
  BY <1>2, <1>3, <1>4, MInvIs DEF IInv

\* The commands' part of the state does not follow from the processes'.
LEMMA IdleStep == ASSUME MInv, UNCHANGED <<moduleVars, found>> PROVE MInv'
  BY DEF moduleVars, diskVars, stateVars, MInv, ModulesTypeOK, StepsInv, LockInv, TmpInv, KeptInv, Healthy

LEMMA NextIInv == IInv /\ [ModulesNext]_allVars => IInv'
<1>1. SUFFICES ASSUME MInv, DInv, [ModulesNext]_allVars PROVE MInv' /\ DInv'
  BY DEF IInv
<1>2. CASE \E c \in Clients : Command(c)
  BY <1>1, <1>2, CommandStep, CommandDirectory
<1>3. found \in [Plugins -> Nat]
  BY <1>1, MInvIs DEF SharedOK
<1>4. CASE Sessions
  <2>1. UNCHANGED found
    BY <1>4 DEF Sessions, Serve, TakeSpawnLock, Reuse, NotFound, StartProcess, Spawned, SpawnFails,
                Register, List, GiveUp, AskToStop, Stopped, Finish, Die
  <2>2. DInv'
    BY <1>1, <1>3, <1>4, ServeStep, DieStep DEF Sessions
  <2>3. QED
    BY <1>1, <1>4, <2>1, <2>2, IdleStep DEF Sessions
<1>5. CASE \E p \in Plugins : Imports(p)
  <2>1. UNCHANGED <<moduleVars, found>>
    BY <1>5 DEF Imports, Ensure, Probe
  <2>2. DInv'
    BY <1>1, <1>5, EnsureStep, ProbeStep DEF Imports
  <2>3. QED
    BY <1>1, <2>1, <2>2, IdleStep
<1>6. CASE UNCHANGED allVars
  <2>1. UNCHANGED <<moduleVars, found, runtimeVars, maps, call>>
    BY <1>6 DEF allVars, directoryVars
  <2>2. NoneRises /\ UNCHANGED <<sessions, spawnLock, maps, call>>
    BY <1>1, <2>1, SameNoneRises DEF DInv, runtimeVars
  <2>3. QED
    BY <1>1, <2>1, <2>2, IdleStep, StillStep
<1>7. QED
  BY <1>1, <1>2, <1>4, <1>5, <1>6 DEF ModulesNext

\* All that is asked of the state holds in every reachable state, for any
\* plugins, tasks, zips and versions (install_plugin_zip, update_plugin and the
\* other commands of plugin_manager.rs, over get_or_spawn of session.rs).
THEOREM Invariance == ModulesSpec => []IInv
  BY InitIInv, NextIInv, PTL DEF ModulesSpec, allVars

\* Type correctness of the module commands and of the session directory.
THEOREM TypeCorrect == ModulesSpec => [](ModulesTypeOK /\ DirectoryTypeOK)
<1>1. IInv => ModulesTypeOK /\ DirectoryTypeOK
  BY DEF IInv, MInv, DInv
<1>2. QED
  BY <1>1, Invariance, PTL

\* However imports, probes, reloads, updates and uninstalls interleave, and
\* whenever processes die, a plugin has one process, and the registry, adapters
\* and host_sessions name no live one beside the runtime's (get_or_spawn of
\* session.rs; ensure_session and stop_host_session of pipeline_bridge.rs).
THEOREM OneProcessEach == ModulesSpec => []OneProcess
<1>1. IInv => OneProcess
  BY ImpliesOneProcess DEF IInv
<1>2. QED
  BY <1>1, Invariance, PTL

\* On each of its ways out a command has removed or moved the .tmp-* directory
\* it extracted to (install_plugin_zip and update_plugin).
THEOREM TmpOwned == ModulesSpec => []TmpIsOwned
<1>1. IInv => TmpIsOwned
  BY DEF IInv, MInv, TmpInv, TmpIsOwned
<1>2. QED
  BY <1>1, Invariance, PTL

\* No command replaces or removes a builtin module whose manifest is sound,
\* whatever runs beside it: the judgement of install_plugin_zip is made under
\* plugin_lock, and is still true when the directory is removed.
THEOREM BuiltinKept == ModulesSpec => BuiltinIsKept
<1>1. IInv /\ [ModulesNext]_allVars
        => [\A p \in Builtin : Healthy(p) => dest'[p] = dest[p]]_dest
  <2>1. SUFFICES ASSUME MInv, [ModulesNext]_allVars, dest' # dest
                 PROVE  \A p \in Builtin : Healthy(p) => dest'[p] = dest[p]
    BY DEF IInv
  <2>2. PICK c \in Clients : Command(c)
    BY <2>1 DEF ModulesNext, Sessions, Imports, moduleVars, diskVars, allVars
  <2>3. QED
    BY <2>1, <2>2, CommandStep DEF KeepsBuiltin
<1>2. QED
  BY <1>1, Invariance, PTL DEF ModulesSpec, BuiltinIsKept, allVars

-----------------------------------------------------------------------------
(* Ranking: the order in which match_file lists its candidates *)

AllClaims == {Claim(p, c) : p \in Ids, c \in Levels}

LEMMA ClaimIs ==
  ASSUME NEW x \in AllClaims
  PROVE  /\ x.is = "claim" /\ x.plugin \in Nat /\ x.confidence \in Nat
         /\ x = [is |-> "claim", plugin |-> x.plugin, confidence |-> x.confidence]
  BY FanAssumption DEF AllClaims, Claim

LEMMA LeadsOrder ==
  ASSUME NEW x \in AllClaims, NEW y \in AllClaims, NEW z \in AllClaims
  PROVE  /\ x # y => Leads(x, y) \/ Leads(y, x)
         /\ Leads(x, y) /\ Leads(y, z) => Leads(x, z)
         /\ Leads(x, y) => x.confidence >= y.confidence
<1> HIDE DEF AllClaims
<1>1. x # y => x.plugin # y.plugin \/ x.confidence # y.confidence
  BY ClaimIs
<1> QED BY <1>1, ClaimIs DEF Leads

Leader(m, C) == m \in C /\ \A x \in C \ {m} : Leads(m, x)

LEMMA LeaderExists ==
  ASSUME NEW C \in SUBSET AllClaims, IsFiniteSet(C), C # {}
  PROVE  \E m : Leader(m, C)
<1> DEFINE Q == {s \in SUBSET C : s # {} /\ ~ \E m : Leader(m, s)}
<1>1. SUFFICES ASSUME Q # {} PROVE FALSE
  OBVIOUS
<1>2. PICK s \in Q : \A r \in SUBSET s : r \in Q => r = s
  <2> HIDE DEF Q
  <2>1. Q \in SUBSET (SUBSET C)
    BY DEF Q
  <2> QED BY <1>1, <2>1, SmallestSubset
<1>3. PICK x : x \in s
  OBVIOUS
<1>4. s \ {x} \notin Q
  BY <1>2, <1>3
<1>5. s \ {x} # {}
  <2> SUFFICES ASSUME s \ {x} = {} PROVE FALSE
    OBVIOUS
  <2>1. Leader(x, s)
    BY <1>3 DEF Leader
  <2> QED BY <2>1
<1>6. PICK m : Leader(m, s \ {x})
  BY <1>4, <1>5
<1>7. m \in s /\ m # x /\ x \in AllClaims /\ m \in AllClaims /\ s \in SUBSET AllClaims
  BY <1>3, <1>6 DEF Leader
<1> HIDE DEF AllClaims
<1>8. CASE Leads(m, x)
  <2>1. Leader(m, s)
    BY <1>6, <1>7, <1>8 DEF Leader
  <2> QED BY <2>1
<1>9. CASE Leads(x, m)
  <2>1. ASSUME NEW y \in s \ {x} PROVE Leads(x, y)
    <3>1. y = m \/ Leads(m, y)
      BY <1>6 DEF Leader
    <3> QED BY <1>7, <1>9, <3>1, LeadsOrder
  <2>2. Leader(x, s)
    BY <1>3, <2>1 DEF Leader
  <2> QED BY <2>2
<1> QED BY <1>7, <1>8, <1>9, LeadsOrder

Ranks(s, C) == s \in Bijection(1 .. Cardinality(C), C) /\ Sorted(s)

LEMMA RankExists ==
  ASSUME NEW C \in SUBSET AllClaims, IsFiniteSet(C)
  PROVE  \E s : Ranks(s, C)
<1> DEFINE Q == {D \in SUBSET C : ~ \E s : Ranks(s, D)}
<1>1. SUFFICES ASSUME Q # {} PROVE FALSE
  OBVIOUS
<1>2. PICK D \in Q : \A r \in SUBSET D : r \in Q => r = D
  <2> HIDE DEF Q
  <2>1. Q \in SUBSET (SUBSET C)
    BY DEF Q
  <2> QED BY <1>1, <2>1, SmallestSubset
<1>3. IsFiniteSet(D) /\ D \in SUBSET AllClaims /\ Cardinality(D) \in Nat
  BY FS_Subset, FS_CardinalityType
<1>4. D # {}
  <2> SUFFICES ASSUME D = {} PROVE FALSE
    OBVIOUS
  <2> DEFINE e == [i \in 1 .. 0 |-> i]
  <2>1. Cardinality(D) = 0
    BY FS_EmptySet
  <2>2. e \in Bijection(1 .. 0, D) /\ Sorted(e)
    BY DEF Bijection, Injection, Surjection, IsInjective, Sorted
  <2>3. Ranks(e, D)
    BY <2>1, <2>2 DEF Ranks
  <2> QED BY <2>3
<1>5. PICK m : Leader(m, D)
  BY <1>3, <1>4, LeaderExists
<1> DEFINE R == D \ {m}
           n == Cardinality(D)
<1>6. m \in D /\ R \in SUBSET D /\ R # D
  BY <1>5 DEF Leader
<1>7. Cardinality(R) = n - 1 /\ n - 1 \in Nat
  <2>1. Cardinality(R) = n - 1
    BY <1>3, <1>6, FS_RemoveElement
  <2>2. IsFiniteSet(R)
    BY <1>3, <1>6, FS_Subset
  <2>3. Cardinality(R) \in Nat
    BY <2>2, FS_CardinalityType
  <2> QED BY <2>1, <2>3
<1>8. PICK t : Ranks(t, R)
  <2>1. R \notin Q
    BY <1>2, <1>6
  <2> QED BY <1>6, <2>1
<1>9. /\ t \in [1 .. n - 1 -> R] /\ \A i, j \in 1 .. n - 1 : t[i] = t[j] => i = j
      /\ \A x \in R : \E i \in 1 .. n - 1 : t[i] = x
      /\ \A i, j \in 1 .. n - 1 : i < j => Leads(t[i], t[j])
  <2> HIDE DEF R
  <2> QED BY <1>7, <1>8 DEF Ranks, Bijection, Injection, Surjection, IsInjective, Sorted
<1> DEFINE s == [i \in 1 .. n |-> IF i = 1 THEN m ELSE t[i - 1]]
<1>10. \A i \in 1 .. n : i = 1 \/ i - 1 \in 1 .. n - 1
  BY <1>3
<1>11. \A i \in 1 .. n : s[i] \in D /\ (i # 1 => s[i] = t[i - 1] /\ s[i] \in R)
  BY <1>6, <1>9, <1>10
<1>12. s \in [1 .. n -> D]
  BY <1>11
<1>13. \A i, j \in 1 .. n : s[i] = s[j] => i = j
  <2> SUFFICES ASSUME NEW i \in 1 .. n, NEW j \in 1 .. n, s[i] = s[j] PROVE i = j
    OBVIOUS
  <2>1. i = 1 <=> j = 1
    BY <1>11
  <2>2. CASE i # 1
    <3>1. t[i - 1] = t[j - 1]
      BY <1>11, <2>1, <2>2
    <3>2. i - 1 = j - 1
      BY <1>9, <1>10, <2>1, <2>2, <3>1
    <3> QED BY <3>2
  <2> QED BY <2>1, <2>2
<1>14. ASSUME NEW x \in D PROVE \E i \in 1 .. n : s[i] = x
  <2>1. CASE x = m
    <3>1. 1 \in 1 .. n /\ s[1] = m
      BY <1>3, <1>7
    <3> QED BY <2>1, <3>1
  <2>2. CASE x \in R
    <3>1. PICK i \in 1 .. n - 1 : t[i] = x
      BY <1>9, <2>2
    <3>2. i + 1 \in 1 .. n /\ i + 1 # 1 /\ (i + 1) - 1 = i
      BY <1>3
    <3>3. s[i + 1] = x
      BY <3>1, <3>2
    <3> QED BY <3>2, <3>3
  <2> QED BY <2>1, <2>2
<1>15. ASSUME NEW i \in 1 .. n, NEW j \in 1 .. n, i < j PROVE Leads(s[i], s[j])
  <2>1. j # 1 /\ s[j] = t[j - 1] /\ s[j] \in R
    BY <1>11, <1>15
  <2>2. CASE i = 1
    BY <1>5, <2>1, <2>2 DEF Leader
  <2>3. CASE i # 1
    <3>1. s[i] = t[i - 1] /\ i - 1 \in 1 .. n - 1 /\ j - 1 \in 1 .. n - 1 /\ i - 1 < j - 1
      BY <1>10, <1>11, <1>15, <2>1, <2>3
    <3> HIDE DEF s
    <3> QED BY <1>9, <2>1, <3>1
  <2> QED BY <2>2, <2>3
<1>16. Ranks(s, D)
  <2>1. DOMAIN s = 1 .. n
    OBVIOUS
  <2> HIDE DEF s
  <2>2. IsInjective(s) /\ Sorted(s)
    BY <1>13, <1>15, <2>1 DEF IsInjective, Sorted
  <2> QED BY <1>12, <1>14, <2>2 DEF Ranks, Bijection, Injection, Surjection
<1> QED BY <1>16

\* The candidates are the claims, each once, the first ahead of the others.
LEMMA RankedIs ==
  ASSUME NEW C \in SUBSET AllClaims, IsFiniteSet(C)
  PROVE  LET s == Ranked(C) IN
         /\ s \in Seq(C) /\ Len(s) = Cardinality(C) /\ Range(s) = C
         /\ \A i, j \in 1 .. Len(s) : i < j => Leads(s[i], s[j])
<1> DEFINE s == Ranked(C)
<1>1. Ranks(s, C)
  <2>1. PICK t : Ranks(t, C)
    BY RankExists
  <2> QED BY Zenon, <2>1 DEF Ranked, Ranks
<1> HIDE DEF s
<1>2. Cardinality(C) \in Nat
  BY FS_CardinalityType
<1>3. s \in [1 .. Cardinality(C) -> C] /\ \A x \in C : \E i \in 1 .. Cardinality(C) : s[i] = x
  BY <1>1 DEF Ranks, Bijection, Injection, Surjection
<1>4. s \in Seq(C) /\ Len(s) = Cardinality(C) /\ DOMAIN s = 1 .. Len(s)
  BY <1>2, <1>3
<1>5. Range(s) = C
  BY <1>3, <1>4 DEF Range
<1> QED BY <1>1, <1>4, <1>5 DEF s, Ranks, Sorted

-----------------------------------------------------------------------------
(* A question to several plugins *)

LEMMA OutcomeIs ==
  /\ {Running, Asking, Entries, Abstains} \subseteq Outcomes
  /\ \A e \in Errors : Fault(e) \in Outcomes
  /\ \A p \in Ids, c \in Levels : Claim(p, c) \in Outcomes
  /\ \A r \in Outcomes : r.is = "claim" => r \in AllClaims
<1>1. ASSUME NEW r \in Outcomes, r.is = "claim" PROVE r \in AllClaims
  <2>1. r \notin {Running, Asking, Entries, Abstains}
    BY <1>1 DEF Running, Asking, Entries, Abstains
  <2>2. r \notin {Fault(e) : e \in Errors}
    BY <1>1 DEF Fault
  <2>3. r \in AllClaims
    BY <2>1, <2>2 DEF Outcomes, AllClaims
  <2> QED BY <2>3
<1>2. \A p \in Ids, c \in Levels : Claim(p, c) \in Outcomes
  BY DEF Outcomes
<1>3. {Running, Asking, Entries, Abstains} \subseteq Outcomes
  BY DEF Outcomes
<1>4. \A e \in Errors : Fault(e) \in Outcomes
  BY DEF Outcomes
<1> QED BY <1>1, <1>2, <1>3, <1>4

Claims(s) == {r \in Range(s) : r.is = "claim"}

LEMMA ClaimsIs ==
  ASSUME NEW s \in Seq(Outcomes)
  PROVE  Claims(s) \in SUBSET AllClaims /\ IsFiniteSet(Claims(s))
<1>1. Range(s) \subseteq Outcomes
  BY DEF Range
<1>2. Claims(s) \in SUBSET AllClaims
  BY <1>1, OutcomeIs, Zenon DEF Claims
<1>3. s \in Surjection(1 .. Len(s), Range(s))
  BY DEF Surjection, Range
<1>4. IsFiniteSet(1 .. Len(s))
  BY FS_Interval
<1>5. IsFiniteSet(Range(s))
  BY <1>3, <1>4, FS_Surjection
<1> QED BY <1>2, <1>5, FS_Subset DEF Claims

\* What a question may name.
Askable(k, s) ==
  /\ k \in {"match", "values", "vendor"}
  /\ s \in IF k = "match" THEN Seq(Ids) ELSE Seq(Files)

LEMMA AskStep ==
  ASSUME FanInv, NEW k, NEW s, Askable(k, s), Ask(k, s)
  PROVE  FanInv'
<1> USE DEF FanInv, FanTypeOK, TasksInv, Ask, Askable, world
<1>1. items = <<>> /\ answer = <<>> /\ owner = <<>> /\ findings = <<>> /\ got = <<>>
  OBVIOUS
<1>2. FanTypeOK'
  OBVIOUS
<1>3. TasksInv'
  BY <1>1
<1>4. AnswersAreTheirOwn'
  BY <1>1 DEF AnswersAreTheirOwn
<1> QED BY <1>2, <1>3, <1>4

LEMMA MatchStep ==
  ASSUME FanInv, NEW s \in SetToAllKPermutations(Ids), AskWhoCan(s)
  PROVE  FanInv'
<1>1. PICK S \in SUBSET Ids : s \in SetToSeqs(S)
  BY DEF SetToAllKPermutations
<1>2. s \in [1 .. Cardinality(S) -> S] /\ Cardinality(S) \in Nat
  BY <1>1, FanAssumption, FS_Subset, FS_CardinalityType DEF SetToSeqs
<1>3. s \in Seq(Ids)
  BY <1>2
<1> QED BY <1>3, AskStep DEF AskWhoCan, Askable

LEMMA NamedIs ==
  ASSUME NEW fs \in Seq(Files), NEW S \in SUBSET Files
  PROVE  Named(fs, S) \in Seq(Files)
<1>1. Cardinality(S) \in Nat /\ ExistsBijection(1 .. Cardinality(S), S)
  BY FanAssumption, FS_Subset, FS_CardinalityType
<1>2. PICK b : b \in [1 .. Cardinality(S) -> S] /\ IsInjective(b)
  BY <1>1 DEF ExistsBijection, Bijection, Injection
<1>3. SetToSeq(S) \in [1 .. Cardinality(S) -> S]
  BY Zenon, <1>2 DEF SetToSeq
<1>4. SetToSeq(S) \in Seq(Files)
  BY <1>1, <1>3
<1> QED BY <1>4 DEF Named

LEMMA ValuesStep ==
  ASSUME FanInv, NEW fs \in {<<>>} \cup SeqOf(Files, MaxNamed), AskValues(fs)
  PROVE  FanInv'
<1>1. fs \in Seq(Files)
  <2>1. CASE fs \in SeqOf(Files, MaxNamed)
    <3>1. PICK m \in 0 .. MaxNamed : fs \in [1 .. m -> Files]
      BY <2>1 DEF SeqOf
    <3>2. m \in Nat
      BY FanAssumption
    <3> QED BY <3>1, <3>2
  <2>2. <<>> \in Seq(Files)
    OBVIOUS
  <2> QED BY <2>1, <2>2
<1>2. PICK S \in SUBSET {f \in Files : index[f] # 0} : Ask("values", Named(fs, S))
  BY DEF AskValues
<1>3. Askable("values", Named(fs, S))
  BY <1>1, NamedIs DEF Askable
<1> QED BY <1>2, <1>3, AskStep

LEMMA VendorStep == ASSUME FanInv, NEW f \in Files, AskVendor(f) PROVE FanInv'
<1>1. Askable("vendor", <<f>>)
  BY DEF Askable
<1> QED BY <1>1, AskStep DEF AskVendor

LEMMA SpawnStep == ASSUME FanInv, Spawn PROVE FanInv'
<1> DEFINE x == items[Len(findings) + 1]
           p == IF kind = "match" THEN x ELSE index[x]
           r == IF p = 0 THEN Fault("not ready") ELSE Running
<1>0. FanTypeOK /\ TasksInv
  BY DEF FanInv
<1>a. /\ items \in Seq(Ids \cup Files) /\ findings \in Seq(Outcomes)
      /\ IF kind = "match" THEN items \in Seq(Ids) ELSE items \in Seq(Files)
  BY <1>0 DEF FanTypeOK
<1>1. /\ Len(findings) + 1 \in 1 .. Len(items) /\ kind # "none"
      /\ owner' = Append(owner, p) /\ findings' = Append(findings, r)
      /\ UNCHANGED <<kind, items, got, answer, index, gone>>
  <2>1. Len(findings) < Len(items)
    BY DEF Spawn
  <2>2. Len(findings) \in Nat /\ Len(items) \in Nat
    BY <1>a
  <2>3. Len(findings) + 1 \in 1 .. Len(items)
    BY <2>1, <2>2
  <2>4. owner' = Append(owner, p) /\ findings' = Append(findings, r)
    BY Zenon DEF Spawn
  <2> HIDE DEF p, r
  <2> QED BY <2>3, <2>4 DEF Spawn, question, world
<1>2. p \in Ids \cup {0} /\ (kind = "match" => p \in Ids)
  <2>1. CASE kind = "match"
    <3>1. items \in Seq(Ids) /\ Len(findings) + 1 \in 1 .. Len(items)
      BY <1>a, <1>1, <2>1
    <3>2. x \in Ids
      BY <3>1, ElementOfSeq
    <3> QED BY <2>1, <3>2
  <2>2. CASE kind # "match"
    <3>0. items \in Seq(Files) /\ Len(findings) + 1 \in 1 .. Len(items)
      BY <1>a, <1>1, <2>2
    <3>1. x \in Files
      BY <3>0, ElementOfSeq
    <3> QED BY <1>0, <2>2, <3>1 DEF FanTypeOK
  <2> QED BY <2>1, <2>2
<1>3. r \in Outcomes
  BY OutcomeIs, Zenon DEF Errors
<1> HIDE DEF x, p, r
<1>4. answer = <<>> /\ got = <<>>
  BY <1>0, <1>1 DEF TasksInv, FanTypeOK
<1>5. FanTypeOK'
  BY <1>0, <1>1, <1>2, <1>3 DEF FanTypeOK
<1>6. TasksInv'
  BY <1>0, <1>1, <1>2, <1>3, <1>4 DEF FanTypeOK, TasksInv
<1>7. AnswersAreTheirOwn'
  BY <1>1, <1>4 DEF AnswersAreTheirOwn
<1> QED BY <1>5, <1>6, <1>7 DEF FanInv

\* A task moves only while it is not over, and then nothing has been answered.
LEMMA BecomesStep ==
  ASSUME FanInv, NEW i \in DOMAIN findings, findings[i] \in {Running, Asking},
         NEW r \in Outcomes, Becomes(i, r)
  PROVE  FanInv'
<1>0. FanTypeOK /\ TasksInv
  BY DEF FanInv
<1>1. /\ findings' = [findings EXCEPT ![i] = r]
      /\ UNCHANGED <<kind, items, owner, got, answer, index, gone>>
  BY DEF Becomes, question, world
<1>2. findings' \in Seq(Outcomes) /\ Len(findings') = Len(findings)
  BY <1>0, <1>1 DEF FanTypeOK
<1>3. i \notin DOMAIN got /\ \A j \in DOMAIN got : j \in DOMAIN findings
  BY <1>0 DEF TasksInv, FanTypeOK
<1>4. answer = <<>>
  BY <1>0, <1>3 DEF TasksInv, FanTypeOK
<1>5. \A j \in DOMAIN got : findings'[j] = findings[j]
  BY <1>0, <1>1, <1>3 DEF FanTypeOK
<1>6. FanTypeOK'
  BY <1>0, <1>1, <1>2 DEF FanTypeOK
<1>7. TasksInv'
  BY <1>0, <1>1, <1>2, <1>5 DEF TasksInv
<1>8. AnswersAreTheirOwn'
  BY <1>1, <1>4 DEF AnswersAreTheirOwn
<1> QED BY <1>6, <1>7, <1>8 DEF FanInv

LEMMA TaskStep == ASSUME FanInv, NEW i \in DOMAIN findings, Task(i) PROVE FanInv'
<1>1. CASE CanHandle(i)
  <2>1. findings[i] \in {Running, Asking}
    BY <1>1 DEF CanHandle
  <2>2. CASE Becomes(i, Abstains)
    BY <2>1, <2>2, OutcomeIs, BecomesStep
  <2>3. CASE \E c \in Levels : Becomes(i, Claim(owner[i], c))
    <3>1. owner[i] \in Ids
      BY <1>1 DEF CanHandle, FanInv, FanTypeOK, TasksInv
    <3>2. PICK c \in Levels : Becomes(i, Claim(owner[i], c))
      BY <2>3
    <3>3. Claim(owner[i], c) \in Outcomes
      BY <3>1, OutcomeIs
    <3> QED BY <2>1, <3>2, <3>3, BecomesStep
  <2> QED BY <1>1, <2>2, <2>3 DEF CanHandle
<1>2. CASE FindSession(i)
  <2> DEFINE r == IF owner[i] \in gone THEN Fault("gone") ELSE Asking
  <2>1. r \in Outcomes
    BY OutcomeIs, Zenon DEF Errors
  <2>2. findings[i] \in {Running, Asking} /\ Becomes(i, r)
    BY <1>2 DEF FindSession
  <2> HIDE DEF r
  <2> QED BY <2>1, <2>2, BecomesStep
<1>3. CASE Replies(i) \/ TimesOut(i) \/ SessionEnds(i)
  <2>1. findings[i] \in {Running, Asking}
    BY <1>3 DEF Replies, TimesOut, SessionEnds
  <2>2. \E r \in Outcomes : Becomes(i, r)
    <3>1. CASE Becomes(i, Entries)
      BY <3>1, OutcomeIs
    <3>2. CASE \E e \in Errors : Becomes(i, Fault(e))
      BY <3>2, OutcomeIs
    <3> QED BY <1>3, <3>1, <3>2 DEF Replies, TimesOut, SessionEnds, Errors
  <2> QED BY <2>1, <2>2, BecomesStep
<1> QED BY <1>1, <1>2, <1>3 DEF Task

LEMMA GatherStep == ASSUME FanInv, Gather PROVE FanInv'
<1> DEFINE x == findings[Len(got) + 1]
<1>0. FanTypeOK /\ TasksInv
  BY DEF FanInv
<1>1. /\ Len(findings) = Len(items) /\ Len(got) < Len(items)
      /\ x \notin {Running, Asking} /\ got' = Append(got, x)
      /\ UNCHANGED <<kind, items, owner, findings, answer, index, gone>>
  BY DEF Gather, question, world
<1>2. x \in Outcomes
  BY <1>0, <1>1 DEF FanTypeOK
<1>3. answer = <<>>
  BY <1>0, <1>1 DEF TasksInv
<1>4. \A i \in DOMAIN got' : got'[i] = findings[i] /\ findings[i] \notin {Running, Asking}
  <2> SUFFICES ASSUME NEW i \in DOMAIN got'
               PROVE  got'[i] = findings[i] /\ findings[i] \notin {Running, Asking}
    OBVIOUS
  <2> HIDE DEF x
  <2>1. CASE i \in DOMAIN got
    <3>1. got'[i] = got[i]
      BY <1>0, <1>1, <1>2, <2>1 DEF FanTypeOK
    <3> QED BY <1>0, <2>1, <3>1 DEF TasksInv
  <2>2. CASE i = Len(got) + 1
    <3>1. got'[i] = x
      BY <1>0, <1>1, <1>2, <2>2 DEF FanTypeOK
    <3> QED BY <1>1, <2>2, <3>1 DEF x
  <2> QED BY <1>0, <1>1, <1>2, <2>1, <2>2 DEF FanTypeOK
<1>5. got' \in Seq(Outcomes) /\ Len(got') <= Len(items)
  <2> HIDE DEF x
  <2> QED BY <1>0, <1>1, <1>2 DEF FanTypeOK
<1> HIDE DEF x
<1>6. FanTypeOK'
  BY <1>0, <1>1, <1>5 DEF FanTypeOK
<1>7. TasksInv'
  BY <1>0, <1>1, <1>3, <1>4, <1>5 DEF TasksInv
<1>8. AnswersAreTheirOwn'
  BY <1>1, <1>3 DEF AnswersAreTheirOwn
<1> QED BY <1>6, <1>7, <1>8 DEF FanInv

LEMMA AllGathered ==
  ASSUME FanInv, Len(got) = Len(items), Len(findings) = Len(items)
  PROVE  got = findings
<1>1. got \in Seq(Outcomes) /\ findings \in Seq(Outcomes) /\ Len(got) = Len(findings)
  BY DEF FanInv, FanTypeOK
<1>2. \A i \in 1 .. Len(got) : got[i] = findings[i]
  BY <1>1 DEF FanInv, TasksInv
<1> QED BY <1>1, <1>2, SeqEqual

\* Whoever is chosen leads, and the second is a tenth behind, so all are.
LEMMA ChoiceIsClear ==
  ASSUME NEW C \in SUBSET AllClaims, IsFiniteSet(C), ~ NeedsUserChoice(Ranked(C))
  PROVE  /\ Ranked(C)[1] \in C
         /\ \A d \in C \ {Ranked(C)[1]} : Ranked(C)[1].confidence >= d.confidence + 10
<1> DEFINE s == Ranked(C)
<1>1. /\ s \in Seq(C) /\ Range(s) = C
      /\ \A i, j \in 1 .. Len(s) : i < j => Leads(s[i], s[j])
  BY RankedIs
<1>2. s # <<>> /\ (Len(s) > 1 => ~ (s[1].confidence - s[2].confidence < 10))
  BY DEF NeedsUserChoice
<1> HIDE DEF s
<1>3. s[1] \in C
  BY <1>1, <1>2
<1>4. ASSUME NEW d \in C \ {s[1]} PROVE s[1].confidence >= d.confidence + 10
  <2>1. PICK j \in 1 .. Len(s) : d = s[j]
    BY <1>1 DEF Range
  <2>2. j # 1 /\ Len(s) > 1 /\ 2 \in 1 .. Len(s) /\ (j = 2 \/ 2 < j)
    BY <1>1, <1>4, <2>1
  <2>3. s[1] \in AllClaims /\ s[2] \in AllClaims /\ d \in AllClaims
    BY <1>1, <1>3, <2>1, <2>2
  <2>4. s[2].confidence >= d.confidence
    <3>1. CASE j = 2
      BY <2>1, <2>3, <3>1, ClaimIs
    <3>2. CASE 2 < j
      BY <1>1, <2>1, <2>2, <2>3, <3>2, LeadsOrder
    <3> QED BY <2>2, <3>1, <3>2
  <2> QED BY <1>2, <2>2, <2>3, <2>4, ClaimIs
<1> QED BY <1>3, <1>4 DEF s

LEMMA MatchDoneStep == ASSUME FanInv, MatchDone PROVE FanInv'
<1> DEFINE C == Claims(got)
           s == Ranked(C)
           a == [candidates |-> s, chosen |-> IF NeedsUserChoice(s) THEN 0 ELSE s[1].plugin]
<1>0. FanTypeOK /\ TasksInv
  BY DEF FanInv
<1>1. /\ kind = "match" /\ answer = <<>> /\ Len(got) = Len(items) /\ Len(findings) = Len(items)
      /\ answer' = <<a>>
      /\ UNCHANGED <<kind, items, owner, findings, got, index, gone>>
  BY DEF MatchDone, Claims, question, world
<1>2. got = findings
  BY <1>1, AllGathered
<1>3. C \in SUBSET AllClaims /\ IsFiniteSet(C)
  BY <1>0, ClaimsIs DEF FanTypeOK
<1> HIDE DEF C
<1>4. Range(s) = C
  BY <1>3, RankedIs
<1>5. a.chosen # 0 => \E c \in C : /\ c.plugin = a.chosen
                                   /\ \A d \in C \ {c} : c.confidence >= d.confidence + 10
  <2> SUFFICES ASSUME a.chosen # 0
               PROVE  \E c \in C : /\ c.plugin = a.chosen
                                   /\ \A d \in C \ {c} : c.confidence >= d.confidence + 10
    OBVIOUS
  <2>1. ~ NeedsUserChoice(s) /\ a.chosen = s[1].plugin
    OBVIOUS
  <2> QED BY <1>3, <2>1, ChoiceIsClear
<1>6. a.candidates = s
  OBVIOUS
<1>7. FanTypeOK'
  BY <1>0, <1>1 DEF FanTypeOK
<1>8. TasksInv'
  BY <1>0, <1>1 DEF TasksInv
<1> HIDE DEF a, s
<1>9. AnswersAreTheirOwn'
  <2>1. answer'[1] = a /\ kind' = "match" /\ C = {r \in Range(findings') : r.is = "claim"}
    BY <1>1, <1>2 DEF C, Claims
  <2> QED BY <1>4, <1>5, <1>6, <2>1 DEF AnswersAreTheirOwn
<1> QED BY <1>7, <1>8, <1>9 DEF FanInv

LEMMA ValuesDoneStep == ASSUME FanInv, ValuesDone PROVE FanInv'
<1> DEFINE a == [i \in DOMAIN items |-> [file |-> items[i], shows |-> Shown(got[i])]]
<1>0. FanTypeOK /\ TasksInv
  BY DEF FanInv
<1>1. /\ kind \in {"values", "vendor"} /\ answer = <<>>
      /\ Len(got) = Len(items) /\ Len(findings) = Len(items) /\ answer' = a
      /\ UNCHANGED <<kind, items, owner, findings, got, index, gone>>
  BY DEF ValuesDone, question, world
<1>2. got = findings
  BY <1>1, AllGathered
<1>3. items \in Seq(Files)
  BY <1>0, <1>1 DEF FanTypeOK
<1>4. Len(a) = Len(items)
  <2> DEFINE show(i) == [file |-> items[i], shows |-> Shown(got[i])]
  <2>1. a = [i \in 1 .. Len(items) |-> show(i)]
    BY <1>3
  <2> HIDE DEF show
  <2> QED BY <1>3, <2>1
<1>5. \A i \in DOMAIN items : a[i].file = items[i] /\ a[i].shows = Shown(got[i])
  OBVIOUS
<1>6. \A i : Shown(got[i])' = Shown(got[i])
  BY <1>1 DEF Shown
<1>7. FanTypeOK'
  BY <1>0, <1>1 DEF FanTypeOK
<1>8. TasksInv'
  BY <1>0, <1>1 DEF TasksInv
<1> HIDE DEF a
<1>9. AnswersAreTheirOwn'
  BY <1>1, <1>2, <1>4, <1>5, <1>6 DEF AnswersAreTheirOwn
<1> QED BY <1>7, <1>8, <1>9 DEF FanInv

\* An answer speaks of its own moment: it stays what it is as the world moves.
LEMMA WorldStep ==
  ASSUME FanInv, UNCHANGED <<question, owner, findings, got, answer>>,
         index' \in [Files -> Ids \cup {0}], gone' \subseteq Ids
  PROVE  FanInv'
<1>1. FanTypeOK' /\ TasksInv'
  BY DEF FanInv, FanTypeOK, TasksInv, question
<1>2. \A i : Shown(findings[i])' = Shown(findings[i])
  BY DEF Shown, question
<1>3. AnswersAreTheirOwn'
  BY <1>2 DEF FanInv, AnswersAreTheirOwn, question
<1> QED BY <1>1, <1>3 DEF FanInv

LEMMA InitFanInv == FanInit => FanInv
  BY DEF FanInit, FanInv, FanTypeOK, TasksInv, AnswersAreTheirOwn

LEMMA NextFanInv == FanInv /\ [FanNext]_fanVars => FanInv'
<1> SUFFICES ASSUME FanInv, [FanNext]_fanVars PROVE FanInv'
  OBVIOUS
<1>1. CASE \E s \in SetToAllKPermutations(Ids) : AskWhoCan(s)
  BY <1>1, MatchStep
<1>2. CASE \E fs \in {<<>>} \cup SeqOf(Files, MaxNamed) : AskValues(fs)
  BY <1>2, ValuesStep
<1>3. CASE \E f \in Files : AskVendor(f)
  BY <1>3, VendorStep
<1>4. CASE Spawn \/ Gather \/ MatchDone \/ ValuesDone
  BY <1>4, SpawnStep, GatherStep, MatchDoneStep, ValuesDoneStep
<1>5. CASE \E i \in DOMAIN findings : Task(i)
  BY <1>5, TaskStep
<1>6. CASE WorldMoves
  <2>1. index' \in [Files -> Ids \cup {0}] /\ gone' \subseteq Ids
    BY <1>6 DEF WorldMoves, FanInv, FanTypeOK
  <2> QED BY <1>6, <2>1, WorldStep DEF WorldMoves
<1>7. CASE UNCHANGED fanVars
  <2>1. index' \in [Files -> Ids \cup {0}] /\ gone' \subseteq Ids
    BY <1>7 DEF fanVars, FanInv, FanTypeOK
  <2> QED BY <1>7, <2>1, WorldStep DEF fanVars, question
<1> QED BY <1>1, <1>2, <1>3, <1>4, <1>5, <1>6, <1>7 DEF FanNext

\* Every question is answered with what each plugin or file's task came to, in
\* the order asked; one that fails or is slow takes nothing from the others;
\* a plugin is chosen unasked only well ahead of all others (match_file,
\* query_key_values, query_custom_query).
THEOREM AnswersOwn == FanSpec => []AnswersAreTheirOwn
<1>1. FanSpec => []FanInv
  BY InitFanInv, NextFanInv, PTL DEF FanSpec
<1> QED BY <1>1, PTL DEF FanInv
================================================================================
