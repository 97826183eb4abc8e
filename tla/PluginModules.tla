------------------------------ MODULE PluginModules ------------------------------
(***************************************************************************)
(* The module commands of ab-engine (commands/plugin_manager.rs): install, *)
(* uninstall, enable and disable, update; with the discovery they reload   *)
(* (ab-host's discovery.rs), the rescan route, which takes no lock, and    *)
(* the plugin processes they stop and restart (SessionDirectory).          *)
(*                                                                         *)
(* A directory under the plugin sources is the zip it was extracted from:  *)
(* the id and version of its manifest, and whether it holds a plugin       *)
(* directory of its own (nested); good says that its plugins start.        *)
(***************************************************************************)
EXTENDS SessionDirectory

CONSTANTS
  Clients,   \* the callers that manage modules; the others import
  Builtin,   \* BUILTIN_PLUGIN_IDS
  Zips,      \* zips that can be installed
  Versions,  \* versions a release may have
  Installed, \* what may be installed at the start: values of dest and user
  MaxOps     \* bound on commands

ASSUME ModuleAssumption == Clients \subseteq Callers /\ Builtin \subseteq Plugins
ASSUME ZipAssumption ==
  Zips \subseteq [id : Plugins, version : Nat, nested : BOOLEAN, good : BOOLEAN]
ASSUME InstalledAssumption == Installed \subseteq [Plugins -> Nat] \X [Plugins -> Nat]

VARIABLES
  dest,      \* <portable>/<id>: 0 if there is none, Broken if no manifest is read
  user,      \* the same plugin in the user-data source
  tmp,       \* the .tmp-* directory of a client's command
  left,      \* .tmp-* directories nobody will remove
  file,      \* the ids .ab-modules.json disables
  disabled,  \* PluginRegistry::disabled
  where,     \* the directory behind each id of the cached discovery (found)
  modLock,   \* PLUGIN_LOCKS
  job,       \* the command of each client: kind, step, and its locals
  ops

Broken == 99
NoDir == [id |-> "none", version |-> 0, nested |-> FALSE, good |-> FALSE]
Partial == [NoDir EXCEPT !.version = Broken]
Nowhere == <<"none">>
NoJob == [kind |-> "none", at |-> "idle", id |-> "none", zip |-> NoDir, overwrite |-> FALSE,
          current |-> 0, ids |-> {}, target |-> Nowhere, scan |-> <<>>]

diskVars == <<dest, user, tmp, left>>
stateVars == <<file, disabled>>
cacheVars == <<found, where>>
moduleVars == <<diskVars, stateVars, where, modLock, job, ops>>
callVars == <<runtimeVars, maps, call>>

Whole(v) == v \notin {0, Broken}

-----------------------------------------------------------------------------
(* discovery.rs *)

TmpDirs(p) == {<<"tmp", c>> : c \in {c \in Clients : tmp[c].id = p}}
                \cup {<<"left", z>> : z \in {z \in left : z.id = p}}

VersionAt(p, d) == CASE d = <<"dest">> -> dest[p]
                     [] d = <<"user">> -> user[p]
                     [] d[1] = "tmp"   -> tmp[d[2]].version
                     [] d[1] = "left"  -> d[2].version
                     [] OTHER          -> 0

\* scan_source, scan_all: the first directory by name with a valid manifest of
\* that id.  `.tmp-` sorts before every id, and the portable source before the
\* user's; a disabled id is filtered out afterwards.
Winners(p) == IF p \in disabled THEN {Nowhere}
              ELSE IF TmpDirs(p) # {} THEN TmpDirs(p)
              ELSE IF Whole(dest[p]) THEN {<<"dest">>}
              ELSE IF Whole(user[p]) THEN {<<"user">>}
              ELSE {Nowhere}

Scans == {s \in [Plugins -> UNION {Winners(p) : p \in Plugins}] :
            \A p \in Plugins : s[p] \in Winners(p)}
Versioned(s) == [p \in Plugins |-> VersionAt(p, s[p])]

ModulesInit ==
  /\ DirectoryInit
  /\ \E i \in Installed : dest = i[1] /\ user = i[2]
  /\ tmp = [c \in Clients |-> NoDir] /\ left = {}
  /\ file = {} /\ disabled = {}
  /\ where \in Scans /\ found = Versioned(where)
  /\ modLock = [p \in Plugins |-> NoCaller] /\ job = [c \in Clients |-> NoJob]
  /\ ops = 0

-----------------------------------------------------------------------------
JobAt(c, k, l) == job[c].kind \in k /\ job[c].at = l
Step(c, l) == job' = [job EXCEPT ![c].at = l]
StartJob(c, k, id, l) ==
  /\ job[c].at = "idle" /\ call[c].at = "idle" /\ ops < MaxOps /\ ops' = ops + 1
  /\ job' = [job EXCEPT ![c] = [NoJob EXCEPT !.kind = k, !.id = id, !.at = l]]
EndJob(c) == job' = [job EXCEPT ![c] = NoJob]

ReleaseLock(c) == modLock' = [p \in Plugins |-> IF modLock[p] = c THEN NoCaller ELSE modLock[p]]
RemoveTmp(c) == tmp' = [tmp EXCEPT ![c] = NoDir]

\* Mutant: a command that fails leaves its directory.
FailDirty(c, r) ==
  /\ EndJob(c) /\ ReleaseLock(c)
  /\ UNCHANGED <<diskVars, stateVars, where, ops, found, callVars>>

\* A command that fails before it has touched the module removes its directory.
FailClean(c, r) ==
  /\ EndJob(c) /\ RemoveTmp(c) /\ ReleaseLock(c)
  /\ UNCHANGED <<dest, user, left, stateVars, where, ops, found, callVars>>

Quietly(c, l) ==
  Step(c, l) /\ UNCHANGED <<diskVars, stateVars, where, modLock, ops, found, callVars>>

\* Mutant: nobody waits.
LockNobody(c) ==
  /\ JobAt(c, {"install", "uninstall", "enable", "disable", "update"}, "wait")
  /\ modLock' = [modLock EXCEPT ![job[c].id] = c]
  /\ Step(c, CASE job[c].kind = "install" -> "judge"
               [] job[c].kind = "uninstall" -> "resolve"
               [] job[c].kind = "update" -> "fetch"
               [] OTHER -> "read")
  /\ UNCHANGED <<diskVars, stateVars, where, ops, found, callVars>>

\* plugin_lock: the commands for one id come one after another.
Lock(c) ==
  /\ JobAt(c, {"install", "uninstall", "enable", "disable", "update"}, "wait")
  /\ modLock[job[c].id] = NoCaller /\ modLock' = [modLock EXCEPT ![job[c].id] = c]
  /\ Step(c, CASE job[c].kind = "install" -> "judge"
               [] job[c].kind = "uninstall" -> "resolve"
               [] job[c].kind = "update" -> "fetch"
               [] OTHER -> "read")
  /\ UNCHANGED <<diskVars, stateVars, where, ops, found, callVars>>

-----------------------------------------------------------------------------
(* install_plugin_zip *)

BeginInstall(c, z) ==
  /\ StartJob(c, "install", z.id, "extract")
  /\ tmp' = [tmp EXCEPT ![c] = Partial]
  /\ UNCHANGED <<dest, user, left, stateVars, where, modLock, found, callVars>>

\* extract_plugin_zip: limits, entries that leave the directory, I/O and the
\* manifest's validation may refuse the zip.
Extract(c, z) ==
  /\ job[c].at = "extract" /\ (job[c].kind = "install" => z.id = job[c].id)
  /\ tmp' = [tmp EXCEPT ![c] = z]
  /\ \E o \in BOOLEAN :
       job' = [job EXCEPT ![c].zip = z, ![c].overwrite = o,
                          ![c].at = IF job[c].kind = "install" THEN "smoke" ELSE "check"]
  /\ UNCHANGED <<dest, user, left, stateVars, where, modLock, ops, found, callVars>>

ExtractFails(c) == job[c].at = "extract" /\ FailClean(c, "rejected")

\* smoke_install looks for plugin directories inside the extracted one, takes
\* the first and runs it up to its handshake: without a nested plugin there is
\* none.
Smoke(c) ==
  /\ JobAt(c, {"install"}, "smoke") /\ tmp[c].nested /\ tmp[c].good /\ Quietly(c, "wait")

SmokeFails(c) ==
  JobAt(c, {"install"}, "smoke") /\ ~(tmp[c].nested /\ tmp[c].good) /\ FailClean(c, "smoke")

Healthy(p) == Whole(dest[p])

\* A builtin module is replaced only when it is missing or broken.
RefuseBuiltin(c) ==
  /\ JobAt(c, {"install"}, "judge") /\ job[c].id \in Builtin /\ Healthy(job[c].id)
  /\ FailClean(c, "module_protected")

Conflict(c) ==
  /\ JobAt(c, {"install"}, "judge") /\ ~(job[c].id \in Builtin /\ Healthy(job[c].id))
  /\ dest[job[c].id] # 0
  /\ dest[job[c].id] = job[c].zip.version \/ ~job[c].overwrite
  /\ FailClean(c, "module_conflict")

Proceed(c) ==
  /\ JobAt(c, {"install"}, "judge") /\ ~(job[c].id \in Builtin /\ Healthy(job[c].id))
  /\ dest[job[c].id] = 0 \/ (dest[job[c].id] # job[c].zip.version /\ job[c].overwrite)
  /\ Quietly(c, "remove")

\* The old directory goes first; when it cannot all be removed it stays
\* without a manifest or as it was.
RemoveOld(c) ==
  /\ JobAt(c, {"install", "update"}, "remove") /\ Step(c, "rename")
  /\ dest' = [dest EXCEPT ![job[c].id] = 0]
  /\ UNCHANGED <<user, tmp, left, stateVars, where, modLock, ops, found, callVars>>

RemoveOldFails(c) ==
  /\ JobAt(c, {"install", "update"}, "remove") /\ dest[job[c].id] # 0
  /\ dest' \in {dest, [dest EXCEPT ![job[c].id] = Broken]}
  /\ EndJob(c) /\ RemoveTmp(c) /\ ReleaseLock(c)
  /\ UNCHANGED <<user, left, stateVars, where, ops, found, callVars>>

\* Then the extracted one takes its place, if it is still there.
Rename(c) ==
  /\ JobAt(c, {"install", "update"}, "rename") /\ tmp[c] # NoDir /\ Step(c, "scan")
  /\ dest' = [dest EXCEPT ![job[c].id] = tmp[c].version] /\ RemoveTmp(c)
  /\ UNCHANGED <<user, left, stateVars, where, modLock, ops, found, callVars>>

RenameFails(c) == JobAt(c, {"install", "update"}, "rename") /\ FailClean(c, "module_install")

-----------------------------------------------------------------------------
(* PluginRegistry::reload: the scan and the store of the cache *)

ScanAll(c) ==
  /\ job[c].at = "scan"
  /\ \E s \in Scans : job' = [job EXCEPT ![c].scan = <<s, Versioned(s)>>, ![c].at = "store"]
  /\ UNCHANGED <<diskVars, stateVars, where, modLock, ops, found, callVars>>

Store(c) ==
  /\ job[c].at = "store"
  /\ where' = job[c].scan[1] /\ found' = job[c].scan[2]
  /\ IF job[c].kind = "update" THEN Step(c, "restart") /\ UNCHANGED modLock
     ELSE EndJob(c) /\ ReleaseLock(c)
  /\ UNCHANGED <<diskVars, stateVars, ops, callVars>>

\* POST /plugins/rescan
Rescan(c) ==
  /\ StartJob(c, "rescan", "none", "scan")
  /\ UNCHANGED <<diskVars, stateVars, where, modLock, found, callVars>>

-----------------------------------------------------------------------------
(* uninstall_plugin *)

BeginUninstall(c, p) ==
  /\ p \notin Builtin /\ StartJob(c, "uninstall", p, "wait")
  /\ UNCHANGED <<diskVars, stateVars, where, modLock, found, callVars>>

\* The directory the discovery tells of, or the portable one.
TargetDir(p) == IF where[p] = Nowhere THEN <<"dest">> ELSE where[p]
Exists(p, d) == VersionAt(p, d) # 0 /\ (d[1] = "left" => d[2] \in left)
                                    /\ (d[1] = "tmp" => tmp[d[2]].id = p)

Resolve(c) ==
  /\ JobAt(c, {"uninstall"}, "resolve")
  /\ IF Exists(job[c].id, TargetDir(job[c].id))
     THEN /\ job' = [job EXCEPT ![c].at = "close", ![c].target = TargetDir(job[c].id)]
          /\ UNCHANGED <<diskVars, stateVars, where, modLock, ops, found, callVars>>
     ELSE FailClean(c, "module_not_found")

\* shutdown_plugin_sessions, after the module's files have been unloaded.
Close(c) ==
  /\ JobAt(c, {"uninstall", "update"}, "close") /\ Step(c, "closing")
  /\ TakeHostSession(c, "stop", job[c].id)
  /\ UNCHANGED <<diskVars, stateVars, where, modLock, ops>>

Closed(c) ==
  /\ job[c].at = "closing" /\ AtStep(c, "stopped")
  /\ Step(c, IF job[c].kind = "update" THEN "remove" ELSE "delete")
  /\ Return(c)
  /\ UNCHANGED <<diskVars, stateVars, where, modLock, ops, found, runtimeVars, maps>>

Delete(c) ==
  LET p == job[c].id
      d == job[c].target IN
  /\ JobAt(c, {"uninstall"}, "delete") /\ Step(c, "scan")
  /\ dest' = IF d = <<"dest">> THEN [dest EXCEPT ![p] = 0] ELSE dest
  /\ user' = IF d = <<"user">> THEN [user EXCEPT ![p] = 0] ELSE user
  /\ tmp' = IF d[1] = "tmp" THEN [tmp EXCEPT ![d[2]] = NoDir] ELSE tmp
  /\ left' = IF d[1] = "left" THEN left \ {d[2]} ELSE left
  /\ UNCHANGED <<stateVars, where, modLock, ops, found, callVars>>

DeleteFails(c) == JobAt(c, {"uninstall"}, "delete") /\ FailClean(c, "module_in_use")

-----------------------------------------------------------------------------
(* set_plugin_enabled *)

Known(p) == found[p] # 0 \/ dest[p] # 0 \/ p \in file

BeginSetEnabled(c, k, p) ==
  /\ k \in {"enable", "disable"} /\ Known(p) /\ StartJob(c, k, p, "wait")
  /\ UNCHANGED <<diskVars, stateVars, where, modLock, found, callVars>>

Toggled(c) == IF job[c].kind = "enable" THEN file \ {job[c].id} ELSE file \cup {job[c].id}

\* load_module_state: the whole file, whatever ids it is about.
ReadState(c) ==
  /\ JobAt(c, {"enable", "disable"}, "read")
  /\ job' = [job EXCEPT ![c].at = "save", ![c].ids = Toggled(c)]
  /\ UNCHANGED <<diskVars, stateVars, where, modLock, ops, found, callVars>>

SaveState(c) ==
  /\ job[c].at = "save" /\ Step(c, "set") /\ file' = job[c].ids
  /\ UNCHANGED <<diskVars, disabled, where, modLock, ops, found, callVars>>

SaveFails(c) == job[c].at = "save" /\ FailClean(c, "state_io")

\* set_disabled, whose reload is ScanAll and Store.
SetDisabled(c) ==
  /\ job[c].at = "set" /\ Step(c, "scan") /\ disabled' = job[c].ids
  /\ UNCHANGED <<diskVars, file, where, modLock, ops, found, callVars>>

-----------------------------------------------------------------------------
(* update_plugin *)

\* update_preflight reads the version to compare with before the lock.
BeginUpdate(c, p) ==
  /\ p \notin Builtin /\ found[p] # 0
  /\ job[c].at = "idle" /\ call[c].at = "idle" /\ ops < MaxOps /\ ops' = ops + 1
  /\ job' = [job EXCEPT ![c] = [NoJob EXCEPT !.kind = "update", !.id = p, !.at = "wait",
                                             !.current = found[p]]]
  /\ UNCHANGED <<diskVars, stateVars, where, modLock, found, callVars>>

\* The release is not newer, has no single zip, or the network fails.
NoUpdate(c) == JobAt(c, {"update"}, "fetch") /\ FailClean(c, "update_not_available")

Fetch(c, v) ==
  /\ JobAt(c, {"update"}, "fetch") /\ v > job[c].current /\ Quietly(c, "download")

Download(c) ==
  /\ JobAt(c, {"update"}, "download") /\ Step(c, "extract") /\ tmp' = [tmp EXCEPT ![c] = Partial]
  /\ UNCHANGED <<dest, user, left, stateVars, where, modLock, ops, found, callVars>>

DownloadFails(c) == JobAt(c, {"update"}, "download") /\ FailClean(c, "network")

\* The zip is of this plugin and newer than the version read at the start.
Fits(c) == job[c].zip.id = job[c].id /\ job[c].zip.version > job[c].current

CheckZip(c) ==
  /\ JobAt(c, {"update"}, "check")
  /\ IF Fits(c) THEN Quietly(c, "close") ELSE FailClean(c, "module_install")

\* reload_session; its failure is only logged.
Restart(c) ==
  /\ JobAt(c, {"update"}, "restart") /\ Step(c, "restarting")
  /\ TakeHostSession(c, "reload", job[c].id)
  /\ UNCHANGED <<diskVars, stateVars, where, modLock, ops>>

\* The files are opened again, and the fresh entry of the discovery answered.
Restarted(c) ==
  /\ job[c].at = "restarting" /\ call[c].op = "reload" /\ call[c].at \in {"reloaded", "failed"}
  /\ EndJob(c) /\ Return(c)
  /\ ReleaseLock(c)
  /\ UNCHANGED <<diskVars, stateVars, where, ops, found, runtimeVars, maps>>

-----------------------------------------------------------------------------
(* reload_plugin *)
ReloadPlugin(c, p) ==
  /\ p \notin disabled /\ found[p] # 0 /\ StartJob(c, "reload", p, "reloading")
  /\ TakeHostSession(c, "reload", p)
  /\ UNCHANGED <<diskVars, stateVars, where, modLock>>

Reloaded(c) ==
  /\ job[c].at = "reloading" /\ call[c].op = "reload" /\ call[c].at \in {"reloaded", "failed"}
  /\ EndJob(c) /\ Return(c)
  /\ UNCHANGED <<diskVars, stateVars, where, modLock, ops, found, runtimeVars, maps>>

\* The client goes away and the server drops the handler at an await: nobody
\* will remove the directory, and an extraction that runs completes it.
Abandon(c) ==
  /\ job[c].at \in {"extract", "smoke", "wait", "fetch", "download"}
  /\ \E z \in Zips :
       /\ JobAt(c, {"install"}, "extract") => z.id = job[c].id
       /\ left' = left \cup (IF job[c].at = "extract" THEN {z}
                             ELSE IF tmp[c] = NoDir THEN {} ELSE {tmp[c]})
  /\ RemoveTmp(c) /\ EndJob(c) /\ ReleaseLock(c)
  /\ UNCHANGED <<dest, user, stateVars, where, ops, found, callVars>>

-----------------------------------------------------------------------------
Command(c) ==
  \/ \E z \in Zips : BeginInstall(c, z) \/ Extract(c, z)
  \/ \E p \in Plugins : \/ BeginUninstall(c, p) \/ BeginUpdate(c, p) \/ ReloadPlugin(c, p)
                        \/ \E k \in {"enable", "disable"} : BeginSetEnabled(c, k, p)
  \/ \E v \in Versions : Fetch(c, v)
  \/ Lock(c) \/ ExtractFails(c) \/ Smoke(c) \/ SmokeFails(c)
  \/ RefuseBuiltin(c) \/ Conflict(c) \/ Proceed(c)
  \/ RemoveOld(c) \/ RemoveOldFails(c) \/ Rename(c) \/ RenameFails(c)
  \/ ScanAll(c) \/ Store(c) \/ Rescan(c)
  \/ Resolve(c) \/ Close(c) \/ Closed(c) \/ Delete(c) \/ DeleteFails(c)
  \/ ReadState(c) \/ SaveState(c) \/ SaveFails(c) \/ SetDisabled(c)
  \/ NoUpdate(c) \/ Download(c) \/ DownloadFails(c) \/ CheckZip(c) \/ Restart(c) \/ Restarted(c)
  \/ Reloaded(c) \/ Abandon(c)

Sessions ==
  /\ (\E c \in Callers : Serve(c)) \/ (\E s \in 1 .. Len(processes) : Die(s))
  /\ UNCHANGED moduleVars

Imports(p) ==
  /\ \E c \in Callers \ Clients : Ensure(c, p) \/ Probe(c, p)
  /\ UNCHANGED moduleVars

ModulesNext == (\E c \in Clients : Command(c)) \/ Sessions \/ (\E p \in Plugins : Imports(p))

ModulesSpec == ModulesInit /\ [][ModulesNext]_<<directoryVars, moduleVars>>

-----------------------------------------------------------------------------
(* Properties *)

\* A builtin module whose manifest is sound is never removed or replaced,
\* whatever commands run beside each other: two repairs of a broken one do
\* not both go through.
BuiltinIsKept == [][\A p \in Builtin : Healthy(p) => dest'[p] = dest[p]]_dest

\* Every command that ends has removed its .tmp-* directory, on each of its
\* ways out.
TmpIsOwned == \A c \in Clients : tmp[c] # NoDir => job[c].at # "idle"

\* A zip whose plugin is fine gets past the smoke test.
GoodZipInstalls ==
  [][\A c \in Clients : JobAt(c, {"install"}, "smoke") /\ tmp[c].good /\ left' = left
       => job'[c].at # "idle"]_<<job, tmp, left>>

-----------------------------------------------------------------------------
(* The inductive invariant of PluginModulesProofs *)

Dirs == [id : Plugins \cup {"none"}, version : Nat, nested : BOOLEAN, good : BOOLEAN]
Places == {Nowhere, <<"dest">>, <<"user">>} \cup ({"tmp"} \X Clients) \cup ({"left"} \X Dirs)

\* The steps of each command; those after plugin_lock for the ones that take it.
BeforeLock(k) == IF k = "install" THEN {"extract", "smoke", "wait"} ELSE {"wait"}
Locked(k) ==
  CASE k = "install"   -> {"judge", "remove", "rename", "scan", "store"}
    [] k = "uninstall" -> {"resolve", "close", "closing", "delete", "scan", "store"}
    [] k = "update"    -> {"fetch", "download", "extract", "check", "close", "closing", "remove",
                           "rename", "scan", "store", "restart", "restarting"}
    [] OTHER           -> {"read", "save", "set", "scan", "store"}
Locking == {"install", "uninstall", "enable", "disable", "update"}
StepsOf(k) == CASE k = "none"   -> {"idle"}
                [] k = "rescan" -> {"scan", "store"}
                [] k = "reload" -> {"reloading"}
                [] OTHER        -> BeforeLock(k) \cup Locked(k)

JobSteps == {"idle", "wait", "extract", "smoke", "judge", "remove", "rename", "scan", "store", "resolve",
             "close", "closing", "delete", "fetch", "download", "check", "restart", "restarting",
             "read", "save", "set", "reloading"}
Jobs ==
  [kind : Locking \cup {"none", "rescan", "reload"}, at : JobSteps, id : Plugins \cup {"none"},
   zip : Dirs, overwrite : BOOLEAN, current : Nat, ids : SUBSET Plugins, target : Places,
   scan : {<<>>} \cup ([Plugins -> Places] \X [Plugins -> Nat])]

ModulesTypeOK ==
  /\ dest \in [Plugins -> Nat] /\ user \in [Plugins -> Nat]
  /\ tmp \in [Clients -> Dirs] /\ left \subseteq Dirs
  /\ file \subseteq Plugins /\ disabled \subseteq Plugins
  /\ where \in [Plugins -> Places] /\ found \in [Plugins -> Nat]
  /\ modLock \in [Plugins -> Clients \cup {NoCaller}]
  /\ job \in [Clients -> Jobs] /\ ops \in Nat

\* A command takes the steps of its kind, and has its scan when it stores it.
StepsInv ==
  \A c \in Clients : /\ job[c].at \in StepsOf(job[c].kind)
                     /\ job[c].kind \in Locking => job[c].id \in Plugins
                     /\ job[c].at = "store" => job[c].scan # <<>>

\* Past plugin_lock a command holds the lock of its id; so two never do.
LockInv ==
  \A c \in Clients : job[c].kind \in Locking /\ job[c].at \in Locked(job[c].kind)
                       => modLock[job[c].id] = c

\* Who may still have a .tmp-* directory.
TmpInv ==
  \A c \in Clients : tmp[c] # NoDir =>
    \/ job[c].kind = "install" /\ job[c].at \in {"extract", "smoke", "wait", "judge", "remove", "rename"}
    \/ job[c].kind = "update" /\ job[c].at \in {"extract", "check", "close", "closing", "remove", "rename"}

\* A builtin id is only installed, and past the judgement it is not healthy.
KeptInv ==
  \A c \in Clients :
    /\ job[c].kind \in {"uninstall", "update"} => job[c].id \notin Builtin
    /\ job[c].kind = "install" /\ job[c].at \in {"remove", "rename"} /\ job[c].id \in Builtin
         => ~Healthy(job[c].id)
==================================================================================
