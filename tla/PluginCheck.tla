---------------------------- MODULE PluginCheck ----------------------------
(***************************************************************************)
(* `plugin check` from its first look at the folder to its report, and the *)
(* host that scans the same folder afterwards.  The structure comes first; *)
(* an error there spares the plugin its replay, and so does a call without *)
(* --behavior.                                                             *)
(***************************************************************************)
EXTENDS ManifestRules, BehaviorCheck

VARIABLES
    folder,     \* the plugin's folder, as ManifestRules reads it
    replays,    \* --behavior was given
    call,       \* what else the call is worth: "good", or the way it is misused
    report,     \* what the check printed
    verdict,    \* what the host makes of the folder, "unread" before its scan
    kept        \* the presets the host keeps

request == <<folder, replays, call>>
scan    == <<verdict, kept>>
result  == <<report, scan>>

NoReport == [exit |-> 9, phase1 |-> "none", phase2 |-> "none", passed |-> {}]

\* The replay's own state waits, as CheckInit leaves it, for its turn.
FolderInit(f, behavior, how) ==
    /\ folder = f /\ replays = behavior /\ call = how
    /\ report = NoReport
    /\ verdict = "unread" /\ kept = <<>>

\* Neither of the two schemas is optional.
NoSchema == call = "schemaless"

\* Exit codes of their own for help, a call that makes no sense and a schema
\* that is missing; nothing is checked then.
CallExit == IF call = "help" THEN 0 ELSE IF NoSchema THEN 4 ELSE 3
Refused  == call \in {"help", "misused"} \/ NoSchema

RefuseCall ==
    /\ at = "structure" /\ Refused
    /\ at' = "reported"
    /\ report' = [NoReport EXCEPT !.exit = CallExit]
    /\ UNCHANGED <<pipes, pending, findings, fatal, facts, slow, request, scan>>

\* A replay needs a log to put to the plugin and a manifest that serde reads.
CannotReplay == call = "no fixture" \/ NoManifest(folder)

Structure ==
    /\ at = "structure" /\ ~Refused
    /\ findings' = StructureFindings(folder)
    /\ LET goesOn == replays /\ ~HasError(findings') IN
        /\ at' = CASE goesOn /\ CannotReplay  -> "reported"
                   [] goesOn /\ ~CannotReplay -> "initialize"
                   [] ~goesOn                 -> "done"
        /\ report' = IF goesOn /\ CannotReplay THEN [report EXCEPT !.exit = 4] ELSE report
    /\ UNCHANGED <<pipes, pending, fatal, facts, slow, request, scan>>

Report ==
    /\ at = "done"
    /\ at' = "reported"
    /\ LET structural == {f \in findings : f.rule \in StructureRules}
           replayed   == replays /\ ~HasError(structural) /\ ~facts.aborted IN
        report' = [exit   |-> ExitCode(findings),
                   phase1 |-> IF HasError(structural) THEN "fail" ELSE "pass",
                   phase2 |-> IF ~replayed THEN "skipped"
                              ELSE IF HasError(findings \ structural) THEN "fail" ELSE "pass",
                   passed |-> Passed(findings, replayed)]
    /\ UNCHANGED <<pipes, pending, findings, fatal, facts, slow, request, scan>>

\* scan_plugin, with the presets the engine asks for.
Discover ==
    /\ at = "reported" /\ verdict = "unread"
    /\ verdict' = HostVerdict(folder)
    /\ kept' = SanitizePresets(folder.presets)
    /\ UNCHANGED <<pipes, check, request, report>>

(***************************************************************************)
(* Any folder, any plugin: whatever is at the other end of the pipes moves *)
(* freely in the steps that leave the check and the scan alone.            *)
(***************************************************************************)
Calls == {"good", "help", "misused", "schemaless", "no fixture"}

FolderStart ==
    \E f \in Folder, behavior \in BOOLEAN, how \in Calls : FolderInit(f, behavior, how)

FolderNext(file) ==
    \/ CheckNext(file) /\ UNCHANGED <<request, result>>
    \/ RefuseCall \/ Structure \/ Report \/ Discover

FolderSpec ==
    CheckInit /\ FolderStart /\ [][\E file : FolderNext(file)]_<<check, request, result>>

(***************************************************************************)
(* What the two readers promise each other                                 *)
(***************************************************************************)
\* What only the host judges, or judges more strictly.
ForTheHost(f) ==
    \/ f.command = "local" /\ f.override = "absent"
    \/ f.command \in {"python gone", "rel, no .exe"}
    \/ f.override # "absent" \/ f.update = "bad"
    \/ f.extensions = "illegal" \/ f.fingerprints = "blank"
    \/ \E v \in {f.version} \cup {e.version : e \in Range(f.changelog)} : v.form = "loose"
    \/ \E t \in Range(f.tools) : t.gap # "space" \/ t.req = "unmet"

\* A folder the check finds no error in is one the host accepts, but for what
\* the check does not look at: two readers of the same manifest, written apart
\* (structure.rs and manifest.rs), agree on ids, versions, changelogs, tools,
\* origins and the working directory.  A call that checks nothing says nothing.
CheckedIsAccepted ==
    verdict # "unread" /\ ~Refused /\ ~ForTheHost(folder) /\ ~HasError(findings)
        => verdict = "accepted"

\* The host drops no part of a preset of which the check did not warn
\* (MAN-14 and sanitize_presets).
WarnedOrKept ==
    verdict = "accepted" /\ ~Refused
        /\ (\A f \in findings : f.rule \notin {"MAN-01", "MAN-14"})
        => kept = folder.presets

=============================================================================
