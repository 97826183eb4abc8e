----------------------------- MODULE LibraryCheck -----------------------------
(***************************************************************************)
(* `plugin check --behavior` put to a plugin on the runtime library: the   *)
(* check at one end of the pipes, the library's two threads at the other.  *)
(* What the library promises its authors (dispatch.rs) is what behavior.rs *)
(* demands of a plugin.                                                    *)
(***************************************************************************)
EXTENDS PluginRuntime, PluginCheck

VARIABLE part   \* which program runs at the ends of the pipes, here "library"

libraryVars == <<pipes, library, check, request, result, part>>

LibraryInit ==
    part = "library" /\ PipesInit /\ RuntimeInit /\ CheckInit /\ FolderStart

\* One file is the fixture of the whole replay.
LibraryNext(file) ==
    \/ RuntimeNext /\ UNCHANGED <<check, request, result, part>>
    \/ FolderNext(file) /\ UNCHANGED <<library, part>>

LibrarySpec(file) == LibraryInit /\ [][LibraryNext(file)]_libraryVars

\* A call that makes sense, in a folder the structure has no error in: the
\* replay comes to its turn.
Replayed == replays /\ call = "good" /\ ~HasError(StructureFindings(folder))

\* A plugin built on the runtime library, with a plugin that keeps to the
\* Plugin trait, passes the check with every behaviour rule looked at and none
\* broken, unless a watchdog ran out; what the report says besides is of the
\* folder alone.
LibraryPasses ==
    part = "library" /\ at = "reported" /\ slow = "no" /\ Replayed =>
        /\ report.exit = ExitCode(StructureFindings(folder)) /\ report.phase2 = "pass"
        /\ report.passed = BehaviorRules \cup Passed(StructureFindings(folder), FALSE)

(***************************************************************************)
(* The inductive invariant of PluginSideProofs                             *)
(***************************************************************************)
Unasked  == {"initialize", "schema", "can_handle", "load_file", "reload", "reschema"}
Replay   == Unasked \cup {"parse", "key_values", "probe", "unload_file", "shutdown"}
Over     == {"exit", "eof", "kill", "done"}

\* What the check has learned: no capability, no failure, and until the parse
\* nothing of its notifications.
Untold == ~facts.progress /\ facts.expected = {} /\ ~facts.closed /\ facts.sum = 0

FactsInv(file) ==
    /\ facts \in [metrics : SUBSET Files, valid : BOOLEAN, progress : BOOLEAN,
                  expected : SUBSET Nat, closed : BOOLEAN, sum : Nat, query : {FALSE},
                  loadFailed : {FALSE}, aborted : {FALSE}]
    /\ at \in Unasked => Untold
    /\ at = "parse" => facts.metrics = {file}

\* The request put to the plugin, and what the library answers to it.
Question(file) == Request(Id[at], MethodOf[at], IF at = "probe" THEN "probe" ELSE file)

Answer(file) ==
    CASE at = "initialize" -> Result(1, [defect |-> "none", query |-> "absent"])
      [] at = "schema"     -> Result(2, [metrics |-> {}, valid |-> TRUE, listed |-> TRUE])
      [] at = "can_handle" -> Result(3, [claimed |-> TRUE, inRange |-> TRUE])
      [] at = "load_file"  -> Result(4, "summary")
      [] at = "reload"     -> Result(5, "summary")
      [] at = "reschema"   -> Result(6, [metrics |-> {file}, valid |-> TRUE, listed |-> TRUE])
      [] at = "key_values" -> Result(8, [entries |-> "good"])
      [] at = "probe"      -> Refusal(11, "method_not_found")
      [] at = "unload_file" -> Result(9, "empty")
      [] OTHER             -> Result(10, "empty")

AtRest == inHand = NoRequest /\ workers = {} /\ slot = FreeSlot

Unsent(file)   == ~pending /\ stdin = <<>> /\ stdout = <<>> /\ AtRest
Sent(file)     == pending /\ stdin = <<Question(file)>> /\ stdout = <<>> /\ AtRest
Replied(file)  == pending /\ stdin = <<>> /\ stdout = <<Answer(file)>> /\ AtRest

\* The lines of a parse of n batches: a heartbeat and a batch in turn.  The
\* first k lines of stdout are the last of them, the check has read the others
\* and counted their batches.
LineOf(j, n, f) ==
    /\ j <= 2 * n
    /\ \E b \in 0 .. n :
        \/ j = 2 * b + 1 /\ f = Notify("progress", [shape |-> "good"])
        \/ /\ j = 2 * b + 2
           /\ f.line = "json" /\ f.kind = "batch" /\ f.body.seq = b /\ f.body.n = 1
           /\ f.body.shape = "good"

Counted(read) ==
    /\ read \in {2 * facts.sum, 2 * facts.sum + 1}
    /\ read > 0 => facts.progress
    /\ facts.expected = IF facts.sum = 0 THEN {} ELSE {facts.sum}

Streamed(file, n, k, over) ==
    /\ stdout \in Seq(Range(stdout))
    /\ n \in Nat /\ k \in 0 .. 2 * n
    /\ Counted(2 * n - k)
    /\ \A i \in 1 .. k :
        /\ LineOf(2 * n - k + i, n, stdout[i])
        /\ stdout[i].kind = "batch" =>
             /\ stdout[i].body.metric = file
             /\ stdout[i].body.done \in BOOLEAN
             /\ stdout[i].body.done => i = k /\ over
    /\ facts.closed => k = 0 /\ over

Steps == {"take", "parse", "parsed", "free", "answer"}

Parses(file) ==
    \E w \in workers :
        /\ pending /\ stdin = <<>> /\ inHand = NoRequest
        /\ workers = {w} /\ w \in [at : Steps, file : {file}, id : {7}, seq : Nat]
        /\ slot = IF w.at = "answer" THEN FreeSlot ELSE [file |-> file, cancel |-> FALSE]
        /\ Streamed(file, w.seq, Len(stdout), w.at \notin {"take", "parse"})
        /\ w.at = "take" => w.seq = 0
        /\ w.at \notin {"take", "parse"} => w.seq > 0
        /\ w.at \in {"take", "free", "answer"} => file \in files

HasParsed(file) ==
    /\ pending /\ stdin = <<>> /\ AtRest /\ file \in files
    /\ stdout # <<>>
    /\ LET n == stdout[Len(stdout)].body.total IN
        /\ n \in Nat \ {0} /\ stdout[Len(stdout)] = Result(7, [total |-> n])
        /\ Streamed(file, n, Len(stdout) - 1, TRUE)

Cleared(file) ==
    /\ pending /\ stdin = <<>> /\ stdout = <<>>
    /\ inHand = Request(7, "parse", file)
    /\ workers = {} /\ slot = FreeSlot /\ file \in files

Talk(file) ==
    IF at = "parse"
    THEN \/ (Unsent(file) \/ Sent(file)) /\ Untold /\ file \in files
         \/ Cleared(file) /\ Untold
         \/ Parses(file)
         \/ HasParsed(file)
    ELSE Unsent(file) \/ Sent(file) \/ Replied(file)

\* Before the load no metrics, after it those of the file, which stays in the
\* table until it is unloaded.
TableInv(file) ==
    /\ at \in {"initialize", "schema"} => metricsOf = NoFile
    /\ at \in {"reload", "reschema"} \/ (at = "load_file" /\ stdout # <<>>)
         => file \in files /\ metricsOf = file
    /\ at \in {"key_values", "probe"} => file \in files

Replaying(file) ==
    IF at = "structure"
    THEN PipesInit /\ RuntimeInit /\ CheckInit
    ELSE /\ findings = StructureFindings(folder)
         /\ ~facts.aborted
         /\ at \in Replay =>
              /\ child = IF at = "shutdown" /\ stdout # <<>> THEN "code0" ELSE "running"
              /\ stdinOpen /\ ~fatal
              /\ FactsInv(file) /\ TableInv(file) /\ Talk(file)
         /\ at \in Over => child = "code0"
         /\ at \in Replay \cup Over \cup {"reported"}
         /\ at = "reported" =>
              /\ report.exit = ExitCode(StructureFindings(folder)) /\ report.phase2 = "pass"
              /\ report.passed = BehaviorRules \cup Passed(StructureFindings(folder), FALSE)

LibraryInv(file) ==
    part = "library" /\ slow = "no" /\ Replayed => folder \in Folder /\ Replaying(file)

=============================================================================
