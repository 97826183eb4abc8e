---------------------------- MODULE BehaviorCheck ----------------------------
(***************************************************************************)
(* The second phase of `plugin check`: start the plugin, put a fixed       *)
(* sequence of requests to it, one at a time, and judge every line it      *)
(* writes.  A request waits for its answer until its watchdog runs out;    *)
(* lines that arrive meanwhile are judged whatever they belong to.  What   *)
(* the check concludes is the set of findings, [rule, level].              *)
(***************************************************************************)
EXTENDS PluginPipes, Findings

VARIABLES
    at,         \* the request put to the plugin, or the stage before or after them
    pending,    \* a request has been written and its answer is awaited
    findings,   \* set of [rule, level]
    fatal,      \* a finding that ends the check
    facts,      \* what the check has learned of this plugin
    slow        \* "no", or what a running plugin was too slow at

check == <<at, pending, findings, fatal, facts, slow>>

Id == [initialize |-> 1, schema |-> 2, can_handle |-> 3, load_file |-> 4,
       reload |-> 5, reschema |-> 6, parse |-> 7, key_values |-> 8,
       probe |-> 11, unknown |-> 12, unload_file |-> 9, shutdown |-> 10]

Asking == DOMAIN Id

MethodOf == [s \in Asking |->
    CASE s = "reload"   -> "load_file"
      [] s = "reschema" -> "schema"
      [] s \in {"probe", "unknown"} -> "custom_query"
      [] OTHER -> s]

\* The step after the one that went well.
After == [initialize |-> "schema", schema |-> "can_handle",
          can_handle |-> "load_file", load_file |-> "reload",
          reload |-> "reschema", reschema |-> "parse", parse |-> "key_values",
          key_values |-> "probe", probe |-> "unknown", unknown |-> "unload_file",
          unload_file |-> "shutdown", shutdown |-> "exit"]

Unheard == [metrics |-> {}, valid |-> FALSE, progress |-> FALSE, expected |-> {},
            closed |-> FALSE, sum |-> 0, query |-> FALSE, loadFailed |-> FALSE,
            aborted |-> FALSE]

CheckInit ==
    /\ at = "structure"
    /\ pending = FALSE
    /\ findings = {}
    /\ fatal = FALSE
    /\ facts = Unheard
    /\ slow = "no"

Ask(file) ==
    /\ at \in Asking /\ ~pending
    /\ pending' = TRUE
    /\ stdin' = IF child = "running"
                THEN Append(stdin, Request(Id[at], MethodOf[at],
                                     IF at = "unknown" THEN "unknown_query"
                                     ELSE IF at = "probe" THEN "probe" ELSE file))
                ELSE stdin
    /\ UNCHANGED <<stdinOpen, stdout, child, at, findings, fatal, facts, slow>>

(***************************************************************************)
(* Judging a line                                                          *)
(***************************************************************************)
\* Length, byte order mark, carriage return and JSON, in this order.
LineFindings(f) ==
    CASE f.line = "long"            -> Error("BEH-08")
      [] f.line \in {"bom", "cr"}   -> Error("BEH-09")
      [] f.line = "nan"             -> Error("BEH-05")
      [] f.line = "text"            -> Error("BEH-09")
      [] OTHER                      -> {}

\* The frame schema knows the shape of the notifications and the error codes;
\* an answer does not carry its method, so its result is judged by its handler.
SchemaFindings(f) ==
    CASE f.kind = "batch" /\ f.body.shape = "seq"     -> Error("BEH-06")
      [] f.kind = "batch" /\ f.body.shape = "record"  -> Error("BEH-05")
      [] f.kind = "progress" /\ f.body.shape # "good" -> Error("BEH-04")
      [] f.kind = "answer" /\ f.code = "invented"     -> Error("BEH-03")
      [] OTHER -> {}

Numbered(f)  == f.body.shape # "seq"
Declared(f)  == f.body.metric \in facts.metrics

\* As BatchFindings, without the look at what follows the last batch.
BatchFindingsOpenEnded(f) ==
    When(Numbered(f) /\ facts.expected \notin {{}, {f.body.seq}}, Error("BEH-06"))
    \cup When(f.body.n > 0 /\ f.body.shape # "record" /\ facts.valid /\ ~Declared(f),
              Error("BEH-05"))

\* As BatchFindings, but a number is refused only if it goes back.
BatchFindingsForward(f) ==
    When(Numbered(f) /\ \E next \in facts.expected : f.body.seq < next, Error("BEH-06"))
    \cup When(Numbered(f) /\ facts.closed, Error("BEH-06"))
    \cup When(f.body.n > 0 /\ f.body.shape # "record" /\ facts.valid /\ ~Declared(f),
              Error("BEH-05"))

\* Sequence numbers are compared with the one before: the first may be any.
BatchFindings(f) ==
    When(Numbered(f) /\ facts.expected \notin {{}, {f.body.seq}}, Error("BEH-06"))
    \cup When(Numbered(f) /\ facts.closed, Error("BEH-06"))
    \cup When(f.body.n > 0 /\ f.body.shape # "record" /\ facts.valid /\ ~Declared(f),
              Error("BEH-05"))

\* Only while the parse request waits are notifications counted.
NotificationFacts(f) ==
    CASE f.kind = "progress" -> [facts EXCEPT !.progress = TRUE]
      [] f.kind = "batch" ->
           [facts EXCEPT !.expected = IF Numbered(f) THEN {f.body.seq + 1} ELSE @,
                         !.closed = @ \/ f.body.done,
                         !.sum = @ + f.body.n]

Frame(f) ==
    /\ at \in Asking /\ pending /\ ~fatal
    /\ stdout # <<>> /\ f = Head(stdout)
    /\ stdout' = Tail(stdout)
    /\ UNCHANGED <<stdin, stdinOpen, child, slow>>

\* A line that is no frame ends the check only if it was too long.
JudgeLine(f) ==
    /\ Frame(f)
    /\ f.line # "json"
    /\ findings' = findings \cup LineFindings(f)
    /\ fatal' = (f.line = "long")
    /\ UNCHANGED <<at, pending, facts>>

JudgeNotification(f) ==
    /\ Frame(f)
    /\ f.kind \in {"progress", "batch"}
    /\ LET counted == at = "parse" IN
        /\ findings' = findings \cup SchemaFindings(f)
              \cup When(counted /\ f.kind = "batch", BatchFindings(f))
        /\ facts' = IF counted THEN NotificationFacts(f) ELSE facts
    /\ UNCHANGED <<at, pending, fatal>>

\* An answer nobody waits for: an invented id, a second answer, a late one.
JudgeStrayAnswer(f) ==
    /\ Frame(f)
    /\ f.kind = "answer" /\ f.id # Id[at]
    /\ findings' = findings \cup SchemaFindings(f) \cup Error("BEH-02")
    /\ UNCHANGED <<at, pending, fatal, facts>>

(***************************************************************************)
(* Judging an answer, by method                                            *)
(***************************************************************************)
Failed(f) == f.code # "none"

\* Defects of the greeting: a field missing, another id, a capability that is
\* not a boolean.
InitializeFindings(f) ==
    IF Failed(f)
    THEN Error("BEH-01") \cup When(f.code = "method_not_found", Error("BEH-03"))
    ELSE When(f.body.defect # "none" \/ f.body.query \notin {"absent", "true", "false"},
              Error("BEH-01"))

SchemaAnswerFindings(f) ==
    When(Failed(f) \/ ~f.body.listed \/ ~f.body.valid, Error("BEH-03"))

Claimed(f) == ~Failed(f) /\ f.body.claimed

CanHandleFindings(f) == When(~Failed(f) /\ ~f.body.inRange, Error("BEH-01"))

MissingMethod(f) == f.code \in {"method_not_found"}

ParseFindings(f) ==
    IF Failed(f)
    THEN When(MissingMethod(f) \/ f.code = "unsupported", Error("BEH-03"))
    ELSE When(~facts.progress, Error("BEH-04"))
         \cup When(f.body.total # facts.sum, Error("BEH-06"))

KeyValuesFindings(f) == When(~Failed(f) /\ f.body.entries # "good", Error("BEH-07"))

\* With the capability the probe must succeed with an object; without it only
\* the two codes that mean unsupported will do.
ProbeFindings(f) ==
    IF facts.query
    THEN When(Failed(f) \/ f.body.data # "object", Error("BEH-13"))
    ELSE When(f.code \notin {"unsupported", "method_not_found"}, Error("BEH-13"))

UnknownFindings(f) == When(f.code # "invalid_params", Error("BEH-13"))

AnswerFindings(f) ==
    CASE at = "initialize"              -> InitializeFindings(f)
      [] at \in {"schema", "reschema"}  -> SchemaAnswerFindings(f)
      [] at = "can_handle"              -> CanHandleFindings(f)
      [] at = "load_file"               -> When(MissingMethod(f), Error("BEH-03"))
      [] at = "reload"                  -> When(Failed(f), Warn("BEH-11"))
      [] at = "parse"                   -> ParseFindings(f)
      [] at = "key_values"              -> KeyValuesFindings(f)
      [] at = "probe"                   -> ProbeFindings(f)
      [] at = "unknown"                 -> UnknownFindings(f)
      [] OTHER                          -> {}

\* Which answers end the check at once.
EndsCheck(f) ==
    CASE at = "initialize"             -> Failed(f)
      [] at \in {"schema", "reschema"} -> Failed(f) \/ ~f.body.listed
      [] at = "load_file"              -> MissingMethod(f)
      [] at = "parse"                  -> MissingMethod(f) \/ f.code = "unsupported"
      [] OTHER                         -> FALSE

Learned(f) ==
    CASE at = "initialize" /\ ~Failed(f) ->
           [facts EXCEPT !.query = (f.body.query = "true")]
      [] at \in {"schema", "reschema"} /\ ~Failed(f) /\ f.body.listed ->
           [facts EXCEPT !.metrics = f.body.metrics, !.valid = f.body.valid]
      [] at = "load_file" -> [facts EXCEPT !.loadFailed = Failed(f)]
      [] OTHER -> facts

\* Where the check goes on: an unclaimed fixture or a failed load skips to the
\* end, and the unknown query is only put to a plugin with the capability.
NextStep(claimed, known) ==
    CASE at = "can_handle" /\ ~claimed          -> "shutdown"
      [] at = "reload" /\ known.loadFailed      -> "shutdown"
      [] at = "probe" /\ ~known.query           -> "unload_file"
      [] OTHER                                  -> After[at]

JudgeAnswer(f) ==
    /\ Frame(f)
    /\ f.kind = "answer" /\ f.id = Id[at]
    /\ pending' = FALSE
    /\ findings' = findings \cup SchemaFindings(f) \cup AnswerFindings(f)
    /\ fatal' = EndsCheck(f)
    /\ facts' = [Learned(f) EXCEPT !.aborted = EndsCheck(f)]
    /\ at' = IF EndsCheck(f) THEN "kill"
             ELSE NextStep(at # "can_handle" \/ Claimed(f), Learned(f))

\* No answer: the watchdog ran out, or the plugin is gone.  Required methods
\* end the check, an unanswered can_handle counts as no claim, an unanswered
\* unload as done.
SilenceFindings ==
    CASE at = "initialize"             -> Error("BEH-01")
      [] at \in {"schema", "reschema"} -> Error("BEH-03")
      [] at = "reload"                 -> Warn("BEH-11")
      [] at = "parse"                  -> Error("BEH-04")
      [] at = "key_values"             -> Error("BEH-07")
      [] at \in {"probe", "unknown"}   -> Warn("BEH-13")
      [] OTHER                         -> {}

GivesUp == fatal \/ at \in {"initialize", "schema", "reschema", "parse", "key_values"}

Silence ==
    LET ends == GivesUp /\ at \notin {"unload_file", "shutdown", "probe", "unknown"}
        known == [facts EXCEPT !.loadFailed = @ \/ at = "load_file", !.aborted = ends] IN
    /\ pending' = FALSE
    /\ findings' = findings \cup SilenceFindings
    /\ facts' = known
    /\ at' = IF ends THEN "kill"
             ELSE IF at = "probe" THEN "unload_file"
             ELSE NextStep(at # "can_handle", known)
    /\ UNCHANGED <<pipes, fatal>>

\* The parse watchdog starts anew with every notification: it runs out only
\* when nothing is there to read.
WatchdogRunsOut ==
    /\ at \in Asking /\ pending
    /\ child = "running" /\ ~fatal
    /\ at = "parse" => stdout = <<>>
    /\ slow' = "answering"
    /\ Silence

\* A line that was too long ends the wait at once, and so does the end of the
\* plugin's output.

WaitIsOver ==
    /\ at \in Asking /\ pending
    /\ fatal \/ (stdout = <<>> /\ child # "running")
    /\ UNCHANGED slow
    /\ Silence

(***************************************************************************)
(* The ending: wait for the exit, close stdin, wait again, kill            *)
(***************************************************************************)
AwaitExit ==
    /\ at = "exit"
    /\ findings' = findings \cup When(child # "code0", Warn("BEH-10"))
    /\ slow' = IF child = "running" /\ slow = "no" THEN "exiting" ELSE slow
    /\ at' = "eof"
    /\ stdinOpen' = FALSE
    /\ UNCHANGED <<stdin, stdout, child, pending, fatal, facts>>

AwaitEof ==
    /\ at = "eof"
    /\ findings' = findings \cup When(child = "running", Warn("BEH-12"))
    /\ slow' = IF child = "running" /\ slow = "no" THEN "exiting" ELSE slow
    /\ at' = "kill"
    /\ UNCHANGED <<pipes, pending, fatal, facts>>

Kill ==
    /\ at = "kill"
    /\ at' = "done"
    /\ child' = IF child = "running" THEN "killed" ELSE child
    /\ UNCHANGED <<stdin, stdinOpen, stdout, pending, findings, fatal, facts, slow>>

Judge ==
    /\ stdout # <<>>
    /\ LET f == Head(stdout) IN
        JudgeLine(f) \/ JudgeNotification(f) \/ JudgeStrayAnswer(f) \/ JudgeAnswer(f)

CheckNext(file) ==
    Ask(file) \/ Judge \/ WatchdogRunsOut \/ WaitIsOver \/ AwaitExit \/ AwaitEof \/ Kill

=============================================================================
