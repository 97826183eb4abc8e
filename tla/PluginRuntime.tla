---------------------------- MODULE PluginRuntime ----------------------------
(***************************************************************************)
(* The runtime library the Rust plugins are built on: the main thread      *)
(* reads one request after the other and answers it; a parse runs on a     *)
(* thread of its own, which takes the file out of the table of loaded      *)
(* files while it reads it.  `slot` says that a parse runs, of which file, *)
(* and whether it has been asked to stop.  The plugin itself (what it      *)
(* loads, the batches it writes) is the Plugin trait's implementation.     *)
(***************************************************************************)
EXTENDS PluginPipes, FiniteSets

CONSTANTS
    Files,      \* file ids a host uses
    Unreadable, \* the files whose load fails
    MaxBatches, \* bound on the batches of one parse
    NoFile

ASSUME RuntimeAssumption == NoFile \notin Files /\ MaxBatches \in Nat

VARIABLES
    files,      \* ids in the table of loaded files
    slot,       \* [file, cancel]: the parse slot; file = NoFile when free
    workers,    \* set of [at, file, id, seq]: the parse threads; one that has
                \* freed the slot may still have its answer to write
    metricsOf,  \* the file whose metrics `schema` answers with
    inHand      \* parse request between its two locks, or NoRequest

library == <<files, slot, workers, metricsOf, inHand>>

NoRequest == Request(0, "none", NoFile)
FreeSlot  == [file |-> NoFile, cancel |-> FALSE]

RuntimeInit ==
    /\ files = {}
    /\ slot = FreeSlot
    /\ workers = {}
    /\ metricsOf = NoFile
    /\ inHand = NoRequest

IsParsing(f) == slot.file # NoFile /\ slot.file = f

\* The dispatcher takes the next line of one of the methods.
Take(req, methods) ==
    /\ inHand = NoRequest
    /\ Arrives(req)
    /\ req.method \in methods
    /\ stdin' = Tail(stdin)
    /\ UNCHANGED stdinOpen

Greet(req) ==
    /\ Take(req, {"initialize"})
    /\ Write(Result(req.id, [defect |-> "none", query |-> "absent"]))
    /\ UNCHANGED <<child, library>>

CanHandle(req) ==
    /\ Take(req, {"can_handle"})
    /\ Write(Result(req.id, [claimed |-> TRUE, inRange |-> TRUE]))
    /\ UNCHANGED <<child, library>>

\* As LoadFile, without the new file's metrics.
LoadKeepsMetrics(req) ==
    /\ Take(req, {"load_file"})
    /\ IF IsParsing(req.arg)
       THEN Write(Refusal(req.id, "busy")) /\ UNCHANGED library
       ELSE /\ files' = files \cup {req.arg}
            /\ Write(Result(req.id, "summary"))
            /\ UNCHANGED <<slot, workers, metricsOf, inHand>>
    /\ UNCHANGED child

\* Refused for the file being parsed; a failed load changes nothing; a load
\* of a loaded file replaces it.
LoadFile(req) ==
    /\ Take(req, {"load_file"})
    /\ IF IsParsing(req.arg)
       THEN Write(Refusal(req.id, "busy")) /\ UNCHANGED library
       ELSE IF req.arg \in Unreadable
       THEN Write(Refusal(req.id, "load_failed")) /\ UNCHANGED library
       ELSE /\ files' = files \cup {req.arg}
            /\ metricsOf' = req.arg
            /\ Write(Result(req.id, "summary"))
            /\ UNCHANGED <<slot, workers, inHand>>
    /\ UNCHANGED child

\* parse, first lock: is the file in the table?
LookForFile(req) ==
    /\ Take(req, {"parse"})
    /\ IF req.arg \in files
       THEN inHand' = req /\ UNCHANGED stdout
       ELSE Write(Refusal(req.id, "invalid_params")) /\ UNCHANGED inHand
    /\ UNCHANGED <<child, files, slot, workers, metricsOf>>

\* parse, second lock: the slot serves one parse of any file.
ClaimSlot ==
    /\ child = "running"
    /\ inHand # NoRequest
    /\ inHand' = NoRequest
    /\ IF slot # FreeSlot
       THEN Write(Refusal(inHand.id, "busy")) /\ UNCHANGED <<slot, workers>>
       ELSE /\ slot' = [file |-> inHand.arg, cancel |-> FALSE]
            /\ workers' = workers \cup
                 {[at |-> "take", file |-> inHand.arg, id |-> inHand.id, seq |-> 0]}
            /\ UNCHANGED stdout
    /\ UNCHANGED <<stdin, stdinOpen, child, files, metricsOf>>

\* The metrics are those of the file loaded last, whichever it was.
Schema(req) ==
    /\ Take(req, {"schema"})
    /\ Write(Result(req.id, [metrics |-> {metricsOf} \ {NoFile}, valid |-> TRUE,
                             listed |-> TRUE]))
    /\ UNCHANGED <<child, library>>

KeyValues(req) ==
    /\ Take(req, {"key_values"})
    /\ Write(IF IsParsing(req.arg) THEN Refusal(req.id, "busy")
             ELSE IF req.arg \in files THEN Result(req.id, [entries |-> "good"])
             ELSE Refusal(req.id, "invalid_params"))
    /\ UNCHANGED <<child, library>>

\* As UnloadFile, without the look at the parse slot.
UnloadWhileParsing(req) ==
    /\ Take(req, {"unload_file"})
    /\ files' = files \ {req.arg}
    /\ Write(Result(req.id, "empty"))
    /\ UNCHANGED <<child, slot, workers, metricsOf, inHand>>

UnloadFile(req) ==
    /\ Take(req, {"unload_file"})
    /\ IF IsParsing(req.arg)
       THEN Write(Refusal(req.id, "busy")) /\ UNCHANGED files
       ELSE files' = files \ {req.arg} /\ Write(Result(req.id, "empty"))
    /\ UNCHANGED <<child, slot, workers, metricsOf, inHand>>

\* Always answered with success; the flag goes up for the parse of that file.
CancelParse(req) ==
    /\ Take(req, {"cancel_parse"})
    /\ slot' = [slot EXCEPT !.cancel = @ \/ IsParsing(req.arg)]
    /\ Write(Result(req.id, "empty"))
    /\ UNCHANGED <<child, files, workers, metricsOf, inHand>>

\* annotate is declared unsupported; any other name is not a method.
Decline(req) ==
    /\ Take(req, {"annotate", "custom_query"})
    /\ Write(Refusal(req.id, IF req.method = "annotate" THEN "unsupported"
                             ELSE "method_not_found"))
    /\ UNCHANGED <<child, library>>

\* The loop ends after the answer: a parse thread still at work goes with it.
Shutdown(req) ==
    /\ Take(req, {"shutdown"})
    /\ Write(Result(req.id, "empty"))
    /\ Exit("code0")
    /\ workers' = {}
    /\ UNCHANGED <<files, slot, metricsOf, inHand>>

EndOfInput ==
    /\ child = "running" /\ ~stdinOpen /\ stdin = <<>> /\ inHand = NoRequest
    /\ Exit("code0")
    /\ workers' = {}
    /\ UNCHANGED <<stdin, stdinOpen, stdout, files, slot, metricsOf, inHand>>

(***************************************************************************)
(* The parse thread                                                        *)
(***************************************************************************)
At(w, step) == child = "running" /\ w.at = step

Becomes(w, step) == workers' = (workers \ {w}) \cup {[w EXCEPT !.at = step]}

\* `remove(..).expect(..)`: the thread panics if the file is not there.
TakeFile(w) ==
    /\ At(w, "take")
    /\ files' = files \ {w.file}
    /\ Becomes(w, "parse")
    /\ UNCHANGED <<pipes, slot, metricsOf, inHand>>

\* Plugin::parse writes a heartbeat and a batch at a time, the last one with
\* done, and looks at the flag in between.
ProduceBatch(w) ==
    /\ At(w, "parse")
    /\ w.seq < MaxBatches
    /\ ~slot.cancel
    /\ \E done \in BOOLEAN :
        /\ stdout' = stdout \o
             <<Notify("progress", [shape |-> "good"]),
               Notify("batch", [seq |-> w.seq, n |-> 1, metric |-> w.file,
                                done |-> done, shape |-> "good"])>>
        /\ workers' = (workers \ {w}) \cup
             {[w EXCEPT !.seq = @ + 1, !.at = IF done THEN "parsed" ELSE "parse"]}
    /\ UNCHANGED <<stdin, stdinOpen, child, files, slot, metricsOf, inHand>>

StopEarly(w) ==
    /\ At(w, "parse")
    /\ slot.cancel
    /\ Becomes(w, "stopped")
    /\ UNCHANGED <<pipes, files, slot, metricsOf, inHand>>

\* The outcome is kept while the file goes back and the slot is freed.
PutBack(w) ==
    /\ At(w, "parsed") \/ At(w, "stopped")
    /\ files' = files \cup {w.file}
    /\ Becomes(w, IF w.at = "parsed" THEN "free" ELSE "free_stopped")
    /\ UNCHANGED <<pipes, slot, metricsOf, inHand>>

\* As GiveSlotBack, with the slot left taken.
KeepSlot(w) ==
    /\ At(w, "free") \/ At(w, "free_stopped")
    /\ Becomes(w, IF w.at = "free" THEN "answer" ELSE "answer_stopped")
    /\ UNCHANGED <<pipes, slot, files, metricsOf, inHand>>

GiveSlotBack(w) ==
    /\ At(w, "free") \/ At(w, "free_stopped")
    /\ slot' = FreeSlot
    /\ Becomes(w, IF w.at = "free" THEN "answer" ELSE "answer_stopped")
    /\ UNCHANGED <<pipes, files, metricsOf, inHand>>

\* As AnswerParse, with nothing said about a parse that was stopped.
AnswerUnlessStopped(w) ==
    /\ At(w, "answer") \/ At(w, "answer_stopped")
    /\ IF w.at = "answer" THEN Write(Result(w.id, [total |-> w.seq])) ELSE UNCHANGED stdout
    /\ workers' = workers \ {w}
    /\ UNCHANGED <<stdin, stdinOpen, child, files, slot, metricsOf, inHand>>

AnswerParse(w) ==
    /\ At(w, "answer") \/ At(w, "answer_stopped")
    /\ Write(IF w.at = "answer" THEN Result(w.id, [total |-> w.seq])
             ELSE Refusal(w.id, "cancelled"))
    /\ workers' = workers \ {w}
    /\ UNCHANGED <<stdin, stdinOpen, child, files, slot, metricsOf, inHand>>

Worker == \E w \in workers :
    TakeFile(w) \/ ProduceBatch(w) \/ StopEarly(w) \/ PutBack(w)
    \/ GiveSlotBack(w) \/ AnswerParse(w)

Dispatcher ==
    \/ ClaimSlot
    \/ EndOfInput
    \/ /\ stdin # <<>>
       /\ LET req == Head(stdin) IN
            \/ Greet(req) \/ CanHandle(req) \/ LoadFile(req) \/ LookForFile(req)
            \/ Schema(req) \/ KeyValues(req) \/ UnloadFile(req) \/ CancelParse(req)
            \/ Decline(req) \/ Shutdown(req)

RuntimeNext == Worker \/ Dispatcher

(***************************************************************************)
(* Properties                                                              *)
(***************************************************************************)
\* The parse thread finds its file in the table, whatever requests arrived
\* between the check, the claim of the slot and the start of the thread: the
\* `expect` at dispatch.rs:239 never panics and the slot is never stuck.
ParseFindsItsFile == \A w \in workers : At(w, "take") => w.file \in files

=============================================================================
