------------------------------ MODULE PluginHost ------------------------------
(***************************************************************************)
(* Any host of a plugin built on the runtime library: it sends requests of *)
(* every method for every file, closes the pipe when it likes, and keeps   *)
(* what the plugin wrote.  A patient host, like AnalysisBuddy itself, asks *)
(* again only after the last answer.                                       *)
(***************************************************************************)
EXTENDS PluginRuntime

CONSTANT MaxRequests    \* bound on the requests of one host

ASSUME HostAssumption == MaxRequests \in Nat

VARIABLES
    asked,      \* requests sent so far; ids are counted from 1
    patient

host == <<asked, patient>>

HostMethods == {"load_file", "parse", "schema", "key_values", "unload_file",
                "cancel_parse", "annotate", "shutdown"}

Answers(id) == {i \in DOMAIN stdout : stdout[i].kind = "answer" /\ stdout[i].id = id}

Answered(id) == Answers(id) # {}

HostInit == asked = 0 /\ patient \in BOOLEAN

HostAsks ==
    /\ stdinOpen /\ asked < MaxRequests
    /\ patient => \A id \in 1 .. asked : Answered(id)
    /\ asked' = asked + 1
    /\ \E m \in HostMethods, f \in Files :
         stdin' = Append(stdin, Request(asked', m, f))
    /\ UNCHANGED <<stdinOpen, stdout, child, library, patient>>

HostCloses ==
    /\ stdinOpen
    /\ stdinOpen' = FALSE
    /\ UNCHANGED <<stdin, stdout, child, library, host>>

HostNext == HostAsks \/ HostCloses \/ (RuntimeNext /\ UNCHANGED host)

HostSpec ==
    PipesInit /\ RuntimeInit /\ HostInit /\ [][HostNext]_<<pipes, library, host>>

\* Every request is answered once: never twice, and not left without an answer
\* once the dispatcher and the parse thread have nothing more to do.  The
\* answer to parse is written by the thread (dispatch.rs:252), to everything
\* else by the dispatcher, while both share the table, the slot and stdout.
AnsweredOnce ==
    /\ \A id \in 1 .. asked : Cardinality(Answers(id)) <= 1
    /\ (child = "running" /\ stdin = <<>> /\ inHand = NoRequest /\ workers = {})
         => \A id \in 1 .. asked : Answered(id)

\* A host that waits for each answer is never told that the plugin is busy:
\* file and slot are back before the answer to parse goes out
\* (dispatch.rs:243-252).
PatientIsNotTurnedAway ==
    patient => \A i \in DOMAIN stdout : stdout[i].code # "busy"

(***************************************************************************)
(* The inductive invariant                                                 *)
(***************************************************************************)
Requests == [id : Nat \ {0}, method : HostMethods, arg : Files]
InSlot == {"take", "parse", "parsed", "stopped", "free", "free_stopped"}
Reading == {"parse", "parsed", "stopped"}

TypeOK ==
    /\ stdin \in Seq(Requests) /\ stdinOpen \in BOOLEAN
    /\ child \in {"running", "code0"}
    /\ files \subseteq Files /\ metricsOf \in Files \cup {NoFile}
    /\ slot \in [file : Files \cup {NoFile}, cancel : BOOLEAN]
    /\ workers \subseteq
         [at : InSlot \cup {"answer", "answer_stopped"}, file : Files, id : Nat \ {0}, seq : Nat]
    /\ inHand \in Requests \cup {NoRequest}
    /\ asked \in Nat /\ patient \in BOOLEAN

\* The slot is taken exactly while one thread reads a file, and it is of that
\* file; a request already cleared for a parse finds its file in the table or
\* in the hands of that thread.
SlotInv ==
    /\ slot.file = NoFile => ~slot.cancel
    /\ \A w \in workers : w.at \in InSlot => slot.file = w.file
    /\ \A v, w \in workers : v.at \in InSlot /\ w.at \in InSlot => v = w
    /\ child = "running" /\ slot # FreeSlot => \E w \in workers : w.at \in InSlot
    /\ \A w \in workers : w.at = "take" => w.file \in files
    /\ inHand # NoRequest =>
         \/ inHand.arg \in files
         \/ \E w \in workers : w.at \in Reading /\ w.file = inHand.arg

\* How many requests the dispatcher has taken: the rest are in the pipe, in
\* their order.
Seen == asked - Len(stdin)

AnsweredIds == {stdout[i].id : i \in {i \in DOMAIN stdout : stdout[i].kind = "answer"}}

\* Whoever owes an answer has taken the request, alone, and not answered yet;
\* a request taken is owed or answered.
LedgerInv ==
    /\ \A i \in DOMAIN stdin : stdin[i].id = Seen + i
    /\ AnsweredIds \subseteq 1 .. Seen
    /\ \A i, k \in DOMAIN stdout :
         stdout[i].kind = "answer" /\ stdout[k].kind = "answer" /\ stdout[i].id = stdout[k].id
           => i = k
    /\ inHand # NoRequest => /\ inHand.id \in (1 .. Seen) \ AnsweredIds
                             /\ \A w \in workers : w.id # inHand.id
    /\ \A w \in workers : w.id \in (1 .. Seen) \ AnsweredIds
    /\ \A v, w \in workers : v.id = w.id => v = w
    /\ child = "running" => \A id \in 1 .. Seen :
         id \in AnsweredIds \/ inHand.id = id \/ \E w \in workers : w.id = id

\* A patient host has at most its last request open.
PatientInv ==
    /\ patient => 1 .. asked - 1 \subseteq AnsweredIds
    /\ PatientIsNotTurnedAway

IInv == TypeOK /\ SlotInv /\ LedgerInv /\ PatientInv

=============================================================================
