---------------------------- MODULE PassedPlugin ----------------------------
(***************************************************************************)
(* What a pass of `plugin check --behavior` is worth, whatever plugin is   *)
(* at the other end of the pipes: if the report passes all rules of        *)
(* behaviour, the lines the check has read are those of a plugin that      *)
(* keeps to the protocol.                                                  *)
(***************************************************************************)
EXTENDS PluginCheck, FiniteSetsExt

VARIABLE heard  \* the lines judged so far, each with the request it was read under

HeardStart == heard = <<>>

\* Only a line that is judged is taken from the pipe.
HeardNext(file) ==
    /\ FolderNext(file)
    /\ heard' = IF stdout' = stdout THEN heard
                ELSE Append(heard, [under |-> at, frame |-> Head(stdout)])

Heard == 1 .. Len(heard)

IsAnswer(i) == heard[i].frame.kind = "answer"
IsBatch(i)  == heard[i].frame.kind = "batch" /\ heard[i].under = "parse"
IsBeat(i)   == heard[i].frame.kind = "progress" /\ heard[i].under = "parse"

\* The answer that announces the metrics of the file.
Announces(i) ==
    IsAnswer(i) /\ heard[i].under = "reschema" /\ heard[i].frame.id = Id["reschema"]

\* Batch j is the first after batch i.
NextBatch(i, j) ==
    i < j /\ IsBatch(i) /\ IsBatch(j) /\ \A k \in Heard : i < k /\ k < j => ~IsBatch(k)

\* The records of all batches of the parse.
Sizes == [i \in Heard |-> IF IsBatch(i) THEN heard[i].frame.body.n ELSE 0]
RecordsHeard == MapThenSumSet(LAMBDA i : Sizes[i], Heard)

\* The requests in the order they are put.
Rank == [initialize |-> 1, schema |-> 2, can_handle |-> 3, load_file |-> 4, reload |-> 5,
         reschema |-> 6, parse |-> 7, key_values |-> 8, probe |-> 9, unknown |-> 10,
         unload_file |-> 11, shutdown |-> 12]

\* Every line a frame.
AllFrames == \A i \in Heard : heard[i].frame.line = "json"

\* An answer carries the id of the request it was read under, and no request is
\* answered twice, or after a later one.
InTurn ==
    /\ \A i \in Heard : IsAnswer(i) => heard[i].frame.id = Id[heard[i].under]
    /\ \A i, j \in Heard : i < j /\ IsAnswer(i) /\ IsAnswer(j)
                             => Rank[heard[i].under] < Rank[heard[j].under]

\* The batches are numbered without a gap, and the one that says done is the last.
Gapless ==
    \A i, j \in Heard : NextBatch(i, j) =>
        /\ heard[j].frame.body.seq = heard[i].frame.body.seq + 1
        /\ ~heard[i].frame.body.done

\* Records are of metrics that were announced after the file was loaded.
Announced ==
    \A i \in Heard : IsBatch(i) /\ heard[i].frame.body.n > 0 =>
        \E k \in Heard : /\ k < i /\ Announces(k)
                         /\ heard[i].frame.body.metric \in heard[k].frame.body.metrics

\* A parse that ends well has told how far it was, and its total is that of the
\* records sent before it.
TotalTold ==
    \A i \in Heard : IsAnswer(i) /\ heard[i].under = "parse" /\ ~Failed(heard[i].frame) =>
        /\ \E k \in Heard : IsBeat(k)
        /\ heard[i].frame.body.total = RecordsHeard

\* A pass is earned: the check judges line by line, remembers a handful of facts
\* and skips what a plugin does not offer; yet what it passes has kept to the
\* protocol in all it wrote (behavior.rs).
PassIsEarned ==
    at = "reported" /\ BehaviorRules \subseteq report.passed =>
        AllFrames /\ InTurn /\ Gapless /\ Announced /\ TotalTold

(***************************************************************************)
(* Any plugin: the pipes move freely between two steps of the check, only  *)
(* that its lines are such as the pipes can carry.                         *)
(***************************************************************************)
FrameOK(f) ==
    /\ f.line \in Lines
    /\ f.line # "json" <=> f.kind = "noise"
    /\ f.kind = "batch" => f.body.n \in Nat /\ f.body.done \in BOOLEAN

AnyPlugin(Wire) ==
    /\ CheckInit /\ FolderStart /\ HeardStart
    /\ [][\E file : HeardNext(file)]_<<check, request, result, heard>>
    /\ [](stdout \in Seq(Wire))

-----------------------------------------------------------------------------
(* The inductive invariant of PluginSideProofs: what the check remembers   *)
(* and has found speaks for all lines it has read.                         *)

Broke(rule) == \E f \in findings : f.rule = rule

\* How far the check has come: before the requests, at one, after them.
PlaceOf(stage) ==
    IF stage \in Asking THEN Rank[stage] ELSE IF stage = "structure" THEN 0 ELSE 13
Place == PlaceOf(at)

\* What was read under a request that was answered lies behind.
PlaceInv(Wire) ==
    /\ heard \in Seq([under : Asking, frame : Wire])
    /\ at = "structure" => findings = {}
    /\ \A i \in Heard : Rank[heard[i].under] <= Place
    /\ \A i \in Heard : IsAnswer(i) => Broke("BEH-02") \/ Rank[heard[i].under] < Place

\* What the check remembers of the lines it has read.
Newest(i) == IsBatch(i) /\ \A k \in Heard : IsBatch(k) => k <= i

Remembered ==
    /\ DOMAIN facts = DOMAIN Unheard
    /\ facts.sum = RecordsHeard
    /\ facts.progress => \E k \in Heard : IsBeat(k)
    /\ Broke("BEH-06") \/
         IF \E i \in Heard : IsBatch(i)
         THEN \E i \in Heard : /\ Newest(i)
                               /\ facts.expected = {heard[i].frame.body.seq + 1}
                               /\ heard[i].frame.body.done => facts.closed
         ELSE facts.expected = {}
    /\ at = "parse" =>
         /\ Broke("BEH-03") \/ facts.valid
         /\ \E k \in Heard : Announces(k) /\ facts.metrics = heard[k].frame.body.metrics

\* What the lines broke, the findings say.
Judged ==
    /\ AllFrames \/ Broke("BEH-05") \/ Broke("BEH-08") \/ Broke("BEH-09")
    /\ InTurn \/ Broke("BEH-02")
    /\ Gapless \/ Broke("BEH-06")
    /\ Announced \/ Broke("BEH-03") \/ Broke("BEH-05")
    /\ TotalTold \/ Broke("BEH-02") \/ Broke("BEH-04") \/ Broke("BEH-06")

Reported ==
    /\ at # "reported" => report = NoReport
    /\ at = "reported" /\ BehaviorRules \subseteq report.passed =>
         \A rule \in BehaviorRules : ~Broke(rule)

PassInv(Wire) == PlaceInv(Wire) /\ Remembered /\ Judged /\ Reported

=============================================================================
