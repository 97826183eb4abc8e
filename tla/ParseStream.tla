----------------------------- MODULE ParseStream -----------------------------
(***************************************************************************)
(* The way of a parse's batches from the plugin to the store: the pipe,    *)
(* the read pump with its sequence check (core/ab-host/src/session.rs),    *)
(* the bounded fan-out (rpc.rs), the forward task of the parse adapter     *)
(* (core/ab-engine/src/host_bridge.rs), the bounded sink and its task, and *)
(* the coordinator's verdict (pipeline_bridge.rs, ab-pipeline/store.rs).   *)
(*                                                                         *)
(* The parses of a session run one after another (the plugin lock), but a  *)
(* plugin may still be sending for a parse the host has given up.  A batch *)
(* is its sequence number and how many records it has.                     *)
(***************************************************************************)
EXTENDS Naturals, Sequences, FiniteSets, SequencesExt

CONSTANTS
  Files,
  Sizes,        \* how many records a batch may have
  MaxBatches,   \* bound on the batches of each file
  MaxProgress,  \* bound on the progress reports of each file
  WireCap,      \* bound on the frames in the pipe
  FanCap,       \* NOTIFICATION_CAP
  SinkCap       \* capacity of the sink channel

ASSUME SizesAssumption == Sizes \subseteq Nat
ASSUME CapsAssumption  == FanCap \in Nat \ {0} /\ SinkCap \in Nat \ {0}
ASSUME StreamAssumption == MaxBatches \in [Files -> Nat] /\ MaxProgress \in [Files -> Nat]

VARIABLES
  \* the plugin
  sent,      \* the batches it has sent for each file
  beats,     \* the progress reports it has sent
  asked,     \* files it has been asked to parse and has not answered for
  honest,    \* it has kept to the protocol
  wire,      \* frames on their way to the host
  \* the host
  pump,      \* the read pump
  accepted,  \* batches SeqValidator let pass; last_seq is their number less one
  fan,       \* the fan-out's queue to the parse adapter
  lost,      \* files of which the fan-out has dropped a batch
  call,      \* outcome of each file's parse call
  total,     \* records_total in its result
  forward,   \* the forward task
  held,      \* the notification the forward task is about to send to the sink
  \* the engine
  sink,      \* the sink channel
  failure,   \* the sink task's append_error
  pc,        \* where import_one is
  discarded, \* files taken out of the Store during their parse
  data,      \* the batches the Store has of each file
  received   \* FileData::records_received

pluginVars == <<sent, beats, asked, honest>>
hostVars   == <<pump, accepted, lost>>
callVars   == <<call, total>>
engineVars == <<failure, discarded, data, received>>
vars == <<pluginVars, wire, hostVars, fan, callVars, forward, held, sink, pc, engineVars>>

Frame(k, f, s, n) == [kind |-> k, file |-> f, seq |-> s, size |-> n]

Batch == UNION { [kind : {"batch"}, file : {f}, seq : 0 .. MaxBatches[f], size : Sizes]
                   : f \in Files }
Progress == [kind : {"progress"}, file : Files, seq : {0}, size : {0}]
Answer   == [kind : {"result", "error"}, file : Files, seq : {0}, size : Nat]
Queue    == Seq(Batch \cup Progress)

TypeOK ==
  /\ sent \in [Files -> Seq(Batch)] /\ accepted \in [Files -> Seq(Batch)]
  /\ data \in [Files -> Seq(Batch)] /\ received \in [Files -> Nat]
  /\ beats \in [Files -> Nat] /\ total \in [Files -> Nat]
  /\ asked \subseteq Files /\ lost \subseteq Files
  /\ failure \subseteq Files /\ discarded \subseteq Files
  /\ honest \in BOOLEAN
  /\ pump \in {"reading", "stopped"}
  /\ wire \in Seq(Batch \cup Progress \cup Answer)
  /\ fan \in Queue /\ Len(fan) <= FanCap
  /\ sink \in Queue /\ Len(sink) <= SinkCap
  /\ held \in Queue /\ Len(held) <= 1
  /\ call \in [Files -> {"none", "waiting", "result", "error"}]
  /\ forward \in {"off", "select", "drain", "done"}
  /\ pc \in [Files -> {"new", "parsing", "joining", "ready", "failed"}]

Init ==
  /\ sent = [f \in Files |-> <<>>] /\ beats = [f \in Files |-> 0]
  /\ asked = {} /\ honest = TRUE /\ wire = <<>>
  /\ pump = "reading" /\ accepted = [f \in Files |-> <<>>] /\ fan = <<>> /\ lost = {}
  /\ call = [f \in Files |-> "none"] /\ total = [f \in Files |-> 0]
  /\ forward = "off" /\ held = <<>> /\ sink = <<>>
  /\ failure = {} /\ pc = [f \in Files |-> "new"]
  /\ discarded = {} /\ data = [f \in Files |-> <<>>] /\ received = [f \in Files |-> 0]

Goto(f, l) == pc' = [pc EXCEPT ![f] = l]

Parsing(f) == pc[f] \in {"parsing", "joining"}

-----------------------------------------------------------------------------
(* The plugin *)

Write(fr) ==
  /\ pump = "reading" /\ Len(wire) < WireCap
  /\ wire' = Append(wire, fr)

Records(s) == FoldSeq(LAMBDA b, sum : b.size + sum, 0, s)

\* A batch.  Once the file is answered for, it comes too late.
EmitBatch(f, n) ==
  /\ pc[f] # "new" /\ Len(sent[f]) < MaxBatches[f]
  /\ LET b == Frame("batch", f, Len(sent[f]), n)
     IN  Write(b) /\ sent' = [sent EXCEPT ![f] = Append(@, b)]
  /\ honest' = (honest /\ f \in asked)
  /\ UNCHANGED <<beats, asked>>

EmitProgress(f) ==
  /\ f \in asked /\ beats[f] < MaxProgress[f]
  /\ Write(Frame("progress", f, 0, 0))
  /\ beats' = [beats EXCEPT ![f] = @ + 1]
  /\ UNCHANGED <<sent, asked, honest>>

\* The result of parse, with records_total.
AnswerResult(f, n) ==
  /\ f \in asked
  /\ Write(Frame("result", f, 0, n))
  /\ asked' = asked \ {f}
  /\ honest' = (honest /\ n = Records(sent[f]))
  /\ UNCHANGED <<sent, beats>>

\* The right total, one that is too low and one that is too high: a u64 each.
Totals(f) == { 0, Records(sent[f]), Records(sent[f]) + 1 } \cap Nat

AnswerError(f) ==
  /\ f \in asked
  /\ Write(Frame("error", f, 0, 0))
  /\ asked' = asked \ {f}
  /\ UNCHANGED <<sent, beats, honest>>

\* A sequence number left out or used twice.
EmitBad(f, i, n) ==
  /\ f \in asked /\ i # Len(sent[f])
  /\ Write(Frame("batch", f, i, n))
  /\ honest' = FALSE
  /\ UNCHANGED <<sent, beats, asked>>

Plugin ==
  /\ \E f \in Files :
       \/ \E n \in Sizes : EmitBatch(f, n) \/ \E i \in 0 .. MaxBatches[f] : EmitBad(f, i, n)
       \/ EmitProgress(f) \/ AnswerError(f)
       \/ \E n \in Totals(f) : AnswerResult(f, n)
  /\ UNCHANGED <<hostVars, fan, callVars, forward, held, sink, pc, engineVars>>

-----------------------------------------------------------------------------
(* The read pump *)

Read(k) == pump = "reading" /\ wire # <<>> /\ Head(wire).kind = k /\ wire' = Tail(wire)

\* The parse adapter has a receiver from subscribe to the end of its forward task.
Subscribed == forward \in {"select", "drain"}

\* NotificationFan::fan_out never blocks the pump: what finds no room is dropped.
FanOut(fr) ==
  IF ~Subscribed THEN UNCHANGED <<fan, lost>>
  ELSE IF Len(fan) < FanCap
  THEN fan' = Append(fan, fr) /\ UNCHANGED lost
  ELSE /\ lost' = IF fr.kind = "batch" THEN lost \cup {fr.file} ELSE lost
       /\ UNCHANGED fan

\* A batch with the number after the last one is passed on.  Any other ends the
\* pump and the session: the plugin is killed.
ReadBatch ==
  /\ pump = "reading" /\ wire # <<>> /\ Head(wire).kind = "batch"
  /\ LET fr == Head(wire) IN
       IF fr.seq = Len(accepted[fr.file])
       THEN /\ accepted' = [accepted EXCEPT ![fr.file] = Append(@, fr)]
            /\ FanOut(fr)
            /\ wire' = Tail(wire)
            /\ UNCHANGED <<pump, asked>>
       ELSE /\ pump' = "stopped" /\ wire' = <<>> /\ asked' = {}
            /\ UNCHANGED <<accepted, fan, lost>>
  /\ UNCHANGED <<sent, beats, honest, callVars, forward, held, sink, pc, engineVars>>

ReadProgress ==
  /\ Read("progress")
  /\ FanOut(Head(wire))
  /\ UNCHANGED <<pluginVars, pump, accepted, callVars, forward, held, sink, pc, engineVars>>

\* A response: routed to the call that waits for it, or dropped.
ReadAnswer ==
  /\ Read("result") \/ Read("error")
  /\ LET fr == Head(wire) IN
       IF call[fr.file] = "waiting"
       THEN /\ call' = [call EXCEPT ![fr.file] = fr.kind]
            /\ total' = [total EXCEPT ![fr.file] = fr.size]
       ELSE UNCHANGED callVars
  /\ UNCHANGED <<pluginVars, hostVars, fan, forward, held, sink, pc, engineVars>>

Pump == ReadBatch \/ ReadProgress \/ ReadAnswer

\* The call's timeout is over, the process is dead, or the session was ended.
CallFails(f) ==
  /\ call[f] = "waiting"
  /\ call' = [call EXCEPT ![f] = "error"]
  /\ UNCHANGED <<pluginVars, wire, hostVars, fan, total, forward, held, sink, pc, engineVars>>

-----------------------------------------------------------------------------
(* The forward task of parse_stream *)

\* The next notification; one of another file is skipped.
Take ==
  /\ held = <<>> /\ fan # <<>>
  /\ fan' = Tail(fan)
  /\ held' = IF Parsing(Head(fan).file) THEN <<Head(fan)>> ELSE <<>>

\* While parse runs, and after it as long as something is left.
Forward ==
  /\ forward \in {"select", "drain"}
  /\ Take
  /\ UNCHANGED <<pluginVars, wire, hostVars, callVars, forward, sink, pc, engineVars>>

\* The sink is full at times: the task waits for room.
SendToSink ==
  /\ held # <<>> /\ Len(sink) < SinkCap
  /\ sink' = Append(sink, Head(held))
  /\ held' = <<>>
  /\ UNCHANGED <<pluginVars, wire, hostVars, fan, callVars, forward, pc, engineVars>>

CallDone == \E f \in Files : pc[f] = "parsing" /\ call[f] \in {"result", "error"}

\* Mutant: an error of parse is returned without the signal.
SeeGoodDone ==
  /\ forward = "select" /\ held = <<>>
  /\ \E f \in Files : pc[f] = "parsing" /\ call[f] = "result"
  /\ forward' = "drain"
  /\ UNCHANGED <<pluginVars, wire, hostVars, fan, callVars, held, sink, pc, engineVars>>

\* parse has returned and signalled it; select may take either branch.
SeeDone ==
  /\ forward = "select" /\ held = <<>> /\ CallDone
  /\ forward' = "drain"
  /\ UNCHANGED <<pluginVars, wire, hostVars, fan, callVars, held, sink, pc, engineVars>>

\* Mutant: the task is ended as soon as parse has returned.
ForwardEndsEarly ==
  /\ forward = "drain"
  /\ forward' = "done" /\ fan' = <<>> /\ held' = <<>>
  /\ UNCHANGED <<pluginVars, wire, hostVars, callVars, sink, pc, engineVars>>

\* Nothing is left: the task ends, its receiver and its end of the sink go.
ForwardEnds ==
  /\ forward = "drain" /\ held = <<>> /\ fan = <<>>
  /\ forward' = "done"
  /\ UNCHANGED <<pluginVars, wire, hostVars, fan, callVars, held, sink, pc, engineVars>>

-----------------------------------------------------------------------------
(* The engine *)

\* import_one registers the file and starts parse: a fresh id, one at a time.
StartParse(f) ==
  /\ pc[f] = "new" /\ pump = "reading" /\ \A g \in Files : ~Parsing(g)
  /\ Goto(f, "parsing")
  /\ forward' = "select"
  /\ accepted' = [accepted EXCEPT ![f] = <<>>]
  /\ call' = [call EXCEPT ![f] = "waiting"]
  /\ asked' = asked \cup {f}
  /\ UNCHANGED <<sent, beats, honest, wire, pump, fan, lost, total, held, sink, engineVars>>

\* Mutant: append_batch refuses a repeated number only.
AppendAfterGap(f, b) ==
  IF f \in failure
  THEN UNCHANGED <<data, received, failure>>
  ELSE IF f \notin discarded /\ b.seq >= Len(data[f])
  THEN /\ data' = [data EXCEPT ![f] = Append(@, b)]
       /\ received' = [received EXCEPT ![f] = @ + b.size]
       /\ UNCHANGED failure
  ELSE failure' = failure \cup {f} /\ UNCHANGED <<data, received>>

\* Store::append_batch; after its first error the sink task keeps nothing more.
AppendBatch(f, b) ==
  IF f \in failure
  THEN UNCHANGED <<data, received, failure>>
  ELSE IF f \notin discarded /\ b.seq = Len(data[f])
  THEN /\ data' = [data EXCEPT ![f] = Append(@, b)]
       /\ received' = [received EXCEPT ![f] = @ + b.size]
       /\ UNCHANGED failure
  ELSE failure' = failure \cup {f} /\ UNCHANGED <<data, received>>

\* The sink task takes an event.
SinkTakes(f) ==
  /\ Parsing(f) /\ sink # <<>>
  /\ sink' = Tail(sink)
  /\ IF Head(sink).kind = "batch"
     THEN AppendBatch(f, Head(sink))
     ELSE UNCHANGED <<failure, data, received>>
  /\ UNCHANGED <<pluginVars, wire, hostVars, fan, callVars, forward, held, pc, discarded>>

\* parse_stream returns when its forward task has ended.
ParseReturns(f) ==
  /\ pc[f] = "parsing" /\ forward = "done"
  /\ Goto(f, "joining")
  /\ UNCHANGED <<pluginVars, wire, hostVars, fan, callVars, forward, held, sink, engineVars>>

\* Store::unload
Drop(f) ==
  /\ data' = [data EXCEPT ![f] = <<>>]
  /\ received' = [received EXCEPT ![f] = 0]

\* Mutant: freeze does not compare the counts.
CompleteUncounted(f) ==
  call[f] = "result" /\ f \notin failure \cup discarded

\* The verdict on the file: Store::freeze counts its records.
Complete(f) ==
  call[f] = "result" /\ f \notin failure \cup discarded /\ received[f] = total[f]

\* The sink task has ended; the file is ready, or its data are dropped.
Verdict(f) ==
  /\ pc[f] = "joining" /\ sink = <<>>
  /\ call' = [call EXCEPT ![f] = "none"] /\ total' = [total EXCEPT ![f] = 0]
  /\ failure' = {}
  /\ IF Complete(f)
     THEN Goto(f, "ready") /\ UNCHANGED <<data, received>>
     ELSE Goto(f, "failed") /\ Drop(f)
  /\ UNCHANGED <<pluginVars, wire, hostVars, fan, forward, held, sink, discarded>>

\* A user unloads the file, or gives up waiting for its cancelled parse.
Discard(f) ==
  /\ Parsing(f) /\ f \notin discarded
  /\ discarded' = discarded \cup {f}
  /\ Drop(f)
  /\ UNCHANGED <<pluginVars, wire, hostVars, fan, callVars, forward, held, sink, pc, failure>>

Host == Pump \/ Forward \/ SendToSink \/ SeeDone \/ ForwardEnds

Engine(f) == SinkTakes(f) \/ ParseReturns(f) \/ Verdict(f)

Next ==
  \/ Plugin \/ Host
  \/ \E f \in Files : StartParse(f) \/ CallFails(f) \/ Engine(f) \/ Discard(f)

Spec == Init /\ [][Next]_vars

(***************************************************************************)
(* The host's tasks run, and a parse call ends, by its 600 s if by nothing *)
(* else.  Nothing is assumed of the plugin but that its stream is finite   *)
(* (MaxBatches, MaxProgress).                                              *)
(***************************************************************************)
FairSpec ==
  /\ Spec
  /\ WF_vars(Pump) /\ WF_vars(SeeDone)
  /\ WF_vars(Forward \/ SendToSink \/ ForwardEnds)
  /\ \A f \in Files : WF_vars(CallFails(f)) /\ WF_vars(Engine(f))

-----------------------------------------------------------------------------
(* Properties *)

(***************************************************************************)
(* A plugin that keeps to the protocol gets its file ready with every      *)
(* record it sent: nothing lost in a queue goes unnoticed.                 *)
(***************************************************************************)
ReadyIsComplete ==
  \A f \in Files : honest /\ pc[f] = "ready" =>
    IsPrefix(data[f], sent[f]) /\ Records(data[f]) = Records(sent[f])

(***************************************************************************)
(* An import fails for a reason: when the plugin kept to the protocol, the *)
(* result of parse arrived, no batch was dropped in the fan-out and nobody *)
(* discarded the file, it does not fail - the batches still queued when    *)
(* parse returns are not forgotten (host_bridge.rs:137-145).               *)
(***************************************************************************)
FailsForAReason ==
  [][\A f \in Files : pc'[f] = "failed" /\ pc[f] # "failed" =>
       ~honest \/ call[f] = "error" \/ f \in lost \/ f \in discarded]_vars

\* Every parse that was started gets its verdict.
ParseEnds == \A f \in Files : pc[f] = "parsing" ~> pc[f] \in {"ready", "failed"}

(***************************************************************************)
(* The stream keeps StreamPromise: the store takes what the sequence check *)
(* passed, in order, without a gap and nothing of another file, and no     *)
(* late batch changes a file after its verdict.                            *)
(***************************************************************************)
Status ==
  [f \in Files |-> IF Parsing(f) THEN "open" ELSE pc[f]]

Promise == INSTANCE StreamPromise WITH Batches <- Batch, sent <- accepted, status <- Status
KeepsOrder == Promise!Spec

-----------------------------------------------------------------------------
(* The inductive invariant behind KeepsOrder. *)

\* A file nobody has asked to parse has left no trace.
NewInv ==
  /\ \A f \in Files : pc[f] = "new" => accepted[f] = <<>> /\ data[f] = <<>> /\ f \notin asked
  /\ \A i \in DOMAIN wire : pc[wire[i].file] # "new"

\* One parse at a time, with the forward task as far as it is.
TurnInv ==
  /\ \A f, g \in Files : Parsing(f) /\ Parsing(g) => f = g
  /\ forward \in {"off", "done"} => held = <<>>
  /\ \A f \in Files : pc[f] = "joining" => forward = "done"
  /\ forward \in {"select", "drain"} => \E f \in Files : pc[f] = "parsing"

\* What the sink is to get belongs to the parse.
OwnInv ==
  /\ \A i \in DOMAIN held : Parsing(held[i].file)
  /\ \A i \in DOMAIN sink : Parsing(sink[i].file)

Passed(b) ==
  b.kind = "batch" =>
    b.seq < Len(accepted[b.file]) /\ accepted[b.file][b.seq + 1] = b

\* Behind the sequence check, a batch's number says which one it is.
PassedInv ==
  /\ \A i \in DOMAIN fan : Passed(fan[i])
  /\ \A i \in DOMAIN held : Passed(held[i])
  /\ \A i \in DOMAIN sink : Passed(sink[i])

IInv == TypeOK /\ NewInv /\ TurnInv /\ OwnInv /\ PassedInv

(***************************************************************************)
(* What ReadyIsComplete rests on besides.                                  *)
(***************************************************************************)
Begins(s, t) == Len(s) <= Len(t) /\ \A i \in 1 .. Len(s) : s[i] = t[i]

\* The Store has what the sequence check passed, and has counted it.
StoredInv ==
  \A f \in Files : Begins(data[f], accepted[f]) /\ received[f] = Records(data[f])

\* While the plugin keeps to the protocol the sequence check passes what it sent,
\* and an answer is its last word on the file and has the right total.
Faithful(fr, batches, open) ==
  /\ fr.kind = "batch" => fr.seq < Len(batches[fr.file]) /\ batches[fr.file][fr.seq + 1] = fr
  /\ fr.kind = "result" => fr.file \notin open /\ fr.size = Records(batches[fr.file])

Counted(f) ==
  /\ Begins(accepted[f], sent[f])
  /\ call[f] = "result" => f \notin asked /\ total[f] = Records(sent[f])
  /\ pc[f] = "ready" => f \notin asked /\ Records(data[f]) = Records(sent[f])

HonestInv ==
  honest => /\ \A i \in DOMAIN wire : Faithful(wire[i], sent, asked)
            /\ \A f \in Files : Counted(f)

CountInv == StoredInv /\ HonestInv

(***************************************************************************)
(* What FailsForAReason rests on besides.                                  *)
(***************************************************************************)
\* A file's batches are numbered from 0 on, and nothing is sent for a file or
\* held against it before its parse.
Numbered(f, s) == \A k \in 1 .. Len(s) : s[k].file = f /\ s[k].seq = k - 1

NumberInv ==
  /\ \A f \in Files : Numbered(f, sent[f]) /\ Numbered(f, accepted[f])
  /\ \A f \in Files : pc[f] = "new" => sent[f] = <<>>
  /\ \A f \in failure : Parsing(f)

\* On the way to the store no batch overtakes another.
Ahead(b, c) == b.kind = "batch" /\ c.kind = "batch" /\ b.file = c.file => b.seq < c.seq
Rising(q)    == \A i, j \in DOMAIN q : i < j => Ahead(q[i], q[j])
Before(p, q) == \A i \in DOMAIN p, j \in DOMAIN q : Ahead(p[i], q[j])
Awaits(q, batches) ==
  \A i \in DOMAIN q : q[i].kind = "batch" => q[i].seq >= Len(batches[q[i].file])

OrderInv ==
  /\ Rising(sink) /\ Rising(fan)
  /\ Before(sink, held) /\ Before(sink, fan) /\ Before(held, fan)
  /\ Awaits(sink, data) /\ Awaits(held, data) /\ Awaits(fan, data)

\* The forward task ends after its parse call, with nothing left.
CalledInv ==
  /\ forward \in {"off", "done"} => fan = <<>>
  /\ \A f \in Files : Parsing(f) =>
       /\ forward # "off"
       /\ forward \in {"drain", "done"} => call[f] \in {"result", "error"}
  /\ \A f \in Files : call[f] = "waiting" => Parsing(f)

\* What an honest plugin has sent for a file is on the wire until it is passed,
\* and its answer follows its batches.
In(b, q) == \E i \in DOMAIN q : q[i] = b
NoBatch(f, q) == \A i \in DOMAIN q : q[i].kind = "batch" => q[i].file # f

WireInv ==
  honest =>
    /\ pump = "reading" =>
         \A f \in Files : \A k \in Len(accepted[f]) + 1 .. Len(sent[f]) : In(sent[f][k], wire)
    /\ \A i, j \in DOMAIN wire :
         i < j /\ wire[i].kind = "result" /\ wire[j].kind = "batch" => wire[i].file # wire[j].file
    /\ \A f \in Files : call[f] = "result" =>
         NoBatch(f, wire) /\ Len(accepted[f]) = Len(sent[f])

\* What was passed for a file and is not in the store yet is queued.
Whole(f) ==
  /\ f \notin failure
  /\ \A k \in Len(data[f]) + 1 .. Len(accepted[f]) :
       In(accepted[f][k], sink) \/ In(accepted[f][k], held) \/ In(accepted[f][k], fan)

WholeInv ==
  honest => \A f \in Files :
    Parsing(f) /\ call[f] # "error" /\ f \notin lost \cup discarded => Whole(f)

ReasonInv == NumberInv /\ OrderInv /\ CalledInv /\ WireInv /\ WholeInv
=====
