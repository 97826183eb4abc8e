-------------------------- MODULE ParseStreamProofs --------------------------
(***************************************************************************)
(* ParseStream keeps StreamPromise, for all files, batches and capacities: *)
(* the store takes what the sequence check passed, in order and without a  *)
(* gap.  First the inductive invariant, one step per action, then the      *)
(* refinement; then that a ready file holds every record a truthful plugin *)
(* sent, and that an import fails only for a reason.                       *)
(***************************************************************************)
EXTENDS ParseStream, SumLemmas, TLAPS

\* What the first element and the rest of a queue are.
LEMMA TailFacts ==
  ASSUME NEW S, NEW s \in Seq(S), s # <<>>
  PROVE  /\ Head(s) \in S /\ Head(s) = s[1] /\ 1 \in DOMAIN s
         /\ Tail(s) \in Seq(S) /\ Len(Tail(s)) = Len(s) - 1
         /\ \A i \in DOMAIN Tail(s) : i + 1 \in DOMAIN s /\ Tail(s)[i] = s[i + 1]
  OBVIOUS

\* What a queue holds after an element was appended.
LEMMA AppendFacts ==
  ASSUME NEW S, NEW s \in Seq(S), NEW x \in S
  PROVE  /\ Append(s, x) \in Seq(S) /\ Len(Append(s, x)) = Len(s) + 1
         /\ Append(s, x)[Len(s) + 1] = x
         /\ \A i \in DOMAIN s : i \in DOMAIN Append(s, x) /\ Append(s, x)[i] = s[i]
         /\ \A i \in DOMAIN Append(s, x) : i \in DOMAIN s \/ i = Len(s) + 1
  OBVIOUS

Wire == Seq(Batch \cup Progress \cup Answer)

\* Every frame in the pipe names a file, and by its kind it is a batch.
LEMMA FrameFacts ==
  ASSUME NEW x \in Batch \cup Progress \cup Answer
  PROVE  /\ x.file \in Files
         /\ x.kind = "batch" => x \in Batch /\ x.seq \in Nat /\ x.size \in Sizes
         /\ x.kind = "progress" => x \in Progress
         /\ x.kind \in {"result", "error"} => x.size \in Nat
  BY StreamAssumption DEF Batch, Progress, Answer

\* The initial states.
THEOREM InitIInv == Init => IInv
<1> SUFFICES ASSUME Init PROVE IInv
  OBVIOUS
<1>1. TypeOK
  BY CapsAssumption DEF Init, TypeOK, Queue
<1>2. NewInv /\ TurnInv /\ OwnInv /\ PassedInv
  BY DEF Init, NewInv, TurnInv, OwnInv, PassedInv, Parsing
<1>3. QED
  BY <1>1, <1>2 DEF IInv

\* A frame of f has been put into the pipe, and f is known.
Grows(f) ==
  \E fr \in Batch \cup Progress \cup Answer :
    fr.file = f /\ wire' = Append(wire, fr) /\ pc[f] # "new"

\* The plugin appends to the pipe, for files it was asked to parse.
LEMMA PluginStep ==
  ASSUME IInv, Plugin
  PROVE  IInv'
<1>1. UNCHANGED <<hostVars, fan, callVars, forward, held, sink, pc, engineVars>>
  BY DEF Plugin
<1>2. PICK f \in Files :
        \/ \E n \in Sizes : EmitBatch(f, n) \/ \E i \in 0 .. MaxBatches[f] : EmitBad(f, i, n)
        \/ EmitProgress(f) \/ AnswerError(f)
        \/ \E n \in Totals(f) : AnswerResult(f, n)
  BY DEF Plugin
<1>3. Grows(f) /\ sent' \in [Files -> Seq(Batch)]
  <2>1. ASSUME NEW n \in Sizes, EmitBatch(f, n)
        PROVE  Grows(f) /\ sent' \in [Files -> Seq(Batch)]
    <3>1. Len(sent[f]) \in 0 .. MaxBatches[f]
      <4>1. Len(sent[f]) < MaxBatches[f] /\ MaxBatches[f] \in Nat
        BY <2>1, StreamAssumption DEF EmitBatch
      <4>2. Len(sent[f]) \in Nat
        BY DEF IInv, TypeOK
      <4>3. QED
        BY <4>1, <4>2
    <3>2. Frame("batch", f, Len(sent[f]), n) \in Batch
      BY <3>1 DEF Batch, Frame
    <3>3. sent' = [sent EXCEPT ![f] = Append(@, Frame("batch", f, Len(sent[f]), n))]
      BY <2>1 DEF EmitBatch
    <3>4. Grows(f)
      BY <2>1, <3>2 DEF EmitBatch, Write, Frame, Grows
    <3>5. QED
      BY <3>2, <3>3, <3>4, AppendFacts DEF IInv, TypeOK
  <2>2. ASSUME NEW n \in Sizes, NEW i \in 0 .. MaxBatches[f], EmitBad(f, i, n)
        PROVE  Grows(f)
    <3>1. Frame("batch", f, i, n) \in Batch
      BY DEF Batch, Frame
    <3>2. QED
      BY <2>2, <3>1 DEF EmitBad, Write, Frame, Grows, IInv, NewInv
  <2>3. ASSUME EmitProgress(f) PROVE Grows(f)
    <3>1. Frame("progress", f, 0, 0) \in Progress
      BY DEF Progress, Frame
    <3>2. QED
      BY <2>3, <3>1 DEF EmitProgress, Write, Frame, Grows, IInv, NewInv
  <2>4. ASSUME NEW n \in Nat, NEW k \in {"result", "error"}, f \in asked,
               Write(Frame(k, f, 0, n))
        PROVE  Grows(f)
    <3>1. Frame(k, f, 0, n) \in Answer
      BY DEF Answer, Frame
    <3>2. QED
      BY <2>4, <3>1 DEF Write, Frame, Grows, IInv, NewInv
  <2>5. QED
    BY <1>2, <2>1, <2>2, <2>3, <2>4
       DEF EmitBad, EmitProgress, AnswerError, AnswerResult, Totals, IInv, TypeOK
<1>4. wire' \in Wire /\ \A i \in DOMAIN wire' : pc[wire'[i].file] # "new"
  <2>1. PICK fr \in Batch \cup Progress \cup Answer :
          fr.file = f /\ wire' = Append(wire, fr) /\ pc[f] # "new"
    BY <1>3 DEF Grows
  <2>2. wire \in Wire /\ \A i \in DOMAIN wire : pc[wire[i].file] # "new"
    BY DEF IInv, TypeOK, NewInv, Wire
  <2>3. QED
    BY <2>1, <2>2, AppendFacts DEF Wire
<1>5. beats' \in [Files -> Nat] /\ asked' \subseteq asked
  <2>1. \/ beats' = beats \/ beats' = [beats EXCEPT ![f] = @ + 1]
    BY <1>2 DEF EmitBatch, EmitBad, EmitProgress, AnswerError, AnswerResult
  <2>2. asked' = asked \/ asked' = asked \ {f}
    BY <1>2 DEF EmitBatch, EmitBad, EmitProgress, AnswerError, AnswerResult
  <2>3. beats \in [Files -> Nat] /\ asked \subseteq Files
    BY DEF IInv, TypeOK
  <2>4. beats' \in [Files -> Nat]
    BY <2>1, <2>3
  <2>5. QED
    BY <2>2, <2>3, <2>4
<1>6. honest' \in BOOLEAN
  <2>1. honest \in BOOLEAN
    BY DEF IInv, TypeOK
  <2>2. QED
    BY <1>2, <2>1, Zenon
       DEF EmitBatch, EmitBad, EmitProgress, AnswerError, AnswerResult
<1>7. QED
  BY <1>1, <1>3, <1>4, <1>5, <1>6
     DEF IInv, TypeOK, NewInv, TurnInv, OwnInv, PassedInv, Passed, Parsing, Wire,
         hostVars, callVars, engineVars

\* What FanOut does with a frame that was passed on.
LEMMA FanOutFacts ==
  ASSUME IInv, NEW fr \in Batch \cup Progress, FanOut(fr)
  PROVE  /\ fan' \in Queue /\ Len(fan') <= FanCap
         /\ lost' \subseteq Files
         /\ \A i \in DOMAIN fan' : (i \in DOMAIN fan /\ fan'[i] = fan[i]) \/ fan'[i] = fr
<1>1. fan \in Seq(Batch \cup Progress) /\ Len(fan) <= FanCap /\ lost \subseteq Files
  BY DEF IInv, TypeOK, Queue
<1>2. fr.file \in Files
  BY FrameFacts
<1>3. \/ UNCHANGED fan
      \/ fan' = Append(fan, fr) /\ Len(fan) < FanCap
  BY DEF FanOut
<1>4. lost' \subseteq Files
  BY <1>1, <1>2 DEF FanOut
<1>5. CASE UNCHANGED fan
  BY <1>1, <1>4, <1>5 DEF Queue
<1>6. CASE fan' = Append(fan, fr) /\ Len(fan) < FanCap
  BY <1>1, <1>4, <1>6, AppendFacts, CapsAssumption DEF Queue
<1>7. QED
  BY <1>3, <1>5, <1>6

\* The head of the pipe and what remains of it.
LEMMA WireFacts ==
  ASSUME IInv, wire # <<>>
  PROVE  /\ Head(wire) \in Batch \cup Progress \cup Answer
         /\ Head(wire).file \in Files /\ pc[Head(wire).file] # "new"
         /\ Tail(wire) \in Wire
         /\ \A i \in DOMAIN Tail(wire) : pc[Tail(wire)[i].file] # "new"
<1>1. wire \in Wire /\ \A i \in DOMAIN wire : pc[wire[i].file] # "new"
  BY DEF IInv, TypeOK, NewInv, Wire
<1>2. QED
  BY <1>1, TailFacts, FrameFacts DEF Wire

\* acc has let b pass: its number says which one it is.
Fits(acc, b) ==
  b.kind = "batch" => b.seq < Len(acc[b.file]) /\ acc[b.file][b.seq + 1] = b

\* What is queued behind the sequence check, and has passed it.
LEMMA QueueFacts ==
  ASSUME IInv
  PROVE  /\ \A i \in DOMAIN fan : fan[i] \in Batch \cup Progress /\ Fits(accepted, fan[i])
         /\ \A i \in DOMAIN held : held[i] \in Batch \cup Progress /\ Fits(accepted, held[i])
         /\ \A i \in DOMAIN sink : sink[i] \in Batch \cup Progress /\ Fits(accepted, sink[i])
  BY DEF IInv, TypeOK, PassedInv, Passed, Fits, Queue

\* A batch the sequence check passes is the next of its file.
LEMMA AcceptStep ==
  ASSUME IInv, ReadBatch, pump' = pump
  PROVE  IInv'
<1>1. PICK fr :
        /\ wire # <<>> /\ fr = Head(wire)
        /\ fr.kind = "batch" /\ fr.seq = Len(accepted[fr.file])
        /\ accepted' = [accepted EXCEPT ![fr.file] = Append(@, fr)]
        /\ FanOut(fr) /\ wire' = Tail(wire) /\ asked' = asked
  BY DEF ReadBatch, IInv, TypeOK
<1>2. UNCHANGED <<sent, beats, honest, callVars, forward, held, sink, pc, engineVars>>
  BY DEF ReadBatch
<1>3. /\ fr \in Batch /\ fr.file \in Files /\ pc[fr.file] # "new"
      /\ wire' \in Wire /\ \A i \in DOMAIN wire' : pc[wire'[i].file] # "new"
  BY <1>1, WireFacts, FrameFacts
<1>4. /\ fan' \in Queue /\ Len(fan') <= FanCap /\ lost' \subseteq Files
      /\ \A i \in DOMAIN fan' : (i \in DOMAIN fan /\ fan'[i] = fan[i]) \/ fan'[i] = fr
  BY <1>1, <1>3, FanOutFacts
<1>5. accepted \in [Files -> Seq(Batch)] /\ accepted[fr.file] \in Seq(Batch)
  BY <1>3 DEF IInv, TypeOK
<1>6. accepted' \in [Files -> Seq(Batch)]
  BY <1>1, <1>3, <1>5, AppendFacts
<1>7. Fits(accepted', fr)
  BY <1>1, <1>3, <1>5, AppendFacts DEF Fits
<1>8. ASSUME NEW x \in Batch \cup Progress, Fits(accepted, x) PROVE Fits(accepted', x)
  <2>1. CASE x.kind = "batch" /\ x.file = fr.file
    <3>1. /\ x.seq \in Nat /\ x.seq < Len(accepted[fr.file])
          /\ accepted[fr.file][x.seq + 1] = x
      BY <1>8, <2>1, FrameFacts DEF Fits
    <3>2. x.seq + 1 \in DOMAIN accepted[fr.file]
      BY <1>5, <3>1
    <3>3. /\ accepted'[fr.file] = Append(accepted[fr.file], fr)
          /\ Len(accepted'[fr.file]) = Len(accepted[fr.file]) + 1
          /\ accepted'[fr.file][x.seq + 1] = x
      BY <1>1, <1>3, <1>5, <3>1, <3>2, AppendFacts
    <3>4. QED
      BY <1>5, <2>1, <3>1, <3>3 DEF Fits
  <2>2. CASE x.kind = "batch" /\ x.file # fr.file
    <3>1. x.file \in Files
      BY FrameFacts
    <3>2. QED
      BY <1>1, <1>5, <1>8, <2>2, <3>1 DEF Fits
  <2>3. QED
    BY <2>1, <2>2 DEF Fits
<1>9. PassedInv'
  <2>1. held' = held /\ sink' = sink
    BY <1>2
  <2>2. \A i \in DOMAIN held : Fits(accepted', held[i])
    BY <1>8, QueueFacts
  <2>3. \A i \in DOMAIN sink : Fits(accepted', sink[i])
    BY <1>8, QueueFacts
  <2>4. \A i \in DOMAIN fan' : Fits(accepted', fan'[i])
    BY <1>4, <1>7, <1>8, QueueFacts
  <2>5. QED
    BY <2>1, <2>2, <2>3, <2>4 DEF PassedInv, Passed, Fits
<1>10. NewInv'
  BY <1>1, <1>3, <1>5, <1>2 DEF IInv, NewInv, TypeOK, engineVars
<1>11. QED
  BY <1>1, <1>2, <1>3, <1>4, <1>6, <1>9, <1>10
     DEF IInv, TypeOK, TurnInv, OwnInv, Parsing, Wire, callVars, engineVars

\* A batch out of turn ends the pump.
LEMMA RejectStep ==
  ASSUME IInv, ReadBatch, pump' # pump
  PROVE  IInv'
<1>1. /\ pump' = "stopped" /\ wire' = <<>> /\ asked' = {}
      /\ UNCHANGED <<accepted, fan, lost>>
      /\ UNCHANGED <<sent, beats, honest, callVars, forward, held, sink, pc, engineVars>>
  BY DEF ReadBatch
<1>2. QED
  BY <1>1
     DEF IInv, TypeOK, NewInv, TurnInv, OwnInv, PassedInv, Passed, Parsing,
         callVars, engineVars

\* A progress report goes the way of the batches.
LEMMA ProgressStep ==
  ASSUME IInv, ReadProgress
  PROVE  IInv'
<1>1. PICK fr :
        /\ wire # <<>> /\ fr = Head(wire) /\ fr.kind = "progress"
        /\ FanOut(fr) /\ wire' = Tail(wire)
  BY DEF ReadProgress, Read
<1>2. UNCHANGED <<pluginVars, pump, accepted, callVars, forward, held, sink, pc, engineVars>>
  BY DEF ReadProgress
<1>3. /\ fr \in Progress
      /\ wire' \in Wire /\ \A i \in DOMAIN wire' : pc[wire'[i].file] # "new"
  BY <1>1, WireFacts, FrameFacts
<1>4. /\ fan' \in Queue /\ Len(fan') <= FanCap /\ lost' \subseteq Files
      /\ \A i \in DOMAIN fan' : (i \in DOMAIN fan /\ fan'[i] = fan[i]) \/ fan'[i] = fr
  BY <1>1, <1>3, FanOutFacts
<1>5. \A i \in DOMAIN fan' : Fits(accepted, fan'[i])
  BY <1>1, <1>4, QueueFacts DEF Fits
<1>6. QED
  BY <1>2, <1>3, <1>4, <1>5
     DEF IInv, TypeOK, NewInv, TurnInv, OwnInv, PassedInv, Passed, Fits, Parsing, Wire,
         pluginVars, callVars, engineVars

\* A response settles the call of its file, or is dropped.
LEMMA AnswerStep ==
  ASSUME IInv, ReadAnswer
  PROVE  IInv'
<1>1. PICK fr :
        /\ wire # <<>> /\ fr = Head(wire) /\ fr.kind \in {"result", "error"}
        /\ wire' = Tail(wire)
        /\ IF call[fr.file] = "waiting"
           THEN /\ call' = [call EXCEPT ![fr.file] = fr.kind]
                /\ total' = [total EXCEPT ![fr.file] = fr.size]
           ELSE UNCHANGED callVars
  BY DEF ReadAnswer, Read
<1>2. /\ pump' = pump
      /\ UNCHANGED <<pluginVars, hostVars, fan, forward, held, sink, pc, engineVars>>
  BY DEF ReadAnswer, hostVars
<1>3. /\ fr.size \in Nat
      /\ wire' \in Wire /\ \A i \in DOMAIN wire' : pc[wire'[i].file] # "new"
  BY <1>1, WireFacts, FrameFacts
<1>4. /\ call' \in [Files -> {"none", "waiting", "result", "error"}]
      /\ total' \in [Files -> Nat]
  BY <1>1, <1>3 DEF IInv, TypeOK, callVars
<1>5. QED
  BY <1>2, <1>3, <1>4
     DEF IInv, TypeOK, NewInv, TurnInv, OwnInv, PassedInv, Passed, Parsing, Wire,
         pluginVars, hostVars, engineVars

\* The forward task takes a notification of the parse, or skips one of another.
LEMMA ForwardStep ==
  ASSUME IInv, Forward
  PROVE  IInv'
<1>1. /\ forward \in {"select", "drain"} /\ fan # <<>> /\ fan' = Tail(fan)
      /\ held' = IF Parsing(fan[1].file) THEN <<fan[1]>> ELSE <<>>
  <2>1. fan # <<>> => Head(fan) = fan[1]
    BY TailFacts DEF IInv, TypeOK, Queue
  <2>2. QED
    BY <2>1 DEF Forward, Take
<1>2. UNCHANGED <<pluginVars, wire, hostVars, callVars, forward, sink, pc, engineVars>>
  BY DEF Forward
<1>3. fan \in Queue /\ Len(fan) <= FanCap
  BY DEF IInv, TypeOK
<1>4. fan' \in Queue /\ Len(fan') <= FanCap /\ 1 \in DOMAIN fan
  BY <1>1, <1>3, TailFacts, CapsAssumption DEF Queue
<1>5. \A i \in DOMAIN fan' : Fits(accepted, fan'[i])
  BY <1>1, <1>3, TailFacts, QueueFacts DEF Queue
<1>6. /\ held' \in Queue /\ Len(held') <= 1
      /\ \A i \in DOMAIN held' : Parsing(held'[i].file) /\ Fits(accepted, held'[i])
  <2>1. fan[1] \in Batch \cup Progress /\ Fits(accepted, fan[1])
    BY <1>4, QueueFacts
  <2>2. CASE Parsing(fan[1].file)
    BY <1>1, <2>1, <2>2 DEF Queue
  <2>3. CASE ~Parsing(fan[1].file)
    BY <1>1, <2>3 DEF Queue
  <2>4. QED
    BY <2>2, <2>3
<1>7. TypeOK'
  BY <1>2, <1>4, <1>6 DEF IInv, TypeOK, pluginVars, hostVars, callVars, engineVars
<1>8. NewInv' /\ TurnInv'
  BY <1>1, <1>2 DEF IInv, NewInv, TurnInv, Parsing, pluginVars, hostVars, engineVars
<1>9. OwnInv' /\ PassedInv'
  BY <1>2, <1>5, <1>6 DEF IInv, OwnInv, PassedInv, Passed, Fits, Parsing, hostVars
<1>10. QED
  BY <1>7, <1>8, <1>9 DEF IInv

\* What the forward task holds goes into the sink.
LEMMA SinkStep ==
  ASSUME IInv, SendToSink
  PROVE  IInv'
<1>1. held # <<>> /\ Len(sink) < SinkCap /\ held' = <<>> /\ sink' = Append(sink, held[1])
  <2>1. held # <<>> => Head(held) = held[1]
    BY TailFacts DEF IInv, TypeOK, Queue
  <2>2. QED
    BY <2>1 DEF SendToSink
<1>2. UNCHANGED <<pluginVars, wire, hostVars, fan, callVars, forward, pc, engineVars>>
  BY DEF SendToSink
<1>3. /\ held \in Queue /\ sink \in Queue /\ 1 \in DOMAIN held
      /\ \A i \in DOMAIN held : Parsing(held[i].file)
      /\ \A i \in DOMAIN sink : Parsing(sink[i].file)
  BY <1>1, TailFacts DEF IInv, TypeOK, OwnInv, Queue
<1>4. /\ held[1] \in Batch \cup Progress /\ Parsing(held[1].file)
      /\ Fits(accepted, held[1])
  BY <1>3, QueueFacts
<1>5. sink' \in Queue /\ Len(sink') <= SinkCap
  BY <1>1, <1>3, <1>4, AppendFacts, CapsAssumption DEF Queue
<1>6. \A i \in DOMAIN sink' : Parsing(sink'[i].file) /\ Fits(accepted, sink'[i])
  BY <1>1, <1>3, <1>4, AppendFacts, QueueFacts DEF Queue
<1>7. QED
  <2>1. TypeOK'
    BY <1>1, <1>2, <1>5
       DEF IInv, TypeOK, Queue, pluginVars, hostVars, callVars, engineVars
  <2>2. NewInv' /\ TurnInv'
    BY <1>1, <1>2 DEF IInv, NewInv, TurnInv, Parsing, pluginVars, hostVars, engineVars
  <2>3. OwnInv' /\ PassedInv'
    BY <1>1, <1>2, <1>6 DEF IInv, OwnInv, PassedInv, Passed, Fits, Parsing, hostVars
  <2>4. QED
    BY <2>1, <2>2, <2>3 DEF IInv

\* The forward task sees the end of parse, and ends when nothing is left.
LEMMA DoneStep ==
  ASSUME IInv, SeeDone \/ ForwardEnds
  PROVE  IInv'
<1>1. UNCHANGED <<pluginVars, wire, hostVars, fan, callVars, held, sink, pc, engineVars>>
  BY DEF SeeDone, ForwardEnds
<1>2. \/ forward = "select" /\ forward' = "drain"
      \/ forward = "drain" /\ forward' = "done" /\ held = <<>>
  BY DEF SeeDone, ForwardEnds
<1>3. QED
  BY <1>1, <1>2
     DEF IInv, TypeOK, NewInv, TurnInv, OwnInv, PassedInv, Passed, Parsing,
         pluginVars, hostVars, callVars, engineVars

\* A parse starts when no other runs: the queues before the engine are empty.
LEMMA StartStep ==
  ASSUME IInv, NEW f \in Files, StartParse(f)
  PROVE  IInv' /\ accepted' = accepted
<1>1. /\ pc[f] = "new" /\ \A g \in Files : ~Parsing(g)
      /\ pc' = [pc EXCEPT ![f] = "parsing"] /\ forward' = "select"
      /\ accepted' = [accepted EXCEPT ![f] = <<>>]
      /\ call' = [call EXCEPT ![f] = "waiting"] /\ asked' = asked \cup {f}
      /\ UNCHANGED <<sent, beats, honest, wire, pump, fan, lost, total, held, sink, engineVars>>
  BY DEF StartParse, Goto
<1>2. accepted' = accepted
  BY <1>1 DEF IInv, TypeOK, NewInv
<1>3. held = <<>>
  BY <1>1 DEF IInv, TypeOK, TurnInv, Parsing
<1>4. ASSUME NEW i \in DOMAIN sink PROVE FALSE
  <2>1. sink[i].file \in Files
    BY <1>4, QueueFacts, FrameFacts
  <2>2. QED
    BY <1>1, <1>4, <2>1 DEF IInv, OwnInv
<1>5. TypeOK'
  BY <1>1, <1>2 DEF IInv, TypeOK, engineVars
<1>6. NewInv'
  BY <1>1, <1>2 DEF IInv, TypeOK, NewInv, engineVars
<1>7. TurnInv'
  BY <1>1 DEF IInv, TypeOK, TurnInv, Parsing
<1>8. OwnInv' /\ PassedInv'
  BY <1>1, <1>2, <1>3, <1>4 DEF IInv, OwnInv, PassedInv, Passed
<1>9. QED
  BY <1>2, <1>5, <1>6, <1>7, <1>8 DEF IInv

\* A call that fails touches nothing but itself.
LEMMA CallFailsStep ==
  ASSUME IInv, NEW f \in Files, CallFails(f)
  PROVE  IInv'
  BY DEF CallFails, IInv, TypeOK, NewInv, TurnInv, OwnInv, PassedInv, Passed, Parsing,
         pluginVars, hostVars, engineVars

\* What the sink task takes is of its own file, and the one its number says.
LEMMA TakenFacts ==
  ASSUME IInv, NEW f \in Files, Parsing(f), sink # <<>>, Head(sink).kind = "batch"
  PROVE  /\ Head(sink) \in Batch /\ Head(sink).file = f /\ Head(sink).seq \in Nat
         /\ Head(sink).size \in Nat /\ Head(sink).seq < Len(accepted[f])
         /\ accepted[f][Head(sink).seq + 1] = Head(sink)
<1>1. Head(sink) = sink[1] /\ 1 \in DOMAIN sink /\ Head(sink) \in Batch \cup Progress
  BY TailFacts DEF IInv, TypeOK, Queue
<1>2. /\ Head(sink) \in Batch /\ Head(sink).file \in Files
      /\ Head(sink).seq \in Nat /\ Head(sink).size \in Nat
  BY <1>1, FrameFacts, SizesAssumption
<1>3. Head(sink).file = f
  BY <1>1, <1>2 DEF IInv, OwnInv, TurnInv
<1>4. Fits(accepted, Head(sink))
  BY <1>1, QueueFacts
<1>5. QED
  BY <1>2, <1>3, <1>4 DEF Fits

\* The sink task keeps a batch, or notes an error.
LEMMA SinkTakesStep ==
  ASSUME IInv, NEW f \in Files, SinkTakes(f)
  PROVE  IInv'
<1>1. /\ Parsing(f) /\ sink # <<>> /\ sink' = Tail(sink)
      /\ UNCHANGED <<pluginVars, wire, hostVars, fan, callVars, forward, held, pc, discarded>>
  BY DEF SinkTakes
<1>2. /\ data \in [Files -> Seq(Batch)] /\ received \in [Files -> Nat]
      /\ failure \subseteq Files /\ sink \in Queue /\ Len(sink) <= SinkCap
  BY DEF IInv, TypeOK
<1>3. /\ data' \in [Files -> Seq(Batch)] /\ received' \in [Files -> Nat]
      /\ failure' \subseteq Files
      /\ \A g \in Files : g # f => data'[g] = data[g]
  <2>1. CASE Head(sink).kind = "batch"
    <3>1. Head(sink) \in Batch /\ Head(sink).size \in Nat
      BY <1>1, <2>1, TakenFacts
    <3>2. AppendBatch(f, Head(sink))
      BY <2>1 DEF SinkTakes
    <3>3. CASE UNCHANGED <<data, received>>
      BY <1>2, <3>2, <3>3 DEF AppendBatch
    <3>4. CASE /\ data' = [data EXCEPT ![f] = Append(@, Head(sink))]
               /\ received' = [received EXCEPT ![f] = @ + Head(sink).size]
               /\ UNCHANGED failure
      BY <1>2, <3>1, <3>4, AppendFacts
    <3>5. QED
      BY <3>2, <3>3, <3>4 DEF AppendBatch
  <2>2. CASE Head(sink).kind # "batch"
    BY <1>2, <2>2 DEF SinkTakes
  <2>3. QED
    BY <2>1, <2>2
<1>4. /\ sink' \in Queue /\ Len(sink') <= SinkCap
      /\ \A i \in DOMAIN sink' : i + 1 \in DOMAIN sink /\ sink'[i] = sink[i + 1]
  BY <1>1, <1>2, TailFacts, CapsAssumption DEF Queue
<1>5. TypeOK'
  BY <1>1, <1>3, <1>4 DEF IInv, TypeOK, pluginVars, hostVars, callVars
<1>6. NewInv' /\ TurnInv'
  BY <1>1, <1>3 DEF IInv, NewInv, TurnInv, Parsing, pluginVars, hostVars
<1>7. OwnInv' /\ PassedInv'
  <2>1. \A i \in DOMAIN sink' : Parsing(sink'[i].file) /\ Fits(accepted, sink'[i])
    BY <1>4, QueueFacts DEF IInv, OwnInv
  <2>2. QED
    BY <1>1, <2>1 DEF IInv, OwnInv, PassedInv, Passed, Fits, Parsing, hostVars
<1>8. QED
  BY <1>5, <1>6, <1>7 DEF IInv

\* parse_stream returns.
LEMMA ReturnStep ==
  ASSUME IInv, NEW f \in Files, ParseReturns(f)
  PROVE  IInv'
<1>1. /\ pc[f] = "parsing" /\ forward = "done" /\ pc' = [pc EXCEPT ![f] = "joining"]
      /\ UNCHANGED <<pluginVars, wire, hostVars, fan, callVars, forward, held, sink, engineVars>>
  BY DEF ParseReturns, Goto
<1>2. \A g \in Files : /\ Parsing(g)' <=> Parsing(g)
                       /\ pc'[g] = "new" <=> pc[g] = "new"
  BY <1>1 DEF IInv, TypeOK, Parsing
<1>3. \A i \in DOMAIN wire : wire[i].file \in Files
  BY FrameFacts DEF IInv, TypeOK
<1>4. /\ \A i \in DOMAIN held : held[i].file \in Files
      /\ \A i \in DOMAIN sink : sink[i].file \in Files
  BY QueueFacts, FrameFacts
<1>5. TypeOK'
  BY <1>1 DEF IInv, TypeOK, pluginVars, hostVars, callVars, engineVars
<1>6. NewInv'
  BY <1>1, <1>2, <1>3 DEF IInv, NewInv, pluginVars, hostVars, engineVars
<1>7. TurnInv'
  BY <1>1, <1>2 DEF IInv, TypeOK, TurnInv
<1>8. OwnInv' /\ PassedInv'
  BY <1>1, <1>2, <1>4 DEF IInv, OwnInv, PassedInv, Passed, Parsing, hostVars
<1>9. QED
  BY <1>5, <1>6, <1>7, <1>8 DEF IInv

\* With the verdict the parse is over; nothing of it is queued before the engine.
LEMMA VerdictStep ==
  ASSUME IInv, NEW f \in Files, Verdict(f)
  PROVE  IInv'
<1>1. /\ pc[f] = "joining" /\ sink = <<>> /\ failure' = {}
      /\ call' = [call EXCEPT ![f] = "none"] /\ total' = [total EXCEPT ![f] = 0]
      /\ \/ pc' = [pc EXCEPT ![f] = "ready"] /\ UNCHANGED <<data, received>>
         \/ pc' = [pc EXCEPT ![f] = "failed"] /\ Drop(f)
      /\ UNCHANGED <<pluginVars, wire, hostVars, fan, forward, held, sink, discarded>>
  BY DEF Verdict, Goto
<1>2. forward = "done" /\ held = <<>>
  BY <1>1 DEF IInv, TurnInv
<1>3. /\ data' \in [Files -> Seq(Batch)] /\ received' \in [Files -> Nat]
      /\ pc' \in [Files -> {"new", "parsing", "joining", "ready", "failed"}]
      /\ \A g \in Files : g # f => pc'[g] = pc[g] /\ data'[g] = data[g]
      /\ pc'[f] \in {"ready", "failed"}
  <2>1. /\ data \in [Files -> Seq(Batch)] /\ received \in [Files -> Nat]
        /\ pc \in [Files -> {"new", "parsing", "joining", "ready", "failed"}]
        /\ <<>> \in Seq(Batch)
    BY DEF IInv, TypeOK
  <2>2. CASE pc' = [pc EXCEPT ![f] = "ready"] /\ UNCHANGED <<data, received>>
    BY <2>1, <2>2
  <2>3. CASE pc' = [pc EXCEPT ![f] = "failed"] /\ Drop(f)
    BY <2>1, <2>3 DEF Drop
  <2>4. QED
    BY <1>1, <2>2, <2>3
<1>4. TypeOK'
  <2>1. /\ call' \in [Files -> {"none", "waiting", "result", "error"}]
        /\ total' \in [Files -> Nat]
    BY <1>1 DEF IInv, TypeOK
  <2>2. QED
    BY <1>1, <1>3, <2>1 DEF IInv, TypeOK, pluginVars, hostVars
<1>5. \A i \in DOMAIN wire : wire[i].file \in Files
  BY FrameFacts DEF IInv, TypeOK
<1>6. NewInv'
  BY <1>1, <1>3, <1>5 DEF IInv, NewInv, pluginVars, hostVars
<1>7. \A g \in Files : ~Parsing(g)'
  BY <1>1, <1>3 DEF IInv, TurnInv, Parsing
<1>8. TurnInv'
  BY <1>1, <1>3, <1>7, <1>2 DEF IInv, TurnInv, Parsing
<1>9. OwnInv' /\ PassedInv'
  BY <1>1, <1>2 DEF IInv, OwnInv, PassedInv, Passed, hostVars
<1>10. QED
  BY <1>4, <1>6, <1>8, <1>9 DEF IInv

\* A file is discarded while it is parsed.
LEMMA DiscardStep ==
  ASSUME IInv, NEW f \in Files, Discard(f)
  PROVE  IInv'
  BY DEF Discard, Drop, IInv, TypeOK, NewInv, TurnInv, OwnInv, PassedInv, Passed,
         Parsing, pluginVars, hostVars, callVars

\* Every step keeps the invariant.
THEOREM NextIInv == IInv /\ [Next]_vars => IInv'
<1> SUFFICES ASSUME IInv, [Next]_vars PROVE IInv'
  OBVIOUS
<1>1. CASE Plugin
  BY <1>1, PluginStep
<1>2. CASE Host
  BY <1>2, AcceptStep, RejectStep, ProgressStep, AnswerStep, ForwardStep, SinkStep, DoneStep
     DEF Host, Pump
<1>3. ASSUME NEW f \in Files, StartParse(f) \/ CallFails(f) \/ Engine(f) \/ Discard(f)
      PROVE  IInv'
  BY <1>3, StartStep, CallFailsStep, SinkTakesStep, ReturnStep, VerdictStep, DiscardStep
     DEF Engine
<1>4. CASE UNCHANGED vars
  BY <1>4
     DEF vars, IInv, TypeOK, NewInv, TurnInv, OwnInv, PassedInv, Passed, Parsing,
         pluginVars, hostVars, callVars, engineVars
<1>5. QED
  BY <1>1, <1>2, <1>3, <1>4 DEF Next

\* The stream's invariant: what is queued behind the sequence check passed it,
\* and what is queued before the engine belongs to the one parse that runs.
THEOREM Invariance == Spec => []IInv
  BY InitIInv, NextIInv, PTL DEF Spec

\* Type correctness.
THEOREM TypeCorrect == Spec => []TypeOK
<1>1. IInv => TypeOK
  BY DEF IInv
<1>2. QED
  BY <1>1, Invariance, PTL

-----------------------------------------------------------------------------
(* The refinement. *)

\* A parse that goes on, or whose file nothing happens to, keeps its status.
LEMMA SameStatus ==
  ASSUME IInv, \A g \in Files : (Parsing(g)' <=> Parsing(g)) /\ (pc'[g] = pc[g] \/ Parsing(g))
  PROVE  Status' = Status
  BY DEF Status

\* A batch the sequence check passes is sent.
LEMMA SendStep ==
  ASSUME IInv, ReadBatch
  PROVE  Promise!Next \/ UNCHANGED <<accepted, data, Status>>
<1>1. pc' = pc /\ data' = data
  BY DEF ReadBatch, engineVars
<1>2. Status' = Status
  BY <1>1 DEF Status, Parsing
<1>3. CASE accepted' = accepted
  BY <1>1, <1>2, <1>3
<1>4. CASE accepted' # accepted
  <2>1. PICK fr : /\ wire # <<>> /\ fr = Head(wire) /\ fr.kind = "batch"
                  /\ accepted' = [accepted EXCEPT ![fr.file] = Append(@, fr)]
    BY <1>4 DEF ReadBatch
  <2>2. fr \in Batch /\ fr.file \in Files
    BY <2>1, WireFacts, FrameFacts
  <2>3. Promise!Send(fr.file, fr)
    BY <1>1, <1>2, <2>1 DEF Promise!Send
  <2>4. QED
    BY <2>2, <2>3 DEF Promise!Next
<1>5. QED
  BY <1>3, <1>4

\* A parse that starts opens its file.
LEMMA OpenStep ==
  ASSUME IInv, NEW f \in Files, StartParse(f)
  PROVE  Promise!Open(f)
<1>1. /\ pc[f] = "new" /\ pc' = [pc EXCEPT ![f] = "parsing"] /\ data' = data
      /\ accepted' = accepted
  BY StartStep DEF StartParse, Goto, engineVars
<1>2. pc \in [Files -> {"new", "parsing", "joining", "ready", "failed"}]
  BY DEF IInv, TypeOK
<1>3. ASSUME NEW g \in Files
      PROVE  /\ g # f => pc'[g] = pc[g] /\ (Parsing(g)' <=> Parsing(g))
             /\ g = f => Parsing(g)' /\ ~Parsing(g)
  BY <1>1, <1>2 DEF Parsing
<1>4. ASSUME NEW g \in Files
      PROVE  (IF Parsing(g)' THEN "open" ELSE pc'[g])
               = IF g = f THEN "open" ELSE IF Parsing(g) THEN "open" ELSE pc[g]
  BY <1>3
<1>5. Status' = [Status EXCEPT ![f] = "open"] /\ Status[f] = "new"
  BY <1>1, <1>3, <1>4 DEF Status
<1>6. QED
  BY <1>1, <1>5 DEF Promise!Open

\* The batch the sink task keeps is the next the sequence check passed.
LEMMA KeepStep ==
  ASSUME IInv, NEW f \in Files, SinkTakes(f)
  PROVE  Promise!Next \/ UNCHANGED <<accepted, data, Status>>
<1>1. /\ Parsing(f) /\ sink # <<>>
      /\ accepted' = accepted /\ pc' = pc
  BY DEF SinkTakes, hostVars
<1>2. Status' = Status /\ Status[f] = "open"
  BY <1>1 DEF Status, Parsing
<1>3. CASE data' = data
  BY <1>1, <1>2, <1>3
<1>4. CASE data' # data
  <2>1. /\ Head(sink).kind = "batch" /\ Head(sink).seq = Len(data[f])
        /\ data' = [data EXCEPT ![f] = Append(@, Head(sink))]
    BY <1>4 DEF SinkTakes, AppendBatch
  <2>2. /\ Head(sink).seq < Len(accepted[f])
        /\ accepted[f][Len(data[f]) + 1] = Head(sink)
    BY <1>1, <2>1, TakenFacts
  <2>3. Promise!Keep(f)
    BY <1>1, <1>2, <2>1, <2>2 DEF Promise!Keep
  <2>4. QED
    BY <2>3 DEF Promise!Next
<1>5. QED
  BY <1>3, <1>4

\* A verdict is spoken once, and a failed file is forgotten.
LEMMA CloseStep ==
  ASSUME IInv, NEW f \in Files, Verdict(f)
  PROVE  Promise!Ready(f) \/ Promise!Fail(f)
<1>1. /\ pc[f] = "joining" /\ accepted' = accepted
      /\ pc \in [Files -> {"new", "parsing", "joining", "ready", "failed"}]
  BY DEF Verdict, hostVars, IInv, TypeOK
<1>2. ASSUME NEW v \in {"ready", "failed"}, pc' = [pc EXCEPT ![f] = v]
      PROVE  Status[f] = "open" /\ Status' = [Status EXCEPT ![f] = v]
  <2>1. ASSUME NEW g \in Files
        PROVE  /\ g # f => pc'[g] = pc[g] /\ (Parsing(g)' <=> Parsing(g))
               /\ g = f => pc'[g] = v /\ ~Parsing(g)' /\ Parsing(g)
    BY <1>1, <1>2 DEF Parsing
  <2>2. ASSUME NEW g \in Files
        PROVE  (IF Parsing(g)' THEN "open" ELSE pc'[g])
                 = IF g = f THEN v ELSE IF Parsing(g) THEN "open" ELSE pc[g]
    BY <2>1
  <2>3. QED
    BY <2>1, <2>2 DEF Status
<1>3. CASE pc' = [pc EXCEPT ![f] = "ready"] /\ UNCHANGED <<data, received>>
  BY <1>1, <1>2, <1>3 DEF Promise!Ready
<1>4. CASE pc' = [pc EXCEPT ![f] = "failed"] /\ Drop(f)
  BY <1>1, <1>2, <1>4 DEF Promise!Fail, Drop
<1>5. QED
  BY <1>3, <1>4 DEF Verdict, Goto

\* The stream keeps its promise: every step is one of StreamPromise or a stutter.
THEOREM Implements == Spec => KeepsOrder
<1>1. Init => Promise!Init
  <2> SUFFICES ASSUME Init PROVE Promise!Init
    OBVIOUS
  <2>1. \A f \in Files : ~Parsing(f) /\ pc[f] = "new"
    BY DEF Init, Parsing
  <2>2. QED
    BY <2>1 DEF Init, Promise!Init, Status
<1>2. IInv /\ [Next]_vars => [Promise!Next]_(Promise!vars)
  <2> SUFFICES ASSUME IInv, [Next]_vars
               PROVE  Promise!Next \/ UNCHANGED <<accepted, data, Status>>
    BY DEF Promise!vars
  <2>1. CASE UNCHANGED <<accepted, data, pc>>
    BY <2>1 DEF Status, Parsing
  <2>2. CASE Plugin \/ UNCHANGED vars
    BY <2>1, <2>2 DEF Plugin, vars, hostVars, engineVars
  <2>3. CASE Host
    BY <2>1, <2>3, SendStep
       DEF Host, Pump, ReadProgress, ReadAnswer, Forward, SendToSink, SeeDone,
           ForwardEnds, hostVars, engineVars
  <2>4. ASSUME NEW f \in Files, StartParse(f) \/ CallFails(f) \/ Engine(f) \/ Discard(f)
        PROVE  Promise!Next \/ UNCHANGED <<accepted, data, Status>>
    <3>1. CASE StartParse(f)
      BY <3>1, OpenStep DEF Promise!Next
    <3>2. CASE CallFails(f)
      BY <2>1, <3>2 DEF CallFails, hostVars, engineVars
    <3>3. CASE SinkTakes(f)
      BY <3>3, KeepStep
    <3>4. CASE ParseReturns(f)
      <4>1. UNCHANGED <<accepted, data>> /\ pc[f] = "parsing" /\ pc' = [pc EXCEPT ![f] = "joining"]
        BY <3>4 DEF ParseReturns, Goto, hostVars, engineVars
      <4>2. \A g \in Files : (Parsing(g)' <=> Parsing(g)) /\ (pc'[g] = pc[g] \/ Parsing(g))
        BY <4>1 DEF Parsing, IInv, TypeOK
      <4>3. QED
        BY <4>1, <4>2, SameStatus
    <3>5. CASE Verdict(f)
      BY <3>5, CloseStep DEF Promise!Next
    <3>6. CASE Discard(f)
      <4>1. Status[f] = "open" /\ Status' = Status /\ accepted' = accepted
        BY <3>6 DEF Discard, Status, Parsing, hostVars
      <4>2. Promise!Forget(f)
        BY <3>6, <4>1 DEF Promise!Forget, Discard, Drop
      <4>3. QED
        BY <4>2 DEF Promise!Next
    <3>7. QED
      BY <2>4, <3>1, <3>2, <3>3, <3>4, <3>5, <3>6 DEF Engine
  <2>5. QED
    BY <2>2, <2>3, <2>4 DEF Next
<1>3. QED
  BY <1>1, <1>2, Invariance, PTL DEF Spec, KeepsOrder, Promise!Spec

-----------------------------------------------------------------------------
(***************************************************************************)
(* A file that is ready is complete.                                       *)
(***************************************************************************)
Sized(s) == [i \in DOMAIN s |-> s[i].size]

\* The records of a sequence of batches are the sum of their sizes.
LEMMA RecordsIsTotal ==
  ASSUME NEW s \in Seq(Batch)
  PROVE  Records(s) = Total(Sized(s), DOMAIN s)
<1> DEFINE Sums(h) == h = [r \in SUBSET (DOMAIN s) |->
                              IF r = {} THEN 0 ELSE s[First(r)].size + h[r \ {First(r)}]]
<1>1. Records(s) = (CHOOSE h : Sums(h))[DOMAIN s]
  BY Zenon DEF Records, FoldSeq, FoldFunction, FoldFunctionOnSet, MapThenFoldSet, First
<1>2. Total(Sized(s), DOMAIN s) = (CHOOSE h : Solves(h, Sized(s), DOMAIN s))[DOMAIN s]
  BY Zenon DEF Total, MapThenSumSet, MapThenFoldSet, First, Solves
<1>3. \A r \in SUBSET (DOMAIN s) : r # {} => s[First(r)].size = Sized(s)[First(r)]
  BY FirstIn DEF Sized
<1>4. ASSUME NEW h
      PROVE  [r \in SUBSET (DOMAIN s) |->
                 IF r = {} THEN 0 ELSE s[First(r)].size + h[r \ {First(r)}]]
           = [r \in SUBSET (DOMAIN s) |->
                 IF r = {} THEN 0 ELSE Sized(s)[First(r)] + h[r \ {First(r)}]]
  BY <1>3
<1>5. \A h : Sums(h) <=> Solves(h, Sized(s), DOMAIN s)
  BY <1>4 DEF Solves
<1>6. (CHOOSE h : Sums(h)) = (CHOOSE h : Solves(h, Sized(s), DOMAIN s))
  <2> HIDE DEF Sums
  <2> QED BY <1>5, Zenon
<1>7. QED
  BY <1>1, <1>2, <1>6, Zenon

\* No batches, no records.
LEMMA RecordsEmpty == Records(<<>>) = 0
<1>1. <<>> \in Seq(Batch) /\ DOMAIN (<<>>) = {} /\ Sized(<<>>) \in [{} -> Nat]
  BY DEF Sized
<1>2. Records(<<>>) = Total(Sized(<<>>), {})
  BY <1>1, RecordsIsTotal
<1>3. QED
  BY <1>1, <1>2, FS_EmptySet, TotalType

\* One batch more counts for its size.
LEMMA RecordsAppend ==
  ASSUME NEW s \in Seq(Batch), NEW b \in Batch
  PROVE  Records(s) \in Nat /\ Records(Append(s, b)) = Records(s) + b.size
<1> DEFINE t == Append(s, b)
           n == Len(s)
<1>1. \A x \in Batch : x.size \in Nat
  <2>1. \A x \in Batch : x.size \in Sizes
    BY DEF Batch
  <2>2. QED
    BY <2>1, SizesAssumption
<1>2. /\ n \in Nat /\ t \in Seq(Batch) /\ DOMAIN s = 1 .. n
      /\ DOMAIN t = DOMAIN s \cup {n + 1} /\ n + 1 \notin DOMAIN s
      /\ t[n + 1] = b /\ \A i \in DOMAIN s : t[i] = s[i]
  OBVIOUS
<1> HIDE DEF t, n
<1>3. IsFiniteSet(DOMAIN s) /\ IsFiniteSet(DOMAIN t)
  <2>1. 1 \in Int /\ n \in Int /\ IsFiniteSet(1 .. n)
    BY <1>2, FS_Interval
  <2>2. IsFiniteSet(DOMAIN s \cup {n + 1})
    BY <1>2, <2>1, FS_AddElement
  <2>3. QED
    BY <1>2, <2>1, <2>2
<1>4. Sized(s) \in [DOMAIN s -> Nat]
  <2>1. \A i \in DOMAIN s : s[i] \in Batch
    OBVIOUS
  <2>2. QED
    BY <1>1, <2>1 DEF Sized
<1>5. Sized(t) \in [DOMAIN t -> Nat]
  <2>1. \A i \in DOMAIN t : t[i] \in Batch
    BY <1>2
  <2>2. QED
    BY <1>1, <2>1 DEF Sized
<1>6. Records(s) \in Nat
  BY <1>3, <1>4, RecordsIsTotal, TotalType
<1>7. Total(Sized(t), DOMAIN t) = b.size + Total(Sized(t), DOMAIN s)
  <2>1. DOMAIN s \in SUBSET (DOMAIN t) /\ n + 1 \in DOMAIN t
    BY <1>2
  <2>2. Total(Sized(t), DOMAIN s \cup {n + 1}) = Sized(t)[n + 1] + Total(Sized(t), DOMAIN s)
    <3>1. ASSUME NEW D, D = DOMAIN t, NEW R, R = DOMAIN s, NEW k, k = n + 1
          PROVE  Total(Sized(t), R \cup {k}) = Sized(t)[k] + Total(Sized(t), R)
      <4>1. /\ IsFiniteSet(D) /\ Sized(t) \in [D -> Nat]
            /\ R \in SUBSET D /\ k \in D /\ k \notin R
        BY <1>2, <1>3, <1>5, <2>1, <3>1
      <4> QED BY ONLY <4>1, TotalAdd
    <3> QED BY <3>1
  <2>3. Sized(t)[n + 1] = b.size
    BY <1>2, <2>1 DEF Sized
  <2>4. QED
    BY <1>2, <2>2, <2>3
<1>8. Total(Sized(t), DOMAIN s) = Total(Sized(s), DOMAIN s)
  <2>1. \A i \in DOMAIN s : Sized(t)[i] = Sized(s)[i]
    BY <1>2 DEF Sized
  <2>2. QED
    BY <2>1, TotalSame
<1>9. Records(t) = b.size + Records(s)
  BY <1>2, <1>7, <1>8, RecordsIsTotal
<1>10. QED
  BY <1>1, <1>6, <1>9 DEF t

LEMMA InitCountInv == Init => CountInv
  BY RecordsEmpty DEF Init, CountInv, StoredInv, HonestInv, Begins, Counted

\* Nothing of the Store's counts is touched, and at most a batch is passed.
LEMMA StoredKept ==
  ASSUME CountInv, TypeOK, UNCHANGED <<data, received>>,
         \A f \in Files : \/ accepted'[f] = accepted[f]
                          \/ \E b \in Batch : accepted'[f] = Append(accepted[f], b)
  PROVE  StoredInv'
<1>1. ASSUME NEW f \in Files PROVE Begins(data[f], accepted'[f])
  <2>1. Begins(data[f], accepted[f]) /\ data[f] \in Seq(Batch) /\ accepted[f] \in Seq(Batch)
    BY DEF CountInv, StoredInv, TypeOK
  <2>2. CASE accepted'[f] = accepted[f]
    BY <2>1, <2>2
  <2>3. ASSUME NEW b \in Batch, accepted'[f] = Append(accepted[f], b)
        PROVE  Begins(data[f], accepted'[f])
    BY <2>1, <2>3, AppendFacts DEF Begins
  <2>4. QED
    BY <2>2, <2>3
<1>2. QED
  BY <1>1 DEF CountInv, StoredInv

\* The sink task keeps the next batch the check passed, and counts it.
LEMMA StoredTakes ==
  ASSUME IInv, CountInv, NEW f \in Files, SinkTakes(f)
  PROVE  StoredInv'
<1>1. accepted' = accepted /\ Parsing(f) /\ sink # <<>>
  BY DEF SinkTakes, hostVars
<1>2. CASE UNCHANGED <<data, received>>
  BY <1>1, <1>2, StoredKept DEF IInv
<1>3. CASE ~UNCHANGED <<data, received>>
  <2> DEFINE b == Head(sink)
  <2>1. /\ b.kind = "batch" /\ b.seq = Len(data[f])
        /\ data' = [data EXCEPT ![f] = Append(@, b)]
        /\ received' = [received EXCEPT ![f] = @ + b.size]
    BY <1>3 DEF SinkTakes, AppendBatch
  <2>2. b \in Batch /\ b.seq < Len(accepted[f]) /\ accepted[f][b.seq + 1] = b
    BY <1>1, <2>1, TakenFacts
  <2>3. /\ data \in [Files -> Seq(Batch)] /\ received \in [Files -> Nat]
        /\ accepted[f] \in Seq(Batch)
    BY DEF IInv, TypeOK
  <2>4. Begins(data[f], accepted[f]) /\ received[f] = Records(data[f])
    BY DEF CountInv, StoredInv
  <2> HIDE DEF b
  <2>5. data'[f] = Append(data[f], b) /\ received'[f] = received[f] + b.size
    BY <2>1, <2>3
  <2>6. Begins(data'[f], accepted[f])
    BY <2>1, <2>2, <2>3, <2>4, <2>5, AppendFacts DEF Begins
  <2>7. received'[f] = Records(data'[f])
    BY <2>2, <2>3, <2>4, <2>5, RecordsAppend
  <2>8. \A g \in Files : g # f => data'[g] = data[g] /\ received'[g] = received[g]
    BY <2>1, <2>3
  <2>9. QED
    BY <1>1, <2>6, <2>7, <2>8 DEF CountInv, StoredInv
<1>4. QED
  BY <1>2, <1>3

\* A file that is dropped counts nothing.
LEMMA StoredDrops ==
  ASSUME IInv, CountInv, NEW f \in Files, Drop(f), accepted' = accepted
  PROVE  StoredInv'
<1>1. Records(<<>>) = 0
  BY RecordsEmpty
<1>2. data \in [Files -> Seq(Batch)] /\ received \in [Files -> Nat] /\ accepted[f] \in Seq(Batch)
  BY DEF IInv, TypeOK
<1>3. data'[f] = <<>> /\ received'[f] = 0
  BY <1>2 DEF Drop
<1>4. Begins(<<>>, accepted[f])
  BY <1>2 DEF Begins
<1>5. \A g \in Files : g # f => data'[g] = data[g] /\ received'[g] = received[g]
  BY <1>2 DEF Drop
<1>6. QED
  BY <1>1, <1>3, <1>4, <1>5 DEF CountInv, StoredInv

\* What the Store has is what the sequence check passed, whatever happens.
LEMMA StoredStep == ASSUME IInv, CountInv, [Next]_vars PROVE StoredInv'
<1>1. CASE UNCHANGED <<data, received, accepted>>
  BY <1>1, StoredKept DEF IInv
<1>2. CASE Plugin \/ UNCHANGED vars
  BY <1>1, <1>2 DEF Plugin, vars, hostVars, engineVars
<1>3. CASE ReadBatch
  <2>1. UNCHANGED <<data, received>>
    BY <1>3 DEF ReadBatch, engineVars
  <2>2. CASE accepted' # accepted
    <3>1. PICK fr : /\ wire # <<>> /\ fr = Head(wire) /\ fr.kind = "batch"
                    /\ accepted' = [accepted EXCEPT ![fr.file] = Append(@, fr)]
      BY <1>3, <2>2 DEF ReadBatch
    <3>2. fr \in Batch
      BY <3>1, WireFacts, FrameFacts
    <3>3. \A f \in Files : accepted'[f] = accepted[f] \/ accepted'[f] = Append(accepted[f], fr)
      BY <3>1 DEF IInv, TypeOK
    <3>4. QED
      BY <2>1, <3>2, <3>3, StoredKept DEF IInv
  <2>3. QED
    BY <1>1, <2>1, <2>2
<1>4. CASE ReadProgress \/ ReadAnswer \/ Forward \/ SendToSink \/ SeeDone \/ ForwardEnds
  BY <1>1, <1>4
     DEF ReadProgress, ReadAnswer, Forward, SendToSink, SeeDone, ForwardEnds, hostVars, engineVars
<1>5. ASSUME NEW f \in Files, StartParse(f) \/ CallFails(f) \/ ParseReturns(f)
      PROVE  StoredInv'
  <2>1. CASE StartParse(f)
    BY <1>1, <2>1, StartStep DEF StartParse, engineVars
  <2>2. CASE CallFails(f) \/ ParseReturns(f)
    BY <1>1, <2>2 DEF CallFails, ParseReturns, hostVars, engineVars
  <2>3. QED
    BY <1>5, <2>1, <2>2
<1>6. ASSUME NEW f \in Files, SinkTakes(f) PROVE StoredInv'
  BY <1>6, StoredTakes
<1>7. ASSUME NEW f \in Files, Verdict(f) \/ Discard(f) PROVE StoredInv'
  BY <1>1, <1>7, StoredDrops DEF Verdict, Discard, hostVars
<1>8. QED
  BY <1>2, <1>3, <1>4, <1>5, <1>6, <1>7 DEF Next, Host, Pump, Engine

\* What a frame says of its file stays true while the file's batches are the same
\* and nobody asks for it again.
LEMMA FaithfulStays ==
  ASSUME TypeOK, NEW fr \in Batch \cup Progress \cup Answer, Faithful(fr, sent, asked),
         sent' = sent, asked' \subseteq asked
  PROVE  Faithful(fr, sent', asked')
  BY DEF Faithful

\* The plugin does not go on in the pipe but by Write, and no other party's
\* step puts anything there.
LEMMA HonestKept ==
  ASSUME IInv, CountInv, honest' => honest, sent' = sent, asked' \subseteq asked,
         honest' => \A i \in DOMAIN wire' : (\E k \in DOMAIN wire : wire'[i] = wire[k])
                                              \/ Faithful(wire'[i], sent', asked'),
         honest' => \A f \in Files : Counted(f)'
  PROVE  HonestInv'
<1> SUFFICES ASSUME honest', NEW i \in DOMAIN wire' PROVE Faithful(wire'[i], sent', asked')
  BY DEF HonestInv
<1>1. ASSUME NEW k \in DOMAIN wire PROVE Faithful(wire[k], sent', asked')
  <2>1. wire[k] \in Batch \cup Progress \cup Answer
    BY DEF IInv, TypeOK
  <2>2. Faithful(wire[k], sent, asked)
    BY DEF CountInv, HonestInv
  <2>3. QED
    BY <2>1, <2>2, FaithfulStays DEF IInv
<1>2. QED
  BY <1>1

\* A batch the plugin sends in turn.
LEMMA EmitStep ==
  ASSUME IInv, CountInv, NEW f \in Files, NEW n \in Sizes, EmitBatch(f, n), honest',
         UNCHANGED <<accepted, call, total, pc, data>>
  PROVE  HonestInv'
<1> DEFINE b == Frame("batch", f, Len(sent[f]), n)
<1>1. /\ honest /\ f \in asked /\ wire' = Append(wire, b) /\ asked' = asked
      /\ sent' = [sent EXCEPT ![f] = Append(@, b)]
  BY DEF EmitBatch, Write
<1>2. b \in Batch /\ b.file = f /\ b.seq = Len(sent[f]) /\ b.kind = "batch"
  <2>1. Len(sent[f]) \in Nat /\ MaxBatches[f] \in Nat
    BY StreamAssumption DEF IInv, TypeOK
  <2>2. Len(sent[f]) \in 0 .. MaxBatches[f]
    BY <2>1 DEF EmitBatch
  <2>3. QED
    BY <2>2 DEF Frame, Batch
<1> HIDE DEF b
<1>3. /\ sent \in [Files -> Seq(Batch)] /\ wire \in Wire
      /\ \A g \in Files : sent[g] \in Seq(Batch) /\ accepted[g] \in Seq(Batch)
  BY DEF IInv, TypeOK, Wire
<1>4. /\ \A i \in DOMAIN wire : Faithful(wire[i], sent, asked)
      /\ \A g \in Files : Counted(g)
  BY <1>1 DEF CountInv, HonestInv
<1>5. /\ sent'[f] = Append(sent[f], b) /\ Len(sent'[f]) = Len(sent[f]) + 1
      /\ sent'[f][Len(sent[f]) + 1] = b
      /\ \A i \in DOMAIN sent[f] : sent'[f][i] = sent[f][i]
  BY <1>1, <1>2, <1>3, AppendFacts
<1>6. \A g \in Files : g # f => sent'[g] = sent[g]
  BY <1>1, <1>3
<1>7. ASSUME NEW fr \in Batch \cup Progress \cup Answer, Faithful(fr, sent, asked)
      PROVE  Faithful(fr, sent', asked')
  <2>1. Faithful(fr, sent, asked)
    BY <1>7
  <2>2. fr.file \in Files /\ (fr.kind = "batch" => fr.seq \in Nat)
    BY FrameFacts
  <2>3. fr.kind = "result" => fr.file # f
    BY <1>1, <2>1 DEF Faithful
  <2>4. CASE fr.file # f
    BY <1>1, <1>6, <2>1, <2>2, <2>4 DEF Faithful
  <2>5. CASE fr.file = f /\ fr.kind = "batch"
    <3>1. fr.seq + 1 \in DOMAIN sent[f] /\ fr.seq < Len(sent[f]) /\ sent[f][fr.seq + 1] = fr
      BY <1>3, <2>1, <2>2, <2>5 DEF Faithful
    <3>2. fr.seq < Len(sent'[f]) /\ sent'[f][fr.seq + 1] = fr
      BY <1>3, <1>5, <2>2, <2>5, <3>1
    <3>3. QED
      BY <2>5, <3>2 DEF Faithful
  <2>6. CASE fr.kind \notin {"batch", "result"}
    BY <2>6 DEF Faithful
  <2>7. QED
    BY <2>3, <2>4, <2>5, <2>6
<1>8. Faithful(b, sent', asked')
  <2>1. b.seq < Len(sent'[f])
    BY <1>2, <1>3, <1>5
  <2>2. QED
    BY <1>2, <1>5, <2>1 DEF Faithful
<1>9. \A i \in DOMAIN wire' : Faithful(wire'[i], sent', asked')
  <2>1. b \in Batch \cup Progress \cup Answer
    BY <1>2
  <2>2. \A i \in DOMAIN wire' : (i \in DOMAIN wire /\ wire'[i] = wire[i]) \/ wire'[i] = b
    BY <1>1, <1>3, <2>1, AppendFacts DEF Wire
  <2>3. \A i \in DOMAIN wire : wire[i] \in Batch \cup Progress \cup Answer
    BY <1>3 DEF Wire
  <2>4. QED
    BY <1>4, <1>7, <1>8, <2>2, <2>3
<1>10. ASSUME NEW g \in Files PROVE Counted(g)'
  <2>1. CASE g # f
    BY <1>1, <1>4, <1>6, <2>1 DEF Counted
  <2>2. CASE g = f
    <3>1. Begins(accepted[f], sent[f]) /\ call[f] # "result" /\ pc[f] # "ready"
      BY <1>1, <1>4 DEF Counted
    <3>2. Begins(accepted[f], sent'[f])
      BY <1>3, <1>5, <3>1 DEF Begins
    <3>3. QED
      BY <2>2, <3>1, <3>2 DEF Counted
  <2>3. QED
    BY <2>1, <2>2
<1>11. QED
  BY <1>9, <1>10 DEF HonestInv

\* The plugin reports, answers, or breaks the protocol.
LEMMA AnswerWritten ==
  ASSUME IInv, CountInv, NEW f \in Files, honest',
         \/ EmitProgress(f) \/ AnswerError(f) \/ \E n \in Totals(f) : AnswerResult(f, n)
         \/ \E i \in 0 .. MaxBatches[f], n \in Sizes : EmitBad(f, i, n),
         UNCHANGED <<accepted, call, total, pc, data>>
  PROVE  HonestInv'
<1>1. /\ honest /\ sent' = sent /\ asked' \subseteq asked
      /\ ~ \E i \in 0 .. MaxBatches[f], n \in Sizes : EmitBad(f, i, n)
  BY DEF EmitProgress, AnswerError, AnswerResult, EmitBad
<1>2. ASSUME NEW fr \in Batch \cup Progress \cup Answer, wire' = Append(wire, fr),
             Faithful(fr, sent', asked')
      PROVE  HonestInv'
  <2>1. wire \in Wire
    BY DEF IInv, TypeOK, Wire
  <2>2. \A i \in DOMAIN wire' : (i \in DOMAIN wire /\ wire'[i] = wire[i]) \/ wire'[i] = fr
    BY <1>2, <2>1, AppendFacts DEF Wire
  <2>3. \A i \in DOMAIN wire' : (\E k \in DOMAIN wire : wire'[i] = wire[k])
                                   \/ Faithful(wire'[i], sent', asked')
    BY <1>2, <2>2
  <2>4. \A g \in Files : Counted(g)'
    BY <1>1 DEF CountInv, HonestInv, Counted
  <2>5. QED
    BY <1>1, <2>3, <2>4, HonestKept
<1>3. CASE EmitProgress(f)
  <2>1. Frame("progress", f, 0, 0) \in Progress
    BY DEF Progress, Frame
  <2>2. Faithful(Frame("progress", f, 0, 0), sent', asked')
    BY DEF Faithful, Frame
  <2>3. QED
    BY <1>2, <1>3, <2>1, <2>2 DEF EmitProgress, Write
<1>4. CASE AnswerError(f)
  <2>1. Frame("error", f, 0, 0) \in Answer
    BY DEF Answer, Frame
  <2>2. Faithful(Frame("error", f, 0, 0), sent', asked')
    BY DEF Faithful, Frame
  <2>3. QED
    BY <1>2, <1>4, <2>1, <2>2 DEF AnswerError, Write
<1>5. ASSUME NEW n \in Totals(f), AnswerResult(f, n) PROVE HonestInv'
  <2>1. n \in Nat
    BY DEF Totals
  <2>2. Frame("result", f, 0, n) \in Answer
    BY <2>1 DEF Answer, Frame
  <2>3. n = Records(sent'[f]) /\ f \notin asked'
    BY <1>1, <1>5 DEF AnswerResult
  <2>4. Faithful(Frame("result", f, 0, n), sent', asked')
    BY <2>3 DEF Faithful, Frame
  <2>5. QED
    BY <1>2, <1>5, <2>2, <2>4 DEF AnswerResult, Write
<1>6. QED
  BY <1>1, <1>3, <1>4, <1>5

\* A step of the plugin.
LEMMA PluginHonest == ASSUME IInv, CountInv, Plugin PROVE HonestInv'
<1>1. UNCHANGED <<accepted, call, total, pc, data>>
  BY DEF Plugin, hostVars, callVars, engineVars
<1>2. CASE ~honest'
  BY <1>2 DEF HonestInv
<1>3. CASE honest'
  BY <1>1, <1>3, EmitStep, AnswerWritten DEF Plugin
<1>4. QED
  BY <1>2, <1>3

\* The frames that are left in the pipe were there before.
LEMMA RestFacts ==
  ASSUME IInv, wire # <<>>, wire' = Tail(wire)
  PROVE  \A i \in DOMAIN wire' : \E k \in DOMAIN wire : wire'[i] = wire[k]
<1>1. wire \in Wire
  BY DEF IInv, TypeOK, Wire
<1>2. QED
  BY <1>1, TailFacts DEF Wire

\* The host reads a batch.
LEMMA ReadBatchHonest == ASSUME IInv, CountInv, ReadBatch PROVE HonestInv'
<1>1. /\ sent' = sent /\ honest' = honest /\ asked' \subseteq asked
      /\ UNCHANGED <<call, total, pc, data>> /\ wire # <<>>
  BY DEF ReadBatch, callVars, engineVars
<1>2. \A i \in DOMAIN wire' : \E k \in DOMAIN wire : wire'[i] = wire[k]
  <2>1. wire' = Tail(wire) \/ wire' = <<>>
    BY DEF ReadBatch
  <2>2. QED
    BY <1>1, <2>1, RestFacts
<1>3. ASSUME honest, NEW f \in Files PROVE Counted(f)'
  <2>1. Counted(f)
    BY <1>3 DEF CountInv, HonestInv
  <2>2. CASE accepted'[f] = accepted[f]
    BY <1>1, <2>1, <2>2 DEF Counted
  <2>3. CASE accepted'[f] # accepted[f]
    <3>1. PICK fr : /\ fr = Head(wire) /\ fr.kind = "batch"
                    /\ fr.seq = Len(accepted[fr.file])
                    /\ accepted' = [accepted EXCEPT ![fr.file] = Append(@, fr)]
      BY <2>3 DEF ReadBatch
    <3>2. /\ accepted \in [Files -> Seq(Batch)] /\ accepted[f] \in Seq(Batch)
          /\ sent[f] \in Seq(Batch) /\ wire \in Wire
      BY DEF IInv, TypeOK, Wire
    <3>3. fr \in Batch /\ fr.file \in Files
      BY <1>1, <3>1, WireFacts, FrameFacts
    <3>4. fr.file = f /\ accepted'[f] = Append(accepted[f], fr)
      BY <2>3, <3>1, <3>2, <3>3
    <3>5. Faithful(fr, sent, asked)
      <4>1. fr = wire[1] /\ 1 \in DOMAIN wire
        BY <1>1, <3>1, <3>2, TailFacts DEF Wire
      <4>2. QED
        BY <1>3, <4>1 DEF CountInv, HonestInv
    <3>6. Len(accepted[f]) < Len(sent[f]) /\ sent[f][Len(accepted[f]) + 1] = fr
      BY <3>1, <3>4, <3>5 DEF Faithful
    <3>7. Begins(accepted'[f], sent[f])
      BY <2>1, <3>2, <3>3, <3>4, <3>6, AppendFacts DEF Begins, Counted
    <3>8. QED
      BY <1>1, <2>1, <3>7 DEF Counted
  <2>4. QED
    BY <2>2, <2>3
<1>4. QED
  BY <1>1, <1>2, <1>3, HonestKept

\* The host reads an answer: the total it brings is right.
LEMMA ReadAnswerHonest == ASSUME IInv, CountInv, ReadAnswer PROVE HonestInv'
<1>1. /\ UNCHANGED <<sent, honest, asked, accepted, pc, data>>
      /\ wire # <<>> /\ wire' = Tail(wire)
  BY DEF ReadAnswer, Read, pluginVars, hostVars, engineVars
<1>2. ASSUME honest, NEW f \in Files PROVE Counted(f)'
  <2>1. Counted(f)
    BY <1>2 DEF CountInv, HonestInv
  <2>2. PICK fr : /\ fr = Head(wire)
                  /\ \/ call' = [call EXCEPT ![fr.file] = fr.kind]
                        /\ total' = [total EXCEPT ![fr.file] = fr.size]
                     \/ UNCHANGED callVars
    BY DEF ReadAnswer
  <2>3. Faithful(fr, sent, asked)
    <3>1. fr = wire[1] /\ 1 \in DOMAIN wire
      BY <1>1, <2>2, TailFacts DEF IInv, TypeOK
    <3>2. QED
      BY <1>2, <3>1 DEF CountInv, HonestInv
  <2>4. /\ call \in [Files -> {"none", "waiting", "result", "error"}]
        /\ total \in [Files -> Nat]
    BY DEF IInv, TypeOK
  <2>5. CASE call'[f] = call[f] /\ total'[f] = total[f]
    BY <1>1, <2>1, <2>5 DEF Counted
  <2>6. CASE fr.file = f /\ call'[f] = fr.kind /\ total'[f] = fr.size
    BY <1>1, <2>1, <2>3, <2>6 DEF Counted, Faithful
  <2>7. QED
    BY <2>2, <2>4, <2>5, <2>6 DEF callVars
<1>3. QED
  BY <1>1, <1>2, RestFacts, HonestKept

\* A step that changes neither what the plugin sent nor what the host counts.
LEMMA QuietHonest ==
  ASSUME IInv, CountInv, UNCHANGED <<sent, honest, asked, accepted>>,
         wire' = wire \/ (wire # <<>> /\ wire' = Tail(wire)),
         \A f \in Files : call'[f] = "result" => call[f] = "result" /\ total'[f] = total[f],
         \A f \in Files : pc'[f] = "ready" => pc[f] = "ready" /\ data'[f] = data[f]
  PROVE  HonestInv'
<1>1. \A i \in DOMAIN wire' : \E k \in DOMAIN wire : wire'[i] = wire[k]
  BY RestFacts
<1>2. ASSUME honest, NEW f \in Files PROVE Counted(f)'
  BY <1>2 DEF CountInv, HonestInv, Counted
<1>3. QED
  BY <1>1, <1>2, HonestKept

\* A parse starts: nothing of its file was heard before.
LEMMA StartHonest ==
  ASSUME IInv, CountInv, NEW f \in Files, StartParse(f)
  PROVE  HonestInv'
<1>1. /\ pc[f] = "new" /\ pc' = [pc EXCEPT ![f] = "parsing"]
      /\ call' = [call EXCEPT ![f] = "waiting"] /\ asked' = asked \cup {f}
      /\ UNCHANGED <<sent, honest, wire, total, data>>
  BY DEF StartParse, Goto, engineVars
<1>2. accepted' = accepted
  BY StartStep
<1>3. SUFFICES ASSUME honest PROVE HonestInv'
  BY <1>1 DEF HonestInv
<1>4. ASSUME NEW i \in DOMAIN wire PROVE Faithful(wire[i], sent, asked')
  <2>1. Faithful(wire[i], sent, asked) /\ wire[i].file # f
    BY <1>1, <1>3 DEF IInv, NewInv, CountInv, HonestInv
  <2>2. QED
    BY <1>1, <2>1 DEF Faithful
<1>5. ASSUME NEW g \in Files PROVE Counted(g)'
  <2>1. Counted(g)
    BY <1>3 DEF CountInv, HonestInv
  <2>2. /\ pc \in [Files -> {"new", "parsing", "joining", "ready", "failed"}]
        /\ call \in [Files -> {"none", "waiting", "result", "error"}]
    BY DEF IInv, TypeOK
  <2>3. CASE g = f
    BY <1>1, <1>2, <2>1, <2>2, <2>3 DEF Counted
  <2>4. CASE g # f
    BY <1>1, <1>2, <2>1, <2>2, <2>4 DEF Counted
  <2>5. QED
    BY <2>3, <2>4
<1>6. QED
  BY <1>1, <1>4, <1>5 DEF HonestInv

\* The verdict: a file is ready only if the counts agree (Store::freeze).
LEMMA VerdictHonest ==
  ASSUME IInv, CountInv, NEW f \in Files, Verdict(f)
  PROVE  HonestInv'
<1>1. /\ UNCHANGED <<sent, honest, asked, accepted, wire>>
      /\ call' = [call EXCEPT ![f] = "none"] /\ total' = [total EXCEPT ![f] = 0]
  BY DEF Verdict, pluginVars, hostVars
<1>2. /\ pc \in [Files -> {"new", "parsing", "joining", "ready", "failed"}]
      /\ call \in [Files -> {"none", "waiting", "result", "error"}]
      /\ total \in [Files -> Nat] /\ data \in [Files -> Seq(Batch)]
  BY DEF IInv, TypeOK
<1>3. \/ /\ Complete(f) /\ pc' = [pc EXCEPT ![f] = "ready"] /\ data' = data
      \/ /\ pc' = [pc EXCEPT ![f] = "failed"]
         /\ \A g \in Files : g # f => data'[g] = data[g]
  BY <1>2 DEF Verdict, Goto, Drop
<1>4. ASSUME honest, NEW g \in Files PROVE Counted(g)'
  <2>1. Counted(g)
    BY <1>4 DEF CountInv, HonestInv
  <2>2. CASE g # f
    BY <1>1, <1>2, <1>3, <2>1, <2>2 DEF Counted
  <2>3. CASE g = f /\ pc'[f] # "ready"
    BY <1>1, <1>2, <2>1, <2>3 DEF Counted
  <2>4. CASE g = f /\ pc'[f] = "ready"
    <3>1. Complete(f) /\ data' = data
      BY <1>2, <1>3, <2>4
    <3>2. call[f] = "result" /\ received[f] = total[f] /\ received[f] = Records(data[f])
      BY <3>1 DEF Complete, CountInv, StoredInv
    <3>3. f \notin asked /\ Records(data[f]) = Records(sent[f])
      BY <2>1, <2>4, <3>2 DEF Counted
    <3>4. QED
      BY <1>1, <1>2, <2>1, <2>4, <3>1, <3>3 DEF Counted
  <2>5. QED
    BY <2>2, <2>3, <2>4
<1>5. QED
  BY <1>1, <1>4, HonestKept

\* What an honest plugin's stream has come to, whatever happens.
LEMMA HonestStep == ASSUME IInv, CountInv, [Next]_vars PROVE HonestInv'
<1>1. CASE Plugin
  BY <1>1, PluginHonest
<1>2. CASE ReadBatch \/ ReadAnswer
  BY <1>2, ReadBatchHonest, ReadAnswerHonest
<1>3. CASE ReadProgress
  BY <1>3, QuietHonest DEF ReadProgress, Read, pluginVars, callVars, engineVars
<1>4. CASE Forward \/ SendToSink \/ SeeDone \/ ForwardEnds
  BY <1>4, QuietHonest
     DEF Forward, SendToSink, SeeDone, ForwardEnds, pluginVars, hostVars, callVars, engineVars
<1>5. ASSUME NEW f \in Files, StartParse(f) \/ Verdict(f) PROVE HonestInv'
  BY <1>5, StartHonest, VerdictHonest
<1>6. ASSUME NEW f \in Files, CallFails(f) PROVE HonestInv'
  <2>1. \A g \in Files : call'[g] = "result" => call[g] = "result"
    BY <1>6 DEF CallFails, IInv, TypeOK
  <2>2. UNCHANGED <<sent, honest, asked, accepted, wire, total, pc, data>>
    BY <1>6 DEF CallFails, pluginVars, hostVars, engineVars
  <2>3. QED
    BY <2>1, <2>2, QuietHonest
<1>7. ASSUME NEW f \in Files, ParseReturns(f) PROVE HonestInv'
  <2>1. \A g \in Files : pc'[g] = "ready" => pc[g] = "ready"
    BY <1>7 DEF ParseReturns, Goto, IInv, TypeOK
  <2>2. UNCHANGED <<sent, honest, asked, accepted, wire, call, total, data>>
    BY <1>7 DEF ParseReturns, pluginVars, hostVars, callVars, engineVars
  <2>3. QED
    BY <2>1, <2>2, QuietHonest
<1>8. ASSUME NEW f \in Files, SinkTakes(f) \/ Discard(f) PROVE HonestInv'
  <2>1. /\ Parsing(f) /\ pc' = pc
        /\ UNCHANGED <<sent, honest, asked, accepted, wire, call, total>>
    BY <1>8 DEF SinkTakes, Discard, pluginVars, hostVars, callVars
  <2>2. \A g \in Files : g # f => data'[g] = data[g]
    BY <1>8 DEF SinkTakes, AppendBatch, Discard, Drop, IInv, TypeOK
  <2>3. QED
    BY <2>1, <2>2, QuietHonest DEF Parsing
<1>9. CASE UNCHANGED vars
  BY <1>9, QuietHonest DEF vars, pluginVars, hostVars, callVars, engineVars
<1>10. QED
  BY <1>1, <1>2, <1>3, <1>4, <1>5, <1>6, <1>7, <1>8, <1>9 DEF Next, Host, Pump, Engine

\* A plugin that keeps to the protocol gets its file ready with every record it
\* sent, for all batch sizes, capacities and interleavings: Store::freeze's
\* comparison of two counts is enough, because the store's data are a beginning
\* of what was sent.
THEOREM Completeness == Spec => []ReadyIsComplete
<1>1. IInv /\ CountInv /\ [Next]_vars => CountInv'
  BY StoredStep, HonestStep DEF CountInv
<1>2. IInv /\ CountInv => ReadyIsComplete
  <2> SUFFICES ASSUME IInv, CountInv, NEW f \in Files, honest, pc[f] = "ready"
               PROVE  IsPrefix(data[f], sent[f]) /\ Records(data[f]) = Records(sent[f])
    BY DEF ReadyIsComplete
  <2>1. data[f] \in Seq(Batch) /\ accepted[f] \in Seq(Batch) /\ sent[f] \in Seq(Batch)
    BY DEF IInv, TypeOK
  <2>2. /\ Begins(data[f], accepted[f]) /\ Begins(accepted[f], sent[f])
        /\ Records(data[f]) = Records(sent[f])
    BY DEF CountInv, StoredInv, HonestInv, Counted
  <2>3. Begins(data[f], sent[f])
    BY <2>1, <2>2 DEF Begins
  <2>4. ASSUME NEW s \in Seq(Batch), NEW t \in Seq(Batch), Begins(s, t) PROVE IsPrefix(s, t)
    BY <2>4 DEF Begins, IsPrefix
  <2>5. QED
    BY <2>1, <2>2, <2>3, <2>4
<1>3. QED
  BY <1>1, <1>2, InitCountInv, Invariance, PTL DEF Spec

-----------------------------------------------------------------------------
(* Imports fail for a reason *)

\* No file becomes new again.
LEMMA StepPc == ASSUME IInv, [Next]_vars, NEW f \in Files, pc'[f] = "new" PROVE pc[f] = "new"
<1>1. pc \in [Files -> {"new", "parsing", "joining", "ready", "failed"}]
  BY DEF IInv, TypeOK
<1>2. pc' = pc \/ \E g \in Files, l \in {"parsing", "joining", "ready", "failed"} : Goto(g, l)
  BY DEF Next, vars, Plugin, Host, Pump, Engine, ReadBatch, ReadProgress, ReadAnswer, Forward,
         SendToSink, SeeDone, ForwardEnds, StartParse, CallFails, SinkTakes, ParseReturns, Verdict,
         Discard
<1>3. QED
  BY <1>1, <1>2 DEF Goto

\* A frame that comes next keeps a file's numbers whole.
LEMMA NumberedAppend ==
  ASSUME NEW f, NEW s \in Seq(Batch), NEW b \in Batch, Numbered(f, s), b.file = f, b.seq = Len(s)
  PROVE  Numbered(f, Append(s, b))
  BY AppendFacts DEF Numbered

\* What a step may do to what the plugin has sent for a file.
LEMMA SentChange ==
  ASSUME IInv, [Next]_vars, NEW f \in Files
  PROVE  \/ sent'[f] = sent[f]
         \/ \E b \in Batch : /\ b.file = f /\ b.seq = Len(sent[f]) /\ pc[f] # "new"
                             /\ sent'[f] = Append(sent[f], b)
<1>1. sent \in [Files -> Seq(Batch)] /\ sent[f] \in Seq(Batch)
  BY DEF IInv, TypeOK
<1>2. \/ UNCHANGED sent
      \/ \E g \in Files, n \in Sizes : EmitBatch(g, n)
  BY DEF Next, vars, Plugin, Host, Pump, Engine, EmitBad, EmitProgress, AnswerError, AnswerResult,
         ReadBatch, ReadProgress, ReadAnswer, Forward, SendToSink, SeeDone, ForwardEnds, StartParse,
         CallFails, SinkTakes, ParseReturns, Verdict, Discard, pluginVars
<1>3. ASSUME NEW g \in Files, NEW n \in Sizes, EmitBatch(g, n), sent'[f] # sent[f]
      PROVE  \E b \in Batch : /\ b.file = f /\ b.seq = Len(sent[f]) /\ pc[f] # "new"
                              /\ sent'[f] = Append(sent[f], b)
  <2>1. /\ pc[g] # "new"
        /\ sent' = [sent EXCEPT ![g] = Append(@, Frame("batch", g, Len(sent[g]), n))]
    BY <1>3 DEF EmitBatch
  <2>2. g = f
    BY <1>1, <1>3, <2>1
  <2>3. sent'[f] = Append(sent[f], Frame("batch", f, Len(sent[f]), n))
    BY <1>1, <2>1, <2>2
  <2>4. Len(sent[f]) \in 0 .. MaxBatches[f]
    <3>1. Len(sent[f]) \in Nat /\ MaxBatches[f] \in Nat
      BY <1>1, StreamAssumption
    <3>2. QED
      BY <1>3, <2>2, <3>1 DEF EmitBatch
  <2>5. Frame("batch", f, Len(sent[f]), n) \in Batch
    BY <2>4 DEF Frame, Batch
  <2>6. QED
    BY <2>1, <2>2, <2>3, <2>5 DEF Frame
<1>4. QED
  BY <1>2, <1>3

\* What a step may do to what the sequence check has passed for a file.
LEMMA PassedChange ==
  ASSUME IInv, [Next]_vars, NEW f \in Files
  PROVE  \/ accepted'[f] = accepted[f]
         \/ \E b \in Batch : /\ b.file = f /\ b.seq = Len(accepted[f]) /\ pc[f] # "new"
                             /\ accepted'[f] = Append(accepted[f], b)
<1>1. accepted \in [Files -> Seq(Batch)]
  BY DEF IInv, TypeOK
<1>2. UNCHANGED accepted \/ ReadBatch
  BY StartStep
     DEF Next, vars, Plugin, Host, Pump, Engine, ReadProgress, ReadAnswer, Forward, SendToSink,
         SeeDone, ForwardEnds, CallFails, SinkTakes, ParseReturns, Verdict, Discard, hostVars
<1>3. CASE ReadBatch /\ accepted'[f] # accepted[f]
  <2>1. PICK fr : /\ wire # <<>> /\ fr = Head(wire) /\ fr.kind = "batch"
                  /\ fr.seq = Len(accepted[fr.file])
                  /\ accepted' = [accepted EXCEPT ![fr.file] = Append(@, fr)]
    BY <1>3 DEF ReadBatch
  <2>2. fr \in Batch /\ pc[fr.file] # "new" /\ fr.file \in Files
    BY <2>1, WireFacts, FrameFacts
  <2>3. fr.file = f
    BY <1>1, <1>3, <2>1, <2>2
  <2>4. QED
    BY <1>1, <2>1, <2>2, <2>3
<1>4. QED
  BY <1>2, <1>3

\* Numbers stay whole, and an error is noted against a parse that runs.
LEMMA NumberStep == ASSUME IInv, NumberInv, [Next]_vars PROVE NumberInv'
<1>1. ASSUME NEW f \in Files PROVE Numbered(f, sent'[f]) /\ Numbered(f, accepted'[f])
  <2>1. /\ sent[f] \in Seq(Batch) /\ accepted[f] \in Seq(Batch)
        /\ Numbered(f, sent[f]) /\ Numbered(f, accepted[f])
    BY DEF IInv, TypeOK, NumberInv
  <2>2. Numbered(f, sent'[f])
    BY <2>1, SentChange, NumberedAppend
  <2>3. Numbered(f, accepted'[f])
    BY <2>1, PassedChange, NumberedAppend
  <2>4. QED
    BY <2>2, <2>3
<1>2. ASSUME NEW f \in Files, pc'[f] = "new" PROVE sent'[f] = <<>>
  <2>1. pc[f] = "new"
    BY <1>2, StepPc
  <2>2. QED
    BY <2>1, SentChange DEF NumberInv
<1>3. ASSUME NEW f \in failure' PROVE Parsing(f)'
  <2>1. \/ UNCHANGED failure /\ (pc' = pc \/ \E g \in Files : StartParse(g) \/ ParseReturns(g))
        \/ failure' = {}
        \/ \E g \in Files : Parsing(g) /\ failure' \subseteq failure \cup {g} /\ pc' = pc
    BY DEF Next, vars, Plugin, Host, Pump, Engine, ReadBatch, ReadProgress, ReadAnswer, Forward,
           SendToSink, SeeDone, ForwardEnds, CallFails, SinkTakes, AppendBatch, Verdict, Discard,
           StartParse, ParseReturns, engineVars
  <2>2. pc \in [Files -> {"new", "parsing", "joining", "ready", "failed"}] /\ failure \subseteq Files
    BY DEF IInv, TypeOK
  <2>3. \A g \in failure : Parsing(g)
    BY DEF NumberInv
  <2>4. QED
    BY <1>3, <2>1, <2>2, <2>3 DEF Parsing, StartParse, ParseReturns, Goto
<1>4. QED
  BY <1>1, <1>2, <1>3 DEF NumberInv

\* An element put behind a queue, and a queue without its first element.
LEMMA OrderAppend ==
  ASSUME NEW S, NEW p \in Seq(S), NEW q \in Seq(S), NEW x \in S
  PROVE  /\ Rising(q) /\ (\A i \in DOMAIN q : Ahead(q[i], x)) => Rising(Append(q, x))
         /\ Before(p, q) /\ (\A i \in DOMAIN p : Ahead(p[i], x)) => Before(p, Append(q, x))
         /\ Before(p, q) /\ (\A i \in DOMAIN q : Ahead(x, q[i])) => Before(Append(p, x), q)
<1>1. /\ \A i \in DOMAIN q : Append(q, x)[i] = q[i]
      /\ \A i \in DOMAIN p : Append(p, x)[i] = p[i]
      /\ Append(q, x)[Len(q) + 1] = x /\ Append(p, x)[Len(p) + 1] = x
      /\ DOMAIN Append(q, x) = 1 .. Len(q) + 1 /\ DOMAIN Append(p, x) = 1 .. Len(p) + 1
      /\ DOMAIN q = 1 .. Len(q) /\ DOMAIN p = 1 .. Len(p)
      /\ Len(q) \in Nat /\ Len(p) \in Nat
  BY AppendFacts
<1> DEFINE qx == Append(q, x)
           px == Append(p, x)
<1> HIDE DEF qx, px
<1>2. /\ \A i \in 1 .. Len(q) : qx[i] = q[i] /\ \A j \in 1 .. Len(p) : px[j] = p[j]
      /\ qx[Len(q) + 1] = x /\ px[Len(p) + 1] = x
      /\ DOMAIN qx = 1 .. Len(q) + 1 /\ DOMAIN px = 1 .. Len(p) + 1
  BY <1>1 DEF qx, px
<1>3. ASSUME Rising(q), \A i \in DOMAIN q : Ahead(q[i], x) PROVE Rising(qx)
  BY <1>1, <1>2, <1>3 DEF Rising
<1>4. ASSUME Before(p, q), \A i \in DOMAIN p : Ahead(p[i], x) PROVE Before(p, qx)
  BY <1>1, <1>2, <1>4 DEF Before
<1>5. ASSUME Before(p, q), \A i \in DOMAIN q : Ahead(x, q[i]) PROVE Before(px, q)
  <2>1. \A j \in 1 .. Len(p) : px[j] = p[j]
    BY <1>1 DEF px
  <2>2. QED
    BY <1>1, <1>2, <1>5, <2>1 DEF Before
<1>6. QED
  BY <1>3, <1>4, <1>5 DEF qx, px

LEMMA OrderTail ==
  ASSUME NEW S, NEW p \in Seq(S), NEW q \in Seq(S), q # <<>>
  PROVE  /\ Rising(q) => /\ Rising(Tail(q))
                         /\ \A i \in DOMAIN Tail(q) : Ahead(Head(q), Tail(q)[i])
         /\ Before(p, q) => Before(p, Tail(q)) /\ \A i \in DOMAIN p : Ahead(p[i], Head(q))
         /\ Before(q, p) => Before(Tail(q), p) /\ \A i \in DOMAIN p : Ahead(Head(q), p[i])
<1>1. /\ Head(q) = q[1] /\ 1 \in DOMAIN q
      /\ \A i \in DOMAIN Tail(q) : i + 1 \in DOMAIN q /\ Tail(q)[i] = q[i + 1] /\ i \in Nat \ {0}
  BY TailFacts
<1> DEFINE t == Tail(q)
           h == Head(q)
<1>2. /\ h = q[1] /\ 1 \in DOMAIN q /\ DOMAIN q \subseteq Nat
      /\ \A i \in DOMAIN t : i + 1 \in DOMAIN q /\ t[i] = q[i + 1] /\ i \in Nat \ {0}
  BY <1>1
<1> HIDE DEF t, h
<1>3. ASSUME Rising(q) PROVE Rising(t) /\ \A i \in DOMAIN t : Ahead(h, t[i])
  BY <1>2, <1>3 DEF Rising
<1>4. ASSUME Before(p, q) PROVE Before(p, t) /\ \A i \in DOMAIN p : Ahead(p[i], h)
  BY <1>2, <1>4 DEF Before
<1>5. ASSUME Before(q, p) PROVE Before(t, p) /\ \A i \in DOMAIN p : Ahead(h, p[i])
  BY <1>2, <1>5 DEF Before
<1>6. QED
  BY <1>3, <1>4, <1>5 DEF t, h

\* The queues behind the sequence check.
LEMMA QueueTypes ==
  ASSUME IInv
  PROVE  /\ fan \in Queue /\ held \in Queue /\ sink \in Queue
         /\ held # <<>> => /\ Head(held) = held[1] /\ 1 \in DOMAIN held
                           /\ \A i \in DOMAIN held : i = 1
                           /\ Head(held) \in Batch \cup Progress
<1>1. fan \in Queue /\ held \in Queue /\ sink \in Queue /\ Len(held) <= 1
  BY DEF IInv, TypeOK
<1>2. ASSUME held # <<>>
      PROVE  /\ Head(held) = held[1] /\ 1 \in DOMAIN held /\ \A i \in DOMAIN held : i = 1
             /\ Head(held) \in Batch \cup Progress
  BY <1>1, <1>2, TailFacts DEF Queue
<1>3. QED
  BY <1>1, <1>2

\* What the sequence check has passed, and what is next, is ahead of nothing queued.
LEMMA PassedAhead ==
  ASSUME IInv, NEW fr \in Batch \cup Progress,
         fr.kind = "batch" => fr.seq = Len(accepted[fr.file])
  PROVE  /\ \A i \in DOMAIN fan : Ahead(fan[i], fr)
         /\ \A i \in DOMAIN held : Ahead(held[i], fr)
         /\ \A i \in DOMAIN sink : Ahead(sink[i], fr)
  BY QueueFacts DEF Fits, Ahead

\* The fan-out puts what has passed behind everything that is on its way.
LEMMA FanOutOrder ==
  ASSUME IInv, CountInv, OrderInv, NEW fr \in Batch \cup Progress, FanOut(fr),
         fr.kind = "batch" => fr.seq = Len(accepted[fr.file]),
         UNCHANGED <<held, sink, data>>
  PROVE  OrderInv'
<1>1. CASE fan' = fan
  BY <1>1 DEF OrderInv
<1>2. CASE fan' = Append(fan, fr)
  <2>1. Rising(fan') /\ Before(sink, fan') /\ Before(held, fan')
    BY <1>2, PassedAhead, OrderAppend, QueueTypes DEF OrderInv, Queue
  <2>2. Awaits(fan', data)
    <3>1. fr.kind = "batch" => fr.seq >= Len(data[fr.file])
      <4>1. ASSUME fr.kind = "batch" PROVE Begins(data[fr.file], accepted[fr.file])
        BY <4>1, FrameFacts DEF CountInv, StoredInv
      <4>2. QED
        BY <4>1 DEF Begins
    <3>2. \A i \in DOMAIN fan' : (i \in DOMAIN fan /\ fan'[i] = fan[i]) \/ fan'[i] = fr
      BY FanOutFacts
    <3>3. QED
      BY <3>1, <3>2 DEF OrderInv, Awaits
  <2>3. QED
    BY <2>1, <2>2 DEF OrderInv
<1>3. QED
  BY <1>1, <1>2 DEF FanOut

\* The forward task moves notifications on, one behind the other.
LEMMA ForwardOrder ==
  ASSUME IInv, OrderInv, Forward \/ SendToSink
  PROVE  OrderInv'
<1>1. CASE Forward
  <2>1. /\ fan # <<>> /\ held = <<>> /\ fan' = Tail(fan) /\ sink' = sink /\ data' = data
        /\ held' \in {<<>>, <<Head(fan)>>}
    BY <1>1 DEF Forward, Take, engineVars
  <2>2. /\ Rising(fan') /\ Before(sink, fan')
        /\ \A i \in DOMAIN fan' : Ahead(Head(fan), fan'[i])
        /\ \A i \in DOMAIN sink : Ahead(sink[i], Head(fan))
    BY <2>1, OrderTail, QueueTypes DEF OrderInv, Queue
  <2>3. Before(held', fan') /\ Before(sink, held')
    BY <2>1, <2>2 DEF Before
  <2>4. Awaits(fan', data) /\ Awaits(held', data)
    BY <2>1, TailFacts, QueueTypes DEF OrderInv, Awaits, Queue
  <2>5. QED
    BY <2>1, <2>2, <2>3, <2>4 DEF OrderInv
<1>2. CASE SendToSink
  <2>1. /\ held # <<>> /\ sink' = Append(sink, Head(held)) /\ held' = <<>>
        /\ fan' = fan /\ data' = data
    BY <1>2 DEF SendToSink, engineVars
  <2>2. /\ Head(held) \in Batch \cup Progress /\ Head(held) = held[1] /\ 1 \in DOMAIN held
    BY <2>1, QueueTypes
  <2>3. /\ \A i \in DOMAIN sink : Ahead(sink[i], Head(held))
        /\ \A i \in DOMAIN fan : Ahead(Head(held), fan[i])
    BY <2>2 DEF OrderInv, Before
  <2>4. Rising(sink') /\ Before(sink', fan)
    BY <2>1, <2>2, <2>3, OrderAppend, QueueTypes DEF OrderInv, Queue
  <2>5. Before(sink', held') /\ Before(held', fan)
    BY <2>1 DEF Before
  <2>6. Awaits(sink', data)
    <3>1. \A i \in DOMAIN sink' : (i \in DOMAIN sink /\ sink'[i] = sink[i]) \/ sink'[i] = held[1]
      BY <2>1, <2>2, AppendFacts, QueueTypes DEF Queue
    <3>2. QED
      BY <2>2, <3>1 DEF OrderInv, Awaits
  <2>7. Awaits(held', data)
    BY <2>1 DEF Awaits
  <2>8. QED
    BY <2>1, <2>4, <2>5, <2>6, <2>7 DEF OrderInv
<1>3. QED
  BY <1>1, <1>2

\* The sink task takes the first; if it is kept, all others wait for later places.
LEMMA SinkTakesOrder ==
  ASSUME IInv, OrderInv, NEW f \in Files, SinkTakes(f)
  PROVE  OrderInv'
<1>1. sink # <<>> /\ sink' = Tail(sink) /\ UNCHANGED <<fan, held>> /\ Parsing(f)
  BY DEF SinkTakes
<1>2. /\ Rising(sink') /\ Before(sink', held) /\ Before(sink', fan)
      /\ \A i \in DOMAIN sink' : Ahead(Head(sink), sink'[i])
      /\ \A i \in DOMAIN held : Ahead(Head(sink), held[i])
      /\ \A i \in DOMAIN fan : Ahead(Head(sink), fan[i])
  BY <1>1, OrderTail, QueueTypes DEF OrderInv, Queue
<1>3. Awaits(sink', data) /\ Awaits(held, data) /\ Awaits(fan, data)
  BY <1>1, TailFacts, QueueTypes DEF OrderInv, Awaits, Queue
<1>4. CASE data' = data
  BY <1>1, <1>2, <1>3, <1>4 DEF OrderInv
<1>5. CASE data' # data
  <2>1. /\ Head(sink).kind = "batch" /\ Head(sink).seq = Len(data[f])
        /\ data' = [data EXCEPT ![f] = Append(@, Head(sink))]
    BY <1>5 DEF SinkTakes, AppendBatch
  <2>2. /\ Head(sink).file = f /\ Head(sink) \in Batch
        /\ data \in [Files -> Seq(Batch)] /\ data[f] \in Seq(Batch)
    BY <1>1, <2>1, TakenFacts DEF IInv, TypeOK
  <2>3. Len(data'[f]) = Len(data[f]) + 1 /\ \A g \in Files : g # f => data'[g] = data[g]
    BY <2>1, <2>2, AppendFacts
  <2>4. ASSUME NEW q \in Queue, Awaits(q, data), \A i \in DOMAIN q : Ahead(Head(sink), q[i])
        PROVE  Awaits(q, data')
    <3> SUFFICES ASSUME NEW i \in DOMAIN q, q[i].kind = "batch" PROVE q[i].seq >= Len(data'[q[i].file])
      BY DEF Awaits
    <3>1. q[i].file \in Files /\ q[i].seq \in Nat /\ q[i].seq >= Len(data[q[i].file])
      BY <2>4, FrameFacts DEF Awaits, Queue
    <3>2. CASE q[i].file # f
      BY <2>3, <3>1, <3>2
    <3>3. CASE q[i].file = f
      <4>1. Len(data[f]) < q[i].seq
        BY <2>1, <2>2, <2>4, <3>3 DEF Ahead
      <4>2. QED
        BY <2>2, <2>3, <3>1, <3>3, <4>1
    <3>4. QED
      BY <3>2, <3>3
  <2>5. sink' \in Queue /\ held \in Queue /\ fan \in Queue
    BY <1>1, TailFacts, QueueTypes DEF Queue
  <2>6. QED
    BY <1>1, <1>2, <1>3, <2>4, <2>5 DEF OrderInv
<1>6. QED
  BY <1>4, <1>5

\* A file's data are dropped: every number is later than none.
LEMMA DropOrder ==
  ASSUME IInv, OrderInv, NEW f \in Files, Drop(f), UNCHANGED <<fan, held, sink>>
  PROVE  OrderInv'
<1>1. data' = [data EXCEPT ![f] = <<>>] /\ data \in [Files -> Seq(Batch)]
  BY DEF Drop, IInv, TypeOK
<1>2. ASSUME NEW q \in Queue, Awaits(q, data) PROVE Awaits(q, data')
  <2> SUFFICES ASSUME NEW i \in DOMAIN q, q[i].kind = "batch" PROVE q[i].seq >= Len(data'[q[i].file])
    BY DEF Awaits
  <2>1. q[i].file \in Files /\ q[i].seq \in Nat /\ q[i].seq >= Len(data[q[i].file])
    BY <1>2, FrameFacts DEF Awaits, Queue
  <2>2. QED
    BY <1>1, <2>1
<1>3. QED
  BY <1>2, QueueTypes DEF OrderInv

\* On the way to the store no batch overtakes another, whatever happens.
LEMMA OrderStep == ASSUME IInv, CountInv, OrderInv, [Next]_vars PROVE OrderInv'
<1>1. CASE UNCHANGED <<fan, held, sink, data>>
  BY <1>1 DEF OrderInv
<1>2. CASE Plugin \/ ReadAnswer \/ SeeDone \/ ForwardEnds \/ UNCHANGED vars
  BY <1>1, <1>2 DEF Plugin, ReadAnswer, SeeDone, ForwardEnds, vars, engineVars
<1>3. CASE ReadBatch
  <2>1. UNCHANGED <<held, sink, data>>
    BY <1>3 DEF ReadBatch, engineVars
  <2>2. CASE fan' # fan
    <3>1. /\ wire # <<>> /\ Head(wire).kind = "batch" /\ FanOut(Head(wire))
          /\ Head(wire).seq = Len(accepted[Head(wire).file])
      BY <1>3, <2>2 DEF ReadBatch
    <3>2. QED
      BY <2>1, <3>1, WireFacts, FrameFacts, FanOutOrder
  <2>3. QED
    BY <1>1, <2>1, <2>2
<1>4. CASE ReadProgress
  <2>1. wire # <<>> /\ Head(wire).kind = "progress" /\ FanOut(Head(wire))
        /\ UNCHANGED <<held, sink, data>>
    BY <1>4 DEF ReadProgress, Read, engineVars
  <2>2. QED
    BY <2>1, WireFacts, FrameFacts, FanOutOrder
<1>5. CASE Forward \/ SendToSink
  BY <1>5, ForwardOrder
<1>6. ASSUME NEW f \in Files, StartParse(f) \/ CallFails(f) \/ ParseReturns(f) PROVE OrderInv'
  BY <1>1, <1>6 DEF StartParse, CallFails, ParseReturns, engineVars
<1>7. ASSUME NEW f \in Files, SinkTakes(f) PROVE OrderInv'
  BY <1>7, SinkTakesOrder
<1>8. ASSUME NEW f \in Files, Verdict(f) \/ Discard(f) PROVE OrderInv'
  BY <1>1, <1>8, DropOrder DEF Verdict, Discard
<1>9. QED
  BY <1>2, <1>3, <1>4, <1>5, <1>6, <1>7, <1>8 DEF Next, Host, Pump, Engine

\* What is in a queue and is not its first is in the rest.
LEMMA InTail ==
  ASSUME NEW S, NEW q \in Seq(S), q # <<>>, NEW b, In(b, q), b # Head(q)
  PROVE  In(b, Tail(q))
<1>1. PICK i \in DOMAIN q : q[i] = b
  BY DEF In
<1>2. Head(q) = q[1] /\ DOMAIN q = 1 .. Len(q) /\ Len(q) \in Nat
  BY TailFacts
<1>3. i - 1 \in DOMAIN Tail(q) /\ Tail(q)[i - 1] = q[i]
  BY <1>1, <1>2
<1>4. QED
  BY <1>1, <1>3 DEF In

\* Where the forward task is, and what its parse call has come to.
LEMMA CalledStep == ASSUME IInv, CalledInv, [Next]_vars PROVE CalledInv'
<1>1. /\ call \in [Files -> {"none", "waiting", "result", "error"}]
      /\ pc \in [Files -> {"new", "parsing", "joining", "ready", "failed"}]
  BY DEF IInv, TypeOK
<1>2. CASE UNCHANGED <<forward, fan, pc, call>>
  BY <1>2 DEF CalledInv, Parsing
<1>3. CASE Plugin \/ SendToSink \/ UNCHANGED vars
  BY <1>2, <1>3 DEF Plugin, SendToSink, vars, callVars
<1>4. CASE ReadBatch \/ ReadProgress
  <2>1. UNCHANGED <<forward, pc, call>> /\ (UNCHANGED fan \/ Subscribed)
    BY <1>4 DEF ReadBatch, ReadProgress, FanOut, callVars
  <2>2. QED
    BY <2>1 DEF CalledInv, Subscribed, Parsing
<1>5. CASE ReadAnswer
  <2>1. PICK f : /\ UNCHANGED <<forward, pc, fan>>
                 /\ \/ call[f] = "waiting" /\ \E k \in {"result", "error"} :
                                                call' = [call EXCEPT ![f] = k]
                    \/ UNCHANGED call
    BY <1>5 DEF ReadAnswer, Read, callVars
  <2>2. QED
    BY <1>1, <2>1 DEF CalledInv, Parsing
<1>6. CASE Forward
  <2>1. UNCHANGED <<forward, pc, call>> /\ forward \notin {"off", "done"}
    BY <1>6 DEF Forward, callVars
  <2>2. QED
    BY <2>1 DEF CalledInv, Parsing
<1>7. CASE SeeDone
  <2>1. PICK f \in Files : pc[f] = "parsing" /\ call[f] \in {"result", "error"}
    BY <1>7 DEF SeeDone, CallDone
  <2>2. forward' = "drain" /\ UNCHANGED <<pc, call, fan>>
    BY <1>7 DEF SeeDone, callVars
  <2>3. \A g \in Files : Parsing(g) => g = f
    BY <2>1 DEF IInv, TurnInv, Parsing
  <2>4. QED
    BY <2>1, <2>2, <2>3 DEF CalledInv, Parsing
<1>8. CASE ForwardEnds
  BY <1>8 DEF ForwardEnds, callVars, CalledInv, Parsing
<1>9. ASSUME NEW f \in Files, StartParse(f) PROVE CalledInv'
  <2>1. /\ \A g \in Files : ~Parsing(g) /\ pc' = [pc EXCEPT ![f] = "parsing"]
        /\ call' = [call EXCEPT ![f] = "waiting"] /\ forward' = "select"
    BY <1>9 DEF StartParse, Goto
  <2>2. QED
    BY <1>1, <2>1 DEF CalledInv, Parsing
<1>10. ASSUME NEW f \in Files, CallFails(f) PROVE CalledInv'
  BY <1>1, <1>10 DEF CallFails, CalledInv, Parsing
<1>11. ASSUME NEW f \in Files, ParseReturns(f) PROVE CalledInv'
  BY <1>1, <1>11 DEF ParseReturns, Goto, CalledInv, Parsing, callVars
<1>12. ASSUME NEW f \in Files, Verdict(f) PROVE CalledInv'
  <2>1. /\ UNCHANGED <<forward, fan>> /\ call' = [call EXCEPT ![f] = "none"]
        /\ pc' = [pc EXCEPT ![f] = "ready"] \/ pc' = [pc EXCEPT ![f] = "failed"]
    BY <1>12 DEF Verdict, Goto
  <2>2. QED
    BY <1>1, <2>1 DEF CalledInv, Parsing
<1>13. ASSUME NEW f \in Files, SinkTakes(f) \/ Discard(f) PROVE CalledInv'
  BY <1>2, <1>13 DEF SinkTakes, Discard, callVars
<1>14. QED
  BY <1>3, <1>4, <1>5, <1>6, <1>7, <1>8, <1>9, <1>10, <1>11, <1>12, <1>13
     DEF Next, Host, Pump, Engine

\* A step that leaves the pipe alone, or takes what is no batch from it.
LEMMA WireKept ==
  ASSUME IInv, WireInv, NumberInv, UNCHANGED <<sent, honest, accepted, pump>>,
         \/ wire' = wire
         \/ wire # <<>> /\ wire' = Tail(wire) /\ Head(wire).kind # "batch",
         \A f \in Files : call'[f] = "result" =>
           call[f] = "result" \/ (NoBatch(f, wire') /\ (honest => Len(accepted[f]) = Len(sent[f])))
  PROVE  WireInv'
<1> SUFFICES ASSUME honest PROVE WireInv'
  BY DEF WireInv
<1>1. wire \in Wire
  BY DEF IInv, TypeOK, Wire
<1>2. \A i \in DOMAIN wire' : \E k \in DOMAIN wire : wire'[i] = wire[k]
  BY RestFacts
<1>3. \A f \in Files : NoBatch(f, wire) => NoBatch(f, wire')
  BY <1>2 DEF NoBatch
<1>4. ASSUME NEW i \in DOMAIN wire', NEW j \in DOMAIN wire', i < j,
             wire'[i].kind = "result", wire'[j].kind = "batch"
      PROVE  wire'[i].file # wire'[j].file
  <2>1. CASE wire' = wire
    BY <1>4, <2>1 DEF WireInv
  <2>2. CASE wire # <<>> /\ wire' = Tail(wire)
    <3>1. /\ i + 1 \in DOMAIN wire /\ wire'[i] = wire[i + 1]
          /\ j + 1 \in DOMAIN wire /\ wire'[j] = wire[j + 1] /\ i + 1 < j + 1
      BY <1>1, <1>4, <2>2, TailFacts DEF Wire
    <3>2. QED
      BY <1>4, <3>1 DEF WireInv
  <2>3. QED
    BY <2>1, <2>2
<1>5. ASSUME pump = "reading", NEW f \in Files, NEW k \in Len(accepted[f]) + 1 .. Len(sent[f])
      PROVE  In(sent[f][k], wire')
  <2>1. In(sent[f][k], wire)
    BY <1>5 DEF WireInv
  <2>2. CASE wire # <<>> /\ wire' = Tail(wire) /\ Head(wire).kind # "batch"
    <3>1. sent[f] \in Seq(Batch) /\ accepted[f] \in Seq(Batch)
      BY DEF IInv, TypeOK
    <3>2. sent[f][k] \in Batch
      BY <1>5, <3>1
    <3>3. sent[f][k] # Head(wire)
      BY <2>2, <3>2 DEF Batch
    <3>4. QED
      BY <1>1, <2>1, <2>2, <3>3, InTail DEF Wire
  <2>3. QED
    BY <2>1, <2>2
<1>6. QED
  BY <1>3, <1>4, <1>5 DEF WireInv

\* The plugin puts a batch into the pipe: it was asked, so it has not answered.
LEMMA WireEmits ==
  ASSUME IInv, CountInv, NumberInv, WireInv, NEW f \in Files, NEW n \in Sizes, EmitBatch(f, n),
         honest', UNCHANGED <<accepted, call, pump>>
  PROVE  WireInv'
<1> DEFINE b == Frame("batch", f, Len(sent[f]), n)
<1>1. /\ honest /\ f \in asked /\ wire' = Append(wire, b)
      /\ sent' = [sent EXCEPT ![f] = Append(@, b)]
  BY DEF EmitBatch, Write
<1>2. b \in Batch /\ b.file = f /\ b.kind = "batch"
  <2>1. Len(sent[f]) \in Nat /\ MaxBatches[f] \in Nat
    BY StreamAssumption DEF IInv, TypeOK
  <2>2. Len(sent[f]) \in 0 .. MaxBatches[f]
    BY <2>1 DEF EmitBatch
  <2>3. QED
    BY <2>2 DEF Frame, Batch
<1> HIDE DEF b
<1>3. /\ sent \in [Files -> Seq(Batch)] /\ sent[f] \in Seq(Batch) /\ wire \in Wire
      /\ \A g \in Files : accepted[g] \in Seq(Batch)
  BY DEF IInv, TypeOK, Wire
<1>4. /\ sent'[f] = Append(sent[f], b) /\ Len(sent'[f]) = Len(sent[f]) + 1
      /\ sent'[f][Len(sent[f]) + 1] = b
      /\ \A i \in DOMAIN sent[f] : sent'[f][i] = sent[f][i]
      /\ \A g \in Files : g # f => sent'[g] = sent[g]
  BY <1>1, <1>2, <1>3, AppendFacts
<1>5. /\ \A i \in DOMAIN wire : i \in DOMAIN wire' /\ wire'[i] = wire[i]
      /\ \A i \in DOMAIN wire' : i \in DOMAIN wire \/ i = Len(wire) + 1
      /\ wire'[Len(wire) + 1] = b /\ Len(wire) + 1 \in DOMAIN wire'
      /\ DOMAIN wire = 1 .. Len(wire) /\ Len(wire) \in Nat
  BY <1>1, <1>2, <1>3, AppendFacts DEF Wire
<1>6. ASSUME pump = "reading", NEW g \in Files, NEW k \in Len(accepted[g]) + 1 .. Len(sent'[g])
      PROVE  In(sent'[g][k], wire')
  <2>1. CASE g = f /\ k = Len(sent[f]) + 1
    BY <1>4, <1>5, <2>1 DEF In
  <2>2. CASE ~(g = f /\ k = Len(sent[f]) + 1)
    <3>1. k \in Len(accepted[g]) + 1 .. Len(sent[g]) /\ sent'[g][k] = sent[g][k]
      BY <1>3, <1>4, <1>6, <2>2
    <3>2. In(sent[g][k], wire)
      BY <1>1, <1>6, <3>1 DEF WireInv
    <3>3. QED
      BY <1>5, <3>1, <3>2 DEF In
  <2>3. QED
    BY <2>1, <2>2
<1>7. ASSUME NEW i \in DOMAIN wire', NEW j \in DOMAIN wire', i < j,
             wire'[i].kind = "result", wire'[j].kind = "batch"
      PROVE  wire'[i].file # wire'[j].file
  <2>1. i \in DOMAIN wire /\ wire'[i] = wire[i]
    BY <1>5, <1>7
  <2>2. CASE j \in DOMAIN wire
    BY <1>1, <1>5, <1>7, <2>1, <2>2 DEF WireInv
  <2>3. CASE j = Len(wire) + 1
    <3>1. wire[i].file \notin asked
      BY <1>1, <1>7, <2>1 DEF CountInv, HonestInv, Faithful
    <3>2. QED
      BY <1>1, <1>2, <1>5, <2>1, <2>3, <3>1
  <2>4. QED
    BY <1>5, <2>2, <2>3
<1>8. ASSUME NEW g \in Files, call[g] = "result"
      PROVE  NoBatch(g, wire') /\ Len(accepted[g]) = Len(sent'[g])
  <2>1. g # f
    BY <1>1, <1>8 DEF CountInv, HonestInv, Counted
  <2>2. NoBatch(g, wire) /\ Len(accepted[g]) = Len(sent[g])
    BY <1>1, <1>8 DEF WireInv
  <2>3. NoBatch(g, wire')
    BY <1>2, <1>5, <2>1, <2>2 DEF NoBatch
  <2>4. QED
    BY <1>4, <2>1, <2>2, <2>3
<1>9. QED
  BY <1>6, <1>7, <1>8 DEF WireInv

\* Anything else it sends is no batch, or breaks the protocol.
LEMMA WireSends ==
  ASSUME IInv, WireInv, NEW fr \in Batch \cup Progress \cup Answer, fr.kind # "batch",
         wire' = Append(wire, fr), UNCHANGED <<sent, accepted, call, pump>>, honest
  PROVE  WireInv'
<1>1. wire \in Wire
  BY DEF IInv, TypeOK, Wire
<1>2. /\ \A i \in DOMAIN wire : i \in DOMAIN wire' /\ wire'[i] = wire[i]
      /\ \A i \in DOMAIN wire' : i \in DOMAIN wire \/ i = Len(wire) + 1
      /\ wire'[Len(wire) + 1] = fr
      /\ DOMAIN wire = 1 .. Len(wire) /\ Len(wire) \in Nat
  BY <1>1, AppendFacts DEF Wire
<1>3. ASSUME NEW b, In(b, wire) PROVE In(b, wire')
  BY <1>2, <1>3 DEF In
<1>4. ASSUME NEW j \in DOMAIN wire', wire'[j].kind = "batch" PROVE j \in DOMAIN wire /\ wire'[j] = wire[j]
  BY <1>2, <1>4
<1>5. ASSUME NEW g \in Files, NoBatch(g, wire) PROVE NoBatch(g, wire')
  BY <1>4, <1>5 DEF NoBatch
<1>6. ASSUME NEW i \in DOMAIN wire', NEW j \in DOMAIN wire', i < j,
             wire'[i].kind = "result", wire'[j].kind = "batch"
      PROVE  wire'[i].file # wire'[j].file
  <2>1. j \in DOMAIN wire /\ i \in DOMAIN wire /\ wire'[j] = wire[j] /\ wire'[i] = wire[i]
    BY <1>2, <1>4, <1>6
  <2>2. QED
    BY <1>6, <2>1 DEF WireInv
<1>7. QED
  BY <1>3, <1>5, <1>6 DEF WireInv

\* A step of the plugin.
LEMMA WirePlugin == ASSUME IInv, CountInv, NumberInv, WireInv, Plugin PROVE WireInv'
<1> SUFFICES ASSUME honest' PROVE WireInv'
  BY DEF WireInv
<1>1. UNCHANGED <<accepted, call, pump>>
  BY DEF Plugin, hostVars, callVars
<1>2. PICK f \in Files :
        \/ \E n \in Sizes : EmitBatch(f, n) \/ \E i \in 0 .. MaxBatches[f] : EmitBad(f, i, n)
        \/ EmitProgress(f) \/ AnswerError(f)
        \/ \E n \in Totals(f) : AnswerResult(f, n)
  BY DEF Plugin
<1>3. ASSUME NEW n \in Sizes, EmitBatch(f, n) PROVE WireInv'
  BY <1>1, <1>3, WireEmits
<1>4. CASE EmitProgress(f)
  <2>1. Frame("progress", f, 0, 0) \in Progress /\ Frame("progress", f, 0, 0).kind # "batch"
    BY DEF Progress, Frame
  <2>2. QED
    BY <1>1, <1>4, <2>1, WireSends DEF EmitProgress, Write
<1>5. ASSUME NEW k \in {"result", "error"}, NEW n \in Nat, Write(Frame(k, f, 0, n)),
             sent' = sent, honest
      PROVE  WireInv'
  <2>1. Frame(k, f, 0, n) \in Answer /\ Frame(k, f, 0, n).kind # "batch"
    BY DEF Answer, Frame
  <2>2. QED
    BY <1>1, <1>5, <2>1, WireSends DEF Write
<1>6. CASE AnswerError(f)
  BY <1>5, <1>6 DEF AnswerError
<1>7. ASSUME NEW n \in Totals(f), AnswerResult(f, n) PROVE WireInv'
  <2>1. n \in Nat
    BY DEF Totals
  <2>2. QED
    BY <1>5, <1>7, <2>1 DEF AnswerResult
<1>8. QED
  BY <1>2, <1>3, <1>4, <1>6, <1>7 DEF EmitBad

\* The read pump passes a batch: the others it has not passed are behind it.
LEMMA WireReadsBatch == ASSUME IInv, NumberInv, WireInv, ReadBatch PROVE WireInv'
<1> DEFINE fr == Head(wire)
<1>1. /\ wire # <<>> /\ fr.kind = "batch" /\ pump = "reading"
      /\ UNCHANGED <<sent, honest, call>>
  BY DEF ReadBatch, callVars
<1> SUFFICES ASSUME honest PROVE WireInv'
  BY <1>1 DEF WireInv
<1>2. /\ wire \in Wire /\ fr \in Batch /\ fr.file \in Files /\ fr = wire[1] /\ 1 \in DOMAIN wire
      /\ accepted \in [Files -> Seq(Batch)]
  BY <1>1, WireFacts, FrameFacts, TailFacts DEF IInv, TypeOK, Wire
<1>3. \A g \in Files : call[g] = "result" =>
        /\ NoBatch(g, wire) /\ Len(accepted[g]) = Len(sent[g]) /\ g # fr.file
  BY <1>1, <1>2 DEF WireInv, NoBatch
<1> HIDE DEF fr
<1>4. CASE fr.seq # Len(accepted[fr.file])
  <2>1. pump' = "stopped" /\ wire' = <<>> /\ accepted' = accepted
    BY <1>4 DEF ReadBatch, fr
  <2>2. QED
    BY <1>1, <1>3, <2>1 DEF WireInv, NoBatch
<1>5. CASE fr.seq = Len(accepted[fr.file])
  <2>1. /\ pump' = pump /\ wire' = Tail(wire)
        /\ accepted' = [accepted EXCEPT ![fr.file] = Append(@, fr)]
    BY <1>5 DEF ReadBatch, fr
  <2>2. \A i \in DOMAIN wire' : i + 1 \in DOMAIN wire /\ wire'[i] = wire[i + 1] /\ i \in Nat
    BY <1>1, <1>2, <2>1, TailFacts DEF Wire
  <2>3. /\ Len(accepted'[fr.file]) = Len(accepted[fr.file]) + 1
        /\ \A g \in Files : g # fr.file => accepted'[g] = accepted[g]
        /\ \A g \in Files : Len(accepted[g]) \in Nat
    BY <1>2, <2>1, AppendFacts
  <2>4. ASSUME NEW g \in Files, NEW k \in Len(accepted'[g]) + 1 .. Len(sent[g])
        PROVE  In(sent[g][k], wire')
    <3>1. sent[g] \in Seq(Batch) /\ Numbered(g, sent[g])
      BY DEF IInv, TypeOK, NumberInv
    <3>2. k \in Len(accepted[g]) + 1 .. Len(sent[g]) /\ k \in 1 .. Len(sent[g])
      BY <2>3, <2>4, <3>1
    <3>3. In(sent[g][k], wire)
      BY <1>1, <3>2 DEF WireInv
    <3>4. sent[g][k].file = g /\ sent[g][k].seq = k - 1
      BY <3>1, <3>2 DEF Numbered
    <3>5. sent[g][k] # fr
      BY <1>5, <2>3, <2>4, <3>1, <3>2, <3>4
    <3>6. QED
      BY <1>1, <1>2, <2>1, <3>3, <3>5, InTail DEF Wire, fr
  <2>5. ASSUME NEW i \in DOMAIN wire', NEW j \in DOMAIN wire', i < j,
               wire'[i].kind = "result", wire'[j].kind = "batch"
        PROVE  wire'[i].file # wire'[j].file
    BY <2>2, <2>5 DEF WireInv
  <2>6. ASSUME NEW g \in Files, call[g] = "result"
        PROVE  NoBatch(g, wire') /\ Len(accepted'[g]) = Len(sent[g])
    BY <1>3, <2>2, <2>3, <2>6 DEF NoBatch
  <2>7. QED
    BY <1>1, <2>4, <2>5, <2>6 DEF WireInv
<1>6. QED
  BY <1>4, <1>5

\* The read pump takes the result: all batches of the file were before it.
LEMMA WireReadsAnswer == ASSUME IInv, CountInv, NumberInv, WireInv, ReadAnswer PROVE WireInv'
<1>1. /\ UNCHANGED <<sent, honest, accepted, pump>> /\ wire # <<>> /\ wire' = Tail(wire)
      /\ Head(wire).kind \in {"result", "error"} /\ pump = "reading"
  BY DEF ReadAnswer, Read, pluginVars, hostVars
<1> SUFFICES ASSUME honest PROVE WireInv'
  BY <1>1 DEF WireInv
<1>2. wire \in Wire /\ Head(wire) = wire[1] /\ 1 \in DOMAIN wire
  BY <1>1, TailFacts DEF IInv, TypeOK, Wire
<1>3. \A i \in DOMAIN wire' : i + 1 \in DOMAIN wire /\ wire'[i] = wire[i + 1] /\ i \in Nat /\ i # 0
  BY <1>1, <1>2, TailFacts DEF Wire
<1>4. ASSUME NEW f \in Files, call'[f] = "result", call[f] # "result"
      PROVE  NoBatch(f, wire') /\ Len(accepted[f]) = Len(sent[f])
  <2>1. wire[1].kind = "result" /\ wire[1].file = f
    <3>1. PICK fr : fr = Head(wire) /\ (call' = [call EXCEPT ![fr.file] = fr.kind] \/ call' = call)
      BY DEF ReadAnswer, callVars
    <3>2. call \in [Files -> {"none", "waiting", "result", "error"}]
      BY DEF IInv, TypeOK
    <3>3. fr.file = f /\ fr.kind = "result"
      BY <1>4, <3>1, <3>2
    <3>4. QED
      BY <1>2, <3>1, <3>3
  <2>2. \A i \in DOMAIN wire' : wire'[i].kind = "batch" => wire'[i].file # f
    <3>1. ASSUME NEW i \in DOMAIN wire', wire'[i].kind = "batch" PROVE wire'[i].file # f
      <4>1. i + 1 \in DOMAIN wire /\ 1 < i + 1 /\ wire[i + 1].kind = "batch"
        BY <1>3, <3>1
      <4>2. QED
        BY <1>2, <1>3, <2>1, <4>1 DEF WireInv
    <3>2. QED
      BY <3>1
  <2>3. Len(accepted[f]) = Len(sent[f])
    <3>1. /\ sent[f] \in Seq(Batch) /\ accepted[f] \in Seq(Batch)
          /\ Numbered(f, sent[f]) /\ Begins(accepted[f], sent[f])
      BY DEF IInv, TypeOK, NumberInv, CountInv, HonestInv, Counted
    <3>2. SUFFICES ASSUME Len(accepted[f]) < Len(sent[f]) PROVE FALSE
      BY <3>1 DEF Begins
    <3>3. Len(accepted[f]) + 1 \in Len(accepted[f]) + 1 .. Len(sent[f])
      BY <3>1, <3>2
    <3>4. In(sent[f][Len(accepted[f]) + 1], wire)
      BY <1>1, <3>3 DEF WireInv
    <3>5. /\ sent[f][Len(accepted[f]) + 1].file = f
          /\ sent[f][Len(accepted[f]) + 1] \in Batch
      BY <3>1, <3>3 DEF Numbered
    <3>6. sent[f][Len(accepted[f]) + 1].kind = "batch"
      BY <3>5 DEF Batch
    <3>7. In(sent[f][Len(accepted[f]) + 1], wire')
      BY <1>1, <1>2, <2>1, <3>4, <3>6, InTail DEF Wire
    <3>8. QED
      BY <2>2, <3>5, <3>6, <3>7 DEF In
  <2>4. QED
    BY <2>2, <2>3 DEF NoBatch
<1>5. QED
  BY <1>1, <1>4, WireKept

\* What an honest plugin has sent is on the wire until it is passed, whatever happens.
LEMMA WireStep == ASSUME IInv, CountInv, NumberInv, WireInv, [Next]_vars PROVE WireInv'
<1>1. CASE Plugin
  BY <1>1, WirePlugin
<1>2. CASE ReadBatch \/ ReadAnswer
  BY <1>2, WireReadsBatch, WireReadsAnswer
<1>3. CASE /\ UNCHANGED <<sent, honest, accepted, pump, wire>>
           /\ \A f \in Files : call'[f] = "result" => call[f] = "result"
  BY <1>3, WireKept
<1>4. CASE ReadProgress
  BY <1>4, WireKept DEF ReadProgress, Read, pluginVars, callVars
<1>5. CASE Forward \/ SendToSink \/ SeeDone \/ ForwardEnds \/ UNCHANGED vars
  BY <1>3, <1>5
     DEF Forward, SendToSink, SeeDone, ForwardEnds, vars, pluginVars, hostVars, callVars
<1>6. ASSUME NEW f \in Files, StartParse(f) PROVE WireInv'
  <2>1. accepted' = accepted /\ call' = [call EXCEPT ![f] = "waiting"]
        /\ UNCHANGED <<sent, honest, pump, wire>>
    BY <1>6, StartStep DEF StartParse
  <2>2. QED
    BY <1>3, <2>1 DEF IInv, TypeOK
<1>7. ASSUME NEW f \in Files, CallFails(f) \/ Verdict(f) PROVE WireInv'
  <2>1. call' = [call EXCEPT ![f] = "error"] \/ call' = [call EXCEPT ![f] = "none"]
    BY <1>7 DEF CallFails, Verdict
  <2>2. UNCHANGED <<sent, honest, accepted, pump, wire>>
    BY <1>7 DEF CallFails, Verdict, pluginVars, hostVars
  <2>3. QED
    BY <1>3, <2>1, <2>2 DEF IInv, TypeOK
<1>8. ASSUME NEW f \in Files, SinkTakes(f) \/ ParseReturns(f) \/ Discard(f) PROVE WireInv'
  BY <1>3, <1>8 DEF SinkTakes, ParseReturns, Discard, pluginVars, hostVars, callVars
<1>9. QED
  BY <1>1, <1>2, <1>4, <1>5, <1>6, <1>7, <1>8 DEF Next, Host, Pump, Engine

\* What is on its way stays so if no queue loses it.
Queued(b) == In(b, sink) \/ In(b, held) \/ In(b, fan)

\* A step that takes nothing of a parse that runs off its way.
LEMMA WholeKept ==
  ASSUME IInv, NumberInv, WholeInv, honest' => honest, UNCHANGED <<accepted, data>>,
         failure' \subseteq failure, lost \subseteq lost', discarded \subseteq discarded',
         \A f \in Files : Parsing(f)' /\ call'[f] # "error" => Parsing(f) /\ call[f] # "error",
         \A f \in Files : \A b \in Batch :
           Parsing(f)' /\ b.file = f /\ Queued(b) => Queued(b)'
  PROVE  WholeInv'
<1> SUFFICES ASSUME honest', NEW f \in Files, Parsing(f)', call'[f] # "error",
                    f \notin lost' \cup discarded'
             PROVE  Whole(f)'
  BY DEF WholeInv
<1>1. Whole(f)
  BY DEF WholeInv
<1>2. accepted[f] \in Seq(Batch) /\ data[f] \in Seq(Batch) /\ Numbered(f, accepted[f])
  BY DEF IInv, TypeOK, NumberInv
<1>3. ASSUME NEW k \in Len(data[f]) + 1 .. Len(accepted[f]) PROVE Queued(accepted[f][k])'
  <2>1. Queued(accepted[f][k])
    BY <1>1, <1>3 DEF Whole, Queued
  <2>2. accepted[f][k] \in Batch /\ accepted[f][k].file = f
    BY <1>2, <1>3 DEF Numbered
  <2>3. QED
    BY <2>1, <2>2
<1>4. QED
  BY <1>1, <1>3 DEF Whole, Queued

\* The fan-out loses a batch only if it says so.
LEMMA WholeReads == ASSUME IInv, CalledInv, NumberInv, WireInv, WholeInv, ReadBatch PROVE WholeInv'
<1> DEFINE fr == Head(wire)
<1>1. /\ wire # <<>> /\ fr.kind = "batch"
      /\ UNCHANGED <<honest, call, pc, held, sink, data, failure, discarded, forward>>
  BY DEF ReadBatch, callVars, engineVars
<1>2. fr \in Batch /\ fr.file \in Files /\ fr = wire[1] /\ 1 \in DOMAIN wire
  BY <1>1, WireFacts, FrameFacts, TailFacts DEF IInv, TypeOK
<1> HIDE DEF fr
<1>3. CASE UNCHANGED <<accepted, fan, lost>>
  BY <1>1, <1>3, WholeKept DEF Parsing, Queued
<1>4. CASE accepted' = [accepted EXCEPT ![fr.file] = Append(@, fr)] /\ FanOut(fr)
  <2> SUFFICES ASSUME honest, NEW f \in Files, Parsing(f), call[f] # "error",
                      f \notin lost' \cup discarded
               PROVE  Whole(f)'
    BY <1>1 DEF WholeInv, Parsing
  <2>1. /\ fan \in Seq(Batch \cup Progress) /\ accepted[f] \in Seq(Batch) /\ data[f] \in Seq(Batch)
        /\ accepted \in [Files -> Seq(Batch)]
    BY DEF IInv, TypeOK, Queue
  <2>2. f \notin lost /\ Whole(f)
    BY <1>4 DEF FanOut, WholeInv
  <2>3. \A b : In(b, fan) => In(b, fan')
    <3>1. fan' = fan \/ fan' = Append(fan, fr)
      BY <1>4 DEF FanOut
    <3>2. \A i \in DOMAIN fan : i \in DOMAIN fan' /\ fan'[i] = fan[i]
      BY <1>2, <2>1, <3>1, AppendFacts
    <3>3. QED
      BY <3>2 DEF In
  <2>4. CASE f # fr.file
    <3>1. accepted'[f] = accepted[f]
      BY <1>2, <1>4, <2>1, <2>4
    <3>2. QED
      BY <1>1, <2>2, <2>3, <3>1 DEF Whole
  <2>5. CASE f = fr.file
    <3>1. call[f] # "result"
      BY <1>1, <1>2, <2>5 DEF WireInv, NoBatch
    <3>2. Subscribed
      BY <3>1 DEF CalledInv, Subscribed, IInv, TypeOK
    <3>3. fan' = Append(fan, fr)
      BY <1>1, <1>4, <2>5, <3>2 DEF FanOut
    <3>4. In(fr, fan')
      BY <1>2, <2>1, <3>3, AppendFacts DEF In
    <3>5. accepted'[f] = Append(accepted[f], fr)
      BY <1>4, <2>1, <2>5
    <3>6. ASSUME NEW k \in Len(data[f]) + 1 .. Len(accepted'[f])
          PROVE  In(accepted'[f][k], sink) \/ In(accepted'[f][k], held) \/ In(accepted'[f][k], fan')
      <4>1. CASE k = Len(accepted[f]) + 1
        BY <1>2, <2>1, <3>4, <3>5, <4>1, AppendFacts
      <4>2. CASE k # Len(accepted[f]) + 1
        <5>1. k \in Len(data[f]) + 1 .. Len(accepted[f]) /\ accepted'[f][k] = accepted[f][k]
          BY <1>2, <2>1, <3>5, <3>6, <4>2, AppendFacts
        <5>2. QED
          BY <2>2, <2>3, <5>1 DEF Whole
      <4>3. QED
        BY <4>1, <4>2
    <3>7. QED
      BY <1>1, <2>2, <3>6 DEF Whole
  <2>6. QED
    BY <2>4, <2>5
<1>5. QED
  BY <1>3, <1>4 DEF ReadBatch, fr

\* The forward task skips what is of another file, and moves on the rest.
LEMMA WholeForwards == ASSUME IInv, NumberInv, WholeInv, Forward \/ SendToSink PROVE WholeInv'
<1>1. CASE Forward
  <2>1. /\ fan # <<>> /\ held = <<>> /\ fan' = Tail(fan)
        /\ held' = IF Parsing(Head(fan).file) THEN <<Head(fan)>> ELSE <<>>
        /\ UNCHANGED <<sink, honest, accepted, data, failure, lost, discarded, pc, call>>
    BY <1>1 DEF Forward, Take, pluginVars, hostVars, callVars, engineVars
  <2>2. ASSUME NEW f \in Files, NEW b \in Batch, Parsing(f), b.file = f, Queued(b)
        PROVE  In(b, sink) \/ In(b, held') \/ In(b, fan')
    <3>1. CASE In(b, fan) /\ b = Head(fan)
      <4>1. held' = <<b>>
        BY <2>1, <2>2, <3>1
      <4>2. QED
        BY <4>1 DEF In
    <3>2. CASE In(b, fan) /\ b # Head(fan)
      BY <2>1, <3>2, InTail, QueueTypes DEF Queue
    <3>3. ~In(b, held)
      BY <2>1 DEF In
    <3>4. QED
      BY <2>2, <3>1, <3>2, <3>3 DEF Queued
  <2>3. QED
    BY <2>1, <2>2, WholeKept DEF Parsing, Queued
<1>2. CASE SendToSink
  <2>1. /\ held # <<>> /\ sink' = Append(sink, Head(held)) /\ held' = <<>>
        /\ UNCHANGED <<fan, honest, accepted, data, failure, lost, discarded, pc, call>>
    BY <1>2 DEF SendToSink, pluginVars, hostVars, callVars, engineVars
  <2>2. /\ Head(held) = held[1] /\ (\A i \in DOMAIN held : i = 1)
        /\ Head(held) \in Batch \cup Progress /\ sink \in Seq(Batch \cup Progress)
    BY <2>1, QueueTypes DEF Queue
  <2>3. ASSUME NEW b, In(b, sink) \/ In(b, held) PROVE In(b, sink')
    BY <2>1, <2>2, <2>3, AppendFacts DEF In
  <2>4. QED
    BY <2>1, <2>3, WholeKept DEF Parsing, Queued
<1>3. QED
  BY <1>1, <1>2

\* The first in the sink is the next the store waits for.
LEMMA WholeTakes ==
  ASSUME IInv, CountInv, NumberInv, OrderInv, WholeInv, NEW f \in Files, SinkTakes(f)
  PROVE  WholeInv'
<1>1. /\ sink # <<>> /\ sink' = Tail(sink) /\ Parsing(f)
      /\ UNCHANGED <<fan, held, honest, accepted, lost, discarded, pc, call>>
  BY DEF SinkTakes, pluginVars, hostVars, callVars
<1>2. \A g \in Files : Parsing(g) => g = f
  BY <1>1 DEF IInv, TurnInv
<1> SUFFICES ASSUME honest, call[f] # "error", f \notin lost \cup discarded PROVE Whole(f)'
  BY <1>1, <1>2 DEF WholeInv, Parsing
<1>3. Whole(f)
  BY <1>1 DEF WholeInv
<1>4. /\ accepted[f] \in Seq(Batch) /\ data[f] \in Seq(Batch) /\ Numbered(f, accepted[f])
      /\ data \in [Files -> Seq(Batch)]
      /\ sink \in Seq(Batch \cup Progress)
  BY DEF IInv, TypeOK, NumberInv, Queue
<1>5. \A b : In(b, sink) /\ b # Head(sink) => In(b, sink')
  BY <1>1, <1>4, InTail
<1>6. CASE Head(sink).kind # "batch"
  <2>1. UNCHANGED <<data, failure>>
    BY <1>6 DEF SinkTakes
  <2>2. ASSUME NEW k \in Len(data[f]) + 1 .. Len(accepted[f])
        PROVE  In(accepted[f][k], sink') \/ In(accepted[f][k], held) \/ In(accepted[f][k], fan)
    <3>1. accepted[f][k] \in Batch
      BY <1>4, <2>2
    <3>2. accepted[f][k] # Head(sink)
      BY <1>6, <3>1 DEF Batch
    <3>3. QED
      BY <1>3, <1>5, <2>2, <3>2 DEF Whole
  <2>3. QED
    BY <1>1, <1>3, <2>1, <2>2 DEF Whole
<1>7. CASE Head(sink).kind = "batch"
  <2> DEFINE b == Head(sink)
  <2>1. /\ b \in Batch /\ b.file = f /\ b.seq \in Nat /\ b.seq < Len(accepted[f])
        /\ b = sink[1] /\ 1 \in DOMAIN sink
    BY <1>1, <1>4, <1>7, TakenFacts, TailFacts
  <2>2. b.kind = "batch" /\ b.seq >= Len(data[f])
    BY <1>7, <2>1 DEF OrderInv, Awaits
  <2> DEFINE next == accepted[f][Len(data[f]) + 1]
  <2>3. /\ Len(data[f]) + 1 \in Len(data[f]) + 1 .. Len(accepted[f])
        /\ Len(data[f]) + 1 \in 1 .. Len(accepted[f])
    BY <1>4, <2>1, <2>2
  <2>4. next.file = f /\ next.seq = Len(data[f]) /\ next \in Batch
    BY <1>4, <2>3 DEF Numbered
  <2>5. next.kind = "batch"
    BY <2>4 DEF Batch
  <2>6. In(next, sink) \/ In(next, held) \/ In(next, fan)
    BY <1>3, <2>3 DEF Whole
  <2> HIDE DEF next, b
  <2>7. ASSUME next # b PROVE Ahead(b, next)
    <3>1. /\ \A i \in DOMAIN Tail(sink) : Ahead(b, Tail(sink)[i])
          /\ \A i \in DOMAIN held : Ahead(b, held[i])
          /\ \A i \in DOMAIN fan : Ahead(b, fan[i])
      BY <1>1, OrderTail, QueueTypes DEF OrderInv, Queue, b
    <3>2. In(next, Tail(sink)) \/ In(next, held) \/ In(next, fan)
      BY <1>1, <1>5, <2>6, <2>7 DEF b
    <3>3. QED
      BY <3>1, <3>2 DEF In
  <2>8. b.seq = Len(data[f])
    BY <1>4, <2>1, <2>2, <2>4, <2>5, <2>7 DEF Ahead
  <2>9. data' = [data EXCEPT ![f] = Append(@, b)] /\ UNCHANGED failure
    BY <1>3, <1>7, <2>8 DEF SinkTakes, AppendBatch, Whole, b
  <2>10. Len(data'[f]) = Len(data[f]) + 1
    BY <1>4, <2>1, <2>9, AppendFacts
  <2>11. ASSUME NEW k \in Len(data'[f]) + 1 .. Len(accepted[f])
         PROVE  In(accepted[f][k], sink') \/ In(accepted[f][k], held) \/ In(accepted[f][k], fan)
    <3>1. k \in Len(data[f]) + 1 .. Len(accepted[f]) /\ k \in 1 .. Len(accepted[f]) /\ k - 1 # b.seq
      BY <1>4, <2>8, <2>10, <2>11
    <3>2. accepted[f][k] # b
      BY <1>4, <3>1 DEF Numbered
    <3>3. QED
      BY <1>3, <1>5, <3>1, <3>2 DEF Whole, b
  <2>12. QED
    BY <1>1, <1>3, <2>9, <2>11 DEF Whole
<1>8. QED
  BY <1>6, <1>7

\* Of a parse that goes well all that was passed is in the store or on its way,
\* whatever happens.
LEMMA WholeStep ==
  ASSUME IInv, CountInv, ReasonInv, [Next]_vars
  PROVE  WholeInv'
<1> USE DEF ReasonInv
<1>1. CASE Plugin
  <2>1. UNCHANGED <<accepted, data, failure, lost, discarded, pc, call, sink, held, fan>>
    BY <1>1 DEF Plugin, hostVars, callVars, engineVars
  <2>2. honest' => honest
    BY <1>1, Zenon DEF Plugin, EmitBatch, EmitBad, EmitProgress, AnswerError, AnswerResult
  <2>3. QED
    BY <2>1, <2>2, WholeKept DEF Parsing, Queued
<1>2. CASE ReadBatch
  BY <1>2, WholeReads
<1>3. CASE ReadProgress
  <2>1. /\ UNCHANGED <<honest, accepted, data, failure, discarded, pc, call, sink, held>>
        /\ wire # <<>> /\ Head(wire).kind = "progress" /\ FanOut(Head(wire))
    BY <1>3 DEF ReadProgress, Read, pluginVars, callVars, engineVars
  <2>2. Head(wire) \in Batch \cup Progress /\ fan \in Seq(Batch \cup Progress)
    BY <2>1, WireFacts, FrameFacts DEF IInv, TypeOK, Queue
  <2>3. lost' = lost /\ (fan' = fan \/ fan' = Append(fan, Head(wire)))
    BY <2>1 DEF FanOut
  <2>4. \A i \in DOMAIN fan : i \in DOMAIN fan' /\ fan'[i] = fan[i]
    BY <2>2, <2>3, AppendFacts
  <2>5. \A b : In(b, fan) => In(b, fan')
    BY <2>4 DEF In
  <2>6. QED
    BY <2>1, <2>3, <2>5, WholeKept DEF Parsing, Queued
<1>4. CASE ReadAnswer
  <2>1. /\ UNCHANGED <<honest, accepted, data, failure, lost, discarded, pc, sink, held, fan>>
        /\ \A f \in Files : call'[f] = call[f] \/ call[f] = "waiting"
    BY <1>4 DEF ReadAnswer, Read, pluginVars, hostVars, callVars, engineVars, IInv, TypeOK
  <2>2. QED
    BY <2>1, WholeKept DEF Parsing, Queued
<1>5. CASE Forward \/ SendToSink
  BY <1>5, WholeForwards
<1>6. CASE SeeDone \/ ForwardEnds \/ UNCHANGED vars
  <2>1. UNCHANGED <<honest, accepted, data, failure, lost, discarded, pc, call, sink, held, fan>>
    BY <1>6 DEF SeeDone, ForwardEnds, vars, pluginVars, hostVars, callVars, engineVars
  <2>2. QED
    BY <2>1, WholeKept DEF Parsing, Queued
<1>7. ASSUME NEW f \in Files, StartParse(f) PROVE WholeInv'
  <2>1. /\ accepted' = [accepted EXCEPT ![f] = <<>>] /\ failure' = failure
        /\ \A g \in Files : ~Parsing(g) /\ pc' = [pc EXCEPT ![f] = "parsing"]
        /\ data' = data
    BY <1>7 DEF StartParse, Goto, engineVars
  <2>2. \A g \in Files : Parsing(g)' => g = f
    BY <2>1 DEF Parsing, IInv, TypeOK
  <2>3. failure = {}
    BY <2>1 DEF NumberInv, IInv, TypeOK
  <2>4. accepted'[f] = <<>> /\ data[f] \in Seq(Batch)
    BY <2>1 DEF IInv, TypeOK
  <2>5. Whole(f)'
    BY <2>1, <2>3, <2>4 DEF Whole
  <2>6. QED
    BY <2>2, <2>5 DEF WholeInv
<1>8. ASSUME NEW f \in Files, CallFails(f) PROVE WholeInv'
  <2>1. /\ UNCHANGED <<honest, accepted, data, failure, lost, discarded, pc, sink, held, fan>>
        /\ \A g \in Files : call'[g] = call[g] \/ call'[g] = "error"
    BY <1>8 DEF CallFails, pluginVars, hostVars, engineVars, IInv, TypeOK
  <2>2. QED
    BY <2>1, WholeKept DEF Parsing, Queued
<1>9. ASSUME NEW f \in Files, SinkTakes(f) PROVE WholeInv'
  BY <1>9, WholeTakes
<1>10. ASSUME NEW f \in Files, ParseReturns(f) PROVE WholeInv'
  <2>1. /\ UNCHANGED <<honest, accepted, data, failure, lost, discarded, call, sink, held, fan>>
        /\ \A g \in Files : Parsing(g)' => Parsing(g)
    BY <1>10
       DEF ParseReturns, Goto, Parsing, pluginVars, hostVars, callVars, engineVars, IInv, TypeOK
  <2>2. QED
    BY <2>1, WholeKept DEF Queued
<1>11. ASSUME NEW f \in Files, Verdict(f) PROVE WholeInv'
  <2>1. Parsing(f) /\ (pc' = [pc EXCEPT ![f] = "ready"] \/ pc' = [pc EXCEPT ![f] = "failed"])
    BY <1>11 DEF Verdict, Goto, Parsing
  <2>2. \A g \in Files : ~Parsing(g)'
    BY <2>1 DEF Parsing, IInv, TypeOK, TurnInv
  <2>3. QED
    BY <2>2 DEF WholeInv
<1>12. ASSUME NEW f \in Files, Discard(f) PROVE WholeInv'
  <2>1. Parsing(f) /\ pc' = pc /\ discarded' = discarded \cup {f}
    BY <1>12 DEF Discard
  <2>2. \A g \in Files : Parsing(g)' => g \in discarded'
    BY <2>1 DEF Parsing, IInv, TurnInv
  <2>3. QED
    BY <2>2 DEF WholeInv
<1>13. QED
  BY <1>1, <1>2, <1>3, <1>4, <1>5, <1>6, <1>7, <1>8, <1>9, <1>10, <1>11, <1>12
     DEF Next, Host, Pump, Engine

\* When the verdict on a parse that went well comes, the store has everything.
LEMMA GoodVerdict ==
  ASSUME IInv, CountInv, ReasonInv, NEW f \in Files, Verdict(f), honest, call[f] # "error",
         f \notin lost \cup discarded
  PROVE  Complete(f)
<1> USE DEF ReasonInv
<1>1. pc[f] = "joining" /\ sink = <<>> /\ Parsing(f)
  BY DEF Verdict, Parsing
<1>2. forward = "done" /\ held = <<>> /\ fan = <<>>
  BY <1>1 DEF IInv, TurnInv, CalledInv
<1>3. call[f] = "result"
  BY <1>1, <1>2 DEF CalledInv
<1>4. Whole(f)
  BY <1>1 DEF WholeInv
<1>5. /\ data[f] \in Seq(Batch) /\ accepted[f] \in Seq(Batch) /\ sent[f] \in Seq(Batch)
      /\ Begins(data[f], accepted[f]) /\ received[f] = Records(data[f])
      /\ Begins(accepted[f], sent[f]) /\ total[f] = Records(sent[f])
  BY <1>3 DEF IInv, TypeOK, CountInv, StoredInv, HonestInv, Counted
<1>6. Len(data[f]) = Len(accepted[f])
  <2>1. SUFFICES ASSUME Len(data[f]) < Len(accepted[f]) PROVE FALSE
    BY <1>5 DEF Begins
  <2>2. Len(data[f]) + 1 \in Len(data[f]) + 1 .. Len(accepted[f])
    BY <1>5, <2>1
  <2>3. QED
    BY <1>1, <1>2, <1>4, <2>2 DEF Whole, In
<1>7. Len(accepted[f]) = Len(sent[f])
  BY <1>3 DEF WireInv
<1>8. data[f] = sent[f]
  BY <1>5, <1>6, <1>7 DEF Begins
<1>9. QED
  BY <1>3, <1>4, <1>5, <1>8 DEF Complete, Whole

\* An import fails for a reason, for all batch sizes, capacities and
\* interleavings: what is queued when parse returns reaches the store before the
\* verdict, in its order, and nothing an honest plugin sent is refused there.
THEOREM Reasons == Spec => FailsForAReason
<1>1. Init => ReasonInv
  BY DEF Init, ReasonInv, NumberInv, Numbered, OrderInv, Rising, Before, Awaits, CalledInv, Parsing,
         WireInv, NoBatch, WholeInv
<1>2. IInv /\ CountInv /\ ReasonInv /\ [Next]_vars => ReasonInv'
  BY NumberStep, OrderStep, CalledStep, WireStep, WholeStep DEF ReasonInv
<1>3. ASSUME IInv, CountInv, ReasonInv, [Next]_vars
      PROVE  [\A f \in Files : pc'[f] = "failed" /\ pc[f] # "failed" =>
                ~honest \/ call[f] = "error" \/ f \in lost \/ f \in discarded]_vars
  <2> SUFFICES ASSUME NEW f \in Files, pc'[f] = "failed", pc[f] # "failed",
                      honest, call[f] # "error", f \notin lost \cup discarded
               PROVE  FALSE
    OBVIOUS
  <2>1. pc \in [Files -> {"new", "parsing", "joining", "ready", "failed"}]
    BY <1>3 DEF IInv, TypeOK
  <2>2. \/ pc' = pc
        \/ \E g \in Files : Goto(g, "parsing") \/ Goto(g, "joining") \/ Verdict(g)
    BY <1>3
       DEF Next, vars, Plugin, Host, Pump, Engine, ReadBatch, ReadProgress, ReadAnswer, Forward,
           SendToSink, SeeDone, ForwardEnds, StartParse, CallFails, SinkTakes, ParseReturns, Discard
  <2>3. Verdict(f)
    <3>1. PICK g \in Files : Verdict(g)
      BY <2>1, <2>2 DEF Goto
    <3>2. g = f
      BY <2>1, <3>1 DEF Verdict, Goto
    <3>3. QED
      BY <3>1, <3>2
  <2>4. Complete(f)
    BY <1>3, <2>3, GoodVerdict
  <2>5. QED
    BY <2>1, <2>3, <2>4 DEF Verdict, Goto
<1>4. IInv /\ CountInv /\ [Next]_vars => CountInv'
  BY StoredStep, HonestStep DEF CountInv
<1>5. QED
  BY <1>1, <1>2, <1>3, <1>4, InitCountInv, Invariance, PTL DEF Spec, FailsForAReason
=============================================================================
