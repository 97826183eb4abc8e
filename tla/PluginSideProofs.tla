--------------------------- MODULE PluginSideProofs ---------------------------
(***************************************************************************)
(* Proofs about the plugin side of the pipes, in five parts.  The runtime  *)
(* library under any host, for all sets of files and any number of         *)
(* requests and batches: the parse thread finds its file, every request is *)
(* answered once, and a host that waits for its answers is never told that *)
(* the plugin is busy.  `plugin check` against the host's own reader of a  *)
(* manifest, for every folder: what the check finds no error in is         *)
(* accepted, and what it does not warn about is kept.  The check's replay  *)
(* against the library, for every folder and any number of batches: no     *)
(* rule of behaviour is broken, whatever the interleaving of the check and *)
(* the library's threads.  The check's verdict, for every plugin there     *)
(* could be: a pass of all rules of behaviour is earned.  The CSV plugin,  *)
(* for every file and configuration: its parse sends what its load         *)
(* announced, and its load finds the time column the claim was for.        *)
(***************************************************************************)
EXTENDS PluginHost, LibraryCheck, PassedPlugin, CsvEngine, SumLemmas, FiniteSetTheorems, SequenceTheorems, TLAPS

\* What the library writes: answers, heartbeats and batches.
Bodies ==
    {"none", "summary", "empty"} \cup [shape : {"good"}] \cup [entries : {"good"}]
    \cup [total : Nat] \cup [metrics : SUBSET Files, valid : {TRUE}, listed : {TRUE}]
    \cup [seq : Nat, n : {1}, metric : Files, done : BOOLEAN, shape : {"good"}]

Codes == {"none", "busy", "load_failed", "invalid_params", "unsupported", "method_not_found",
          "cancelled"}

Frames == [line : {"json"}, kind : {"answer", "progress", "batch"}, id : Nat, code : Codes,
           body : Bodies]

Written == stdout \in Seq(Frames)

hostVars == <<pipes, library, host>>

\* What a sequence looks like with one more element, and without its first.
LEMMA AppendIs ==
    ASSUME NEW S, NEW q \in Seq(S), NEW e \in S
    PROVE  /\ Append(q, e) \in Seq(S) /\ DOMAIN Append(q, e) = 1 .. Len(q) + 1
           /\ Len(Append(q, e)) = Len(q) + 1 /\ Append(q, e)[Len(q) + 1] = e
           /\ \A i \in DOMAIN q : Append(q, e)[i] = q[i] /\ i \in 1 .. Len(q)
  OBVIOUS

LEMMA TailIs ==
    ASSUME NEW S, NEW q \in Seq(S), q # <<>>
    PROVE  /\ Tail(q) \in Seq(S) /\ DOMAIN Tail(q) = 1 .. Len(q) - 1
           /\ Len(Tail(q)) = Len(q) - 1 /\ Len(q) \in Nat \ {0}
           /\ \A i \in DOMAIN Tail(q) : Tail(q)[i] = q[i + 1] /\ i + 1 \in DOMAIN q
           /\ Head(q) = q[1] /\ Head(q) \in S /\ 1 \in DOMAIN q
  OBVIOUS

\* An answer written last closes its request; other frames close none.
LEMMA AnswerCloses ==
    ASSUME Written, NEW f \in Frames, stdout' = Append(stdout, f), f.kind = "answer"
    PROVE  AnsweredIds' = AnsweredIds \cup {f.id}
  BY AppendIs DEF Written, AnsweredIds

LEMMA NoticeCloses ==
    ASSUME Written, NEW f \in Frames, stdout' = Append(stdout, f), f.kind # "answer"
    PROVE  AnsweredIds' = AnsweredIds
  BY AppendIs DEF Written, AnsweredIds

\* The next request the dispatcher takes is the one after those it has seen.
LEMMA TakeNext ==
    ASSUME TypeOK, LedgerInv, stdin # <<>>, stdin' = Tail(stdin), asked' = asked
    PROVE  /\ Seen \in Nat /\ Seen' = Seen + 1 /\ Head(stdin).id = Seen + 1
           /\ \A i \in DOMAIN stdin' : stdin'[i].id = Seen' + i
<1>1. /\ DOMAIN stdin' = 1 .. Len(stdin) - 1 /\ Len(stdin') = Len(stdin) - 1
      /\ Len(stdin) \in Nat \ {0} /\ Head(stdin) = stdin[1] /\ 1 \in DOMAIN stdin
      /\ Head(stdin) \in Requests
      /\ \A i \in DOMAIN stdin' : stdin'[i] = stdin[i + 1] /\ i + 1 \in DOMAIN stdin
  BY TailIs DEF TypeOK
<1>2. asked \in Nat /\ Seen = asked - Len(stdin) /\ Seen' = asked - Len(stdin')
  BY DEF TypeOK, Seen
<1>3. Head(stdin).id = Seen + 1 /\ Head(stdin).id \in Nat \ {0}
  BY <1>1 DEF LedgerInv, Requests
<1>4. Seen \in Nat /\ Seen' = Seen + 1
  BY <1>1, <1>2, <1>3
<1>5. QED
  BY <1>1, <1>3, <1>4 DEF LedgerInv

\* The dispatcher takes a request and answers it.
LEMMA TakeAnswer ==
    ASSUME TypeOK, Written, LedgerInv, child = "running", inHand = NoRequest,
           stdin # <<>>, stdin' = Tail(stdin), NEW f \in Frames, f.kind = "answer",
           f.id = Head(stdin).id, stdout' = Append(stdout, f), UNCHANGED <<asked, inHand>>,
           workers' = workers \/ (workers' = {} /\ child' # "running")
    PROVE  LedgerInv'
<1>1. /\ Seen \in Nat /\ Seen' = Seen + 1 /\ f.id = Seen + 1
      /\ \A i \in DOMAIN stdin' : stdin'[i].id = Seen' + i
  BY TakeNext
<1>2. AnsweredIds' = AnsweredIds \cup {f.id}
  BY AnswerCloses
<1>3. /\ DOMAIN stdout' = 1 .. Len(stdout) + 1 /\ stdout'[Len(stdout) + 1] = f
      /\ \A i \in DOMAIN stdout : stdout'[i] = stdout[i] /\ i \in 1 .. Len(stdout)
      /\ DOMAIN stdout = 1 .. Len(stdout) /\ Len(stdout) \in Nat
  BY AppendIs DEF Written
<1>4. \A i \in DOMAIN stdout : stdout[i].kind = "answer" => stdout[i].id # f.id
  <2>1. f.id \notin AnsweredIds
    BY <1>1 DEF LedgerInv
  <2>2. QED
    BY <2>1 DEF AnsweredIds
<1>5. \A i, k \in DOMAIN stdout' :
        stdout'[i].kind = "answer" /\ stdout'[k].kind = "answer" /\ stdout'[i].id = stdout'[k].id
          => i = k
  BY <1>3, <1>4 DEF LedgerInv
<1>6. QED
  BY <1>1, <1>2, <1>5 DEF LedgerInv

\* A parse request is cleared by the first of its two locks.
LEMMA TakeInHand ==
    ASSUME TypeOK, LedgerInv, inHand = NoRequest, stdin # <<>>, stdin' = Tail(stdin),
           inHand' = Head(stdin), UNCHANGED <<asked, stdout, workers, child>>
    PROVE  LedgerInv'
<1>1. /\ Seen \in Nat /\ Seen' = Seen + 1 /\ inHand'.id = Seen + 1
      /\ \A i \in DOMAIN stdin' : stdin'[i].id = Seen' + i
  BY TakeNext
<1>2. AnsweredIds' = AnsweredIds
  BY DEF AnsweredIds
<1>3. inHand.id = 0
  BY DEF NoRequest, Request
<1>4. QED
  BY <1>1, <1>2, <1>3 DEF LedgerInv

\* The second lock: the request in hand is answered, or given to a thread.
LEMMA GiveFromHand ==
    ASSUME TypeOK, Written, LedgerInv, inHand # NoRequest, inHand' = NoRequest,
           UNCHANGED <<asked, stdin, child>>,
           \/ /\ workers' = workers
              /\ \E f \in Frames : /\ f.kind = "answer" /\ f.id = inHand.id
                                   /\ stdout' = Append(stdout, f)
           \/ /\ stdout' = stdout
              /\ \E u : u.id = inHand.id /\ workers' = workers \cup {u}
    PROVE  LedgerInv'
<1>1. Seen' = Seen
  BY DEF Seen
<1>2. CASE workers' = workers /\ stdout' # stdout
  <2>1. PICK f \in Frames : /\ f.kind = "answer" /\ f.id = inHand.id
                            /\ stdout' = Append(stdout, f)
    BY <1>2
  <2>2. AnsweredIds' = AnsweredIds \cup {f.id}
    BY <2>1, AnswerCloses
  <2>3. /\ DOMAIN stdout' = 1 .. Len(stdout) + 1 /\ stdout'[Len(stdout) + 1] = f
        /\ \A i \in DOMAIN stdout : stdout'[i] = stdout[i] /\ i \in 1 .. Len(stdout)
        /\ DOMAIN stdout = 1 .. Len(stdout) /\ Len(stdout) \in Nat
    BY <2>1, AppendIs DEF Written
  <2>4. \A i \in DOMAIN stdout : stdout[i].kind = "answer" => stdout[i].id # f.id
    BY <2>1 DEF LedgerInv, AnsweredIds
  <2>5. \A i, k \in DOMAIN stdout' :
          stdout'[i].kind = "answer" /\ stdout'[k].kind = "answer" /\ stdout'[i].id = stdout'[k].id
            => i = k
    BY <2>3, <2>4 DEF LedgerInv
  <2>6. QED
    BY <1>1, <1>2, <2>1, <2>2, <2>5 DEF LedgerInv
<1>3. CASE stdout' = stdout
  <2>1. AnsweredIds' = AnsweredIds
    BY <1>3 DEF AnsweredIds
  <2>2. ASSUME NEW f \in Frames PROVE stdout # Append(stdout, f)
    BY AppendIs DEF Written
  <2>3. \E u : u.id = inHand.id /\ workers' = workers \cup {u}
    BY <1>3, <2>2
  <2>4. PICK u : u.id = inHand.id /\ workers' = workers \cup {u}
    BY <2>3
  <2>5. QED
    BY <1>1, <1>3, <2>1, <2>4 DEF LedgerInv
<1>4. QED
  BY <1>2, <1>3

\* A parse thread that moves on without an answer.
LEMMA WorkerMoves ==
    ASSUME TypeOK, Written, LedgerInv, NEW w \in workers, NEW u, u.id = w.id,
           workers' = (workers \ {w}) \cup {u}, UNCHANGED <<asked, stdin, inHand, child>>,
           \/ stdout' = stdout
           \/ \E b, c \in Frames : /\ b.kind # "answer" /\ c.kind # "answer"
                                   /\ stdout' = stdout \o <<b, c>>
    PROVE  LedgerInv'
<1>1. Seen' = Seen
  BY DEF Seen
<1>2. /\ \A i \in DOMAIN stdout' :
           stdout'[i].kind = "answer" => i \in DOMAIN stdout /\ stdout'[i] = stdout[i]
      /\ \A i \in DOMAIN stdout : i \in DOMAIN stdout' /\ stdout'[i] = stdout[i]
  <2>1. CASE stdout' = stdout
    BY <2>1
  <2>2. CASE stdout' # stdout
    <3>1. PICK b, c \in Frames : /\ b.kind # "answer" /\ c.kind # "answer"
                                 /\ stdout' = stdout \o <<b, c>>
      BY <2>2
    <3>2. /\ Len(stdout) \in Nat /\ DOMAIN stdout = 1 .. Len(stdout)
          /\ DOMAIN stdout' = 1 .. Len(stdout) + 2
          /\ \A i \in 1 .. Len(stdout) : stdout'[i] = stdout[i]
          /\ stdout'[Len(stdout) + 1] = b /\ stdout'[Len(stdout) + 2] = c
      BY <3>1 DEF Written
    <3>3. \A i \in 1 .. Len(stdout) + 2 :
            i \in 1 .. Len(stdout) \/ i = Len(stdout) + 1 \/ i = Len(stdout) + 2
      BY <3>2
    <3>4. \A i \in DOMAIN stdout' : i \in DOMAIN stdout \/ stdout'[i].kind # "answer"
      BY <3>1, <3>2, <3>3
    <3>5. QED
      BY <3>2, <3>4
  <2>3. QED
    BY <2>1, <2>2
<1>3. AnsweredIds' = AnsweredIds
  BY <1>2 DEF AnsweredIds
<1>4. \A i, k \in DOMAIN stdout' :
        stdout'[i].kind = "answer" /\ stdout'[k].kind = "answer" /\ stdout'[i].id = stdout'[k].id
          => i = k
  BY <1>2 DEF LedgerInv
<1>5. /\ \A x \in workers' : \E y \in workers : y.id = x.id
      /\ \A y \in workers : \E x \in workers' : y.id = x.id
  OBVIOUS
<1>6. \A x, y \in workers' : x.id = y.id => x = y
  BY DEF LedgerInv
<1>7. QED
  BY <1>1, <1>3, <1>4, <1>5, <1>6 DEF LedgerInv

\* A parse thread answers and is gone.
LEMMA WorkerAnswers ==
    ASSUME TypeOK, Written, LedgerInv, NEW w \in workers, workers' = workers \ {w},
           NEW f \in Frames, f.kind = "answer", f.id = w.id, stdout' = Append(stdout, f),
           UNCHANGED <<asked, stdin, inHand, child>>
    PROVE  LedgerInv'
<1>1. Seen' = Seen
  BY DEF Seen
<1>2. AnsweredIds' = AnsweredIds \cup {w.id}
  BY AnswerCloses
<1>3. /\ DOMAIN stdout' = 1 .. Len(stdout) + 1 /\ stdout'[Len(stdout) + 1] = f
      /\ \A i \in DOMAIN stdout : stdout'[i] = stdout[i] /\ i \in 1 .. Len(stdout)
      /\ DOMAIN stdout = 1 .. Len(stdout) /\ Len(stdout) \in Nat
  BY AppendIs DEF Written
<1>4. \A i \in DOMAIN stdout : stdout[i].kind = "answer" => stdout[i].id # f.id
  BY DEF LedgerInv, AnsweredIds
<1>5. \A i, k \in DOMAIN stdout' :
        stdout'[i].kind = "answer" /\ stdout'[k].kind = "answer" /\ stdout'[i].id = stdout'[k].id
          => i = k
  BY <1>3, <1>4 DEF LedgerInv
<1>6. w.id \in 1 .. Seen /\ \A x \in workers' : x.id # w.id
  BY DEF LedgerInv
<1>7. inHand # NoRequest => inHand.id # w.id
  BY DEF LedgerInv
<1>8. QED
  BY <1>1, <1>2, <1>5, <1>6, <1>7 DEF LedgerInv

\* The host sends one more request, or closes the pipe.
LEMMA HostSends ==
    ASSUME TypeOK, LedgerInv, NEW r \in Requests, r.id = asked + 1, asked' = asked + 1,
           stdin' = Append(stdin, r), UNCHANGED <<stdout, library, child>>
    PROVE  LedgerInv'
<1>1. Seen' = Seen /\ Seen \in Int /\ Len(stdin) \in Nat
  BY AppendIs DEF Seen, TypeOK
<1>2. AnsweredIds' = AnsweredIds
  BY DEF AnsweredIds
<1>3. /\ DOMAIN stdin' = 1 .. Len(stdin) + 1 /\ stdin'[Len(stdin) + 1] = r
      /\ \A i \in DOMAIN stdin : stdin'[i] = stdin[i]
      /\ DOMAIN stdin = 1 .. Len(stdin)
  BY AppendIs DEF TypeOK
<1>4. r.id = Seen + (Len(stdin) + 1)
  BY <1>1 DEF Seen, TypeOK
<1>5. \A i \in DOMAIN stdin' : stdin'[i].id = Seen' + i
  BY <1>1, <1>3, <1>4 DEF LedgerInv
<1>6. QED
  BY <1>1, <1>2, <1>5 DEF LedgerInv, library

\* The frames the library writes are frames.
LEMMA FramesAre ==
    /\ \A n \in Nat, c \in Codes : Refusal(n, c) \in Frames /\ Refusal(n, c).kind = "answer"
    /\ \A n \in Nat, b \in Bodies : Result(n, b) \in Frames /\ Result(n, b).kind = "answer"
    /\ \A k \in {"progress", "batch"}, b \in Bodies :
         Notify(k, b) \in Frames /\ Notify(k, b).kind = k
<1>1. "none" \in Codes /\ "none" \in Bodies
  BY Zenon DEF Codes, Bodies
<1>2. \A n \in Nat, c \in Codes : Refusal(n, c) \in Frames /\ Refusal(n, c).kind = "answer"
  BY <1>1 DEF Frames, Refusal
<1>3. \A n \in Nat, b \in Bodies : Result(n, b) \in Frames /\ Result(n, b).kind = "answer"
  BY <1>1 DEF Frames, Result
<1>4. \A k \in {"progress", "batch"}, b \in Bodies :
        Notify(k, b) \in Frames /\ Notify(k, b).kind = k
  BY <1>1 DEF Frames, Notify
<1>5. QED
  BY <1>2, <1>3, <1>4

LEMMA BodiesAre ==
    /\ "none" \in Bodies /\ "summary" \in Bodies /\ "empty" \in Bodies
    /\ \A n \in Nat : [total |-> n] \in Bodies
    /\ [entries |-> "good"] \in Bodies /\ [shape |-> "good"] \in Bodies
    /\ \A M \in SUBSET Files : [metrics |-> M, valid |-> TRUE, listed |-> TRUE] \in Bodies
    /\ \A n \in Nat, f \in Files, d \in BOOLEAN :
         [seq |-> n, n |-> 1, metric |-> f, done |-> d, shape |-> "good"] \in Bodies
<1>1. "none" \in Bodies /\ "summary" \in Bodies /\ "empty" \in Bodies
  BY Zenon DEF Bodies
<1>6. \A n \in Nat : [total |-> n] \in Bodies
  <2>1. ASSUME NEW n \in Nat PROVE [total |-> n] \in [total : Nat]
    OBVIOUS
  <2>2. QED
    BY <2>1, Zenon DEF Bodies
<1>2. [entries |-> "good"] \in Bodies /\ [shape |-> "good"] \in Bodies
  BY DEF Bodies
<1>3. \A M \in SUBSET Files : [metrics |-> M, valid |-> TRUE, listed |-> TRUE] \in Bodies
  <2>1. ASSUME NEW M \in SUBSET Files
        PROVE  [metrics |-> M, valid |-> TRUE, listed |-> TRUE]
                 \in [metrics : SUBSET Files, valid : {TRUE}, listed : {TRUE}]
    OBVIOUS
  <2>2. QED
    BY <2>1 DEF Bodies
<1>4. \A n \in Nat, f \in Files, d \in BOOLEAN :
        [seq |-> n, n |-> 1, metric |-> f, done |-> d, shape |-> "good"] \in Bodies
  <2>1. ASSUME NEW n \in Nat, NEW f \in Files, NEW d \in BOOLEAN
        PROVE  [seq |-> n, n |-> 1, metric |-> f, done |-> d, shape |-> "good"]
                 \in [seq : Nat, n : {1}, metric : Files, done : BOOLEAN, shape : {"good"}]
    OBVIOUS
  <2>2. QED
    BY <2>1 DEF Bodies
<1>5. QED
  BY <1>1, <1>2, <1>3, <1>4, <1>6

\* The dispatcher answers a request it has just taken, but for a parse it
\* clears.
Closes(req) ==
    \E f \in Frames : /\ f.kind = "answer" /\ f.id = req.id
                      /\ f.code = "busy" => IsParsing(req.arg)
                      /\ stdout' = Append(stdout, f)

Answering(req) ==
    /\ child = "running" /\ inHand = NoRequest /\ stdin # <<>> /\ req = Head(stdin)
    /\ stdin' = Tail(stdin)
    /\ Closes(req)
    /\ UNCHANGED <<host, inHand>>
    /\ workers' = workers \/ (workers' = {} /\ child' # "running")

Speaks(req) ==
    \/ \E c \in Codes : /\ c = "busy" => IsParsing(req.arg)
                        /\ stdout' = Append(stdout, Refusal(req.id, c))
    \/ \E b \in Bodies : stdout' = Append(stdout, Result(req.id, b))

LEMMA DispatcherAnswers ==
    ASSUME TypeOK, NEW req,
           \/ LoadFile(req) \/ Schema(req) \/ KeyValues(req) \/ UnloadFile(req)
           \/ CancelParse(req) \/ Decline(req) \/ Shutdown(req)
           \/ LookForFile(req) /\ req.arg \notin files,
           UNCHANGED host
    PROVE  Answering(req)
<1>1. /\ child = "running" /\ inHand = NoRequest /\ stdin # <<>> /\ req = Head(stdin)
      /\ stdin' = Tail(stdin) /\ UNCHANGED <<host, inHand>>
  BY DEF LoadFile, Schema, KeyValues, UnloadFile, CancelParse, Decline, Shutdown, LookForFile, Take,
         Arrives, library
<1>2. workers' = workers \/ (workers' = {} /\ child' # "running")
  BY DEF LoadFile, Schema, KeyValues, UnloadFile, CancelParse, Decline, Shutdown, LookForFile, Exit,
         library
<1>3. Speaks(req)
  <2>1. ASSUME NEW c \in {"busy", "load_failed", "invalid_params", "unsupported",
                          "method_not_found"},
               c = "busy" => IsParsing(req.arg), stdout' = Append(stdout, Refusal(req.id, c))
        PROVE  Speaks(req)
    <3>1. c \in Codes
      BY DEF Codes
    <3>2. QED
      BY <2>1, <3>1, Zenon DEF Speaks
  <2>2. ASSUME NEW b \in {"summary", "empty", [entries |-> "good"]},
               stdout' = Append(stdout, Result(req.id, b))
        PROVE  Speaks(req)
    BY <2>2, BodiesAre, Zenon DEF Speaks
  <2>3. CASE LoadFile(req)
    <3>1. \/ IsParsing(req.arg) /\ stdout' = Append(stdout, Refusal(req.id, "busy"))
          \/ stdout' = Append(stdout, Refusal(req.id, "load_failed"))
          \/ stdout' = Append(stdout, Result(req.id, "summary"))
      BY <2>3, Zenon DEF LoadFile, Write
    <3>2. QED
      BY <3>1, <2>1, <2>2
  <2>4. CASE KeyValues(req)
    <3>1. \/ IsParsing(req.arg) /\ stdout' = Append(stdout, Refusal(req.id, "busy"))
          \/ stdout' = Append(stdout, Refusal(req.id, "invalid_params"))
          \/ stdout' = Append(stdout, Result(req.id, [entries |-> "good"]))
      BY <2>4, Zenon DEF KeyValues, Write
    <3>2. QED
      BY <3>1, <2>1, <2>2
  <2>5. CASE UnloadFile(req)
    <3>1. \/ IsParsing(req.arg) /\ stdout' = Append(stdout, Refusal(req.id, "busy"))
          \/ stdout' = Append(stdout, Result(req.id, "empty"))
      BY <2>5, Zenon DEF UnloadFile, Write
    <3>2. QED
      BY <3>1, <2>1, <2>2
  <2>6. CASE Schema(req)
    <3>1. {metricsOf} \ {NoFile} \in SUBSET Files
      BY DEF TypeOK
    <3>2. QED
      BY <2>6, <3>1, BodiesAre, Zenon DEF Schema, Write, Speaks
  <2>7. CASE CancelParse(req) \/ Shutdown(req)
    BY <2>7, <2>2, Zenon DEF CancelParse, Shutdown, Write
  <2>8. CASE Decline(req)
    <3>1. \E c \in {"unsupported", "method_not_found"} :
            stdout' = Append(stdout, Refusal(req.id, c))
      BY <2>8, Zenon DEF Decline, Write
    <3>2. QED
      BY <3>1, <2>1
  <2>9. CASE LookForFile(req) /\ req.arg \notin files
    BY <2>9, <2>1 DEF LookForFile, Write
  <2>10. QED
    BY <2>3, <2>4, <2>5, <2>6, <2>7, <2>8, <2>9
<1>4. req.id \in Nat
  BY <1>1, TailIs DEF TypeOK, Requests
<1>5. Closes(req)
  <2>1. ASSUME NEW c \in Codes, c = "busy" => IsParsing(req.arg),
               stdout' = Append(stdout, Refusal(req.id, c))
        PROVE  Closes(req)
    <3>1. /\ Refusal(req.id, c) \in Frames /\ Refusal(req.id, c).kind = "answer"
          /\ Refusal(req.id, c).id = req.id /\ Refusal(req.id, c).code = c
      BY <1>4, FramesAre DEF Refusal
    <3>2. QED
      BY <2>1, <3>1 DEF Closes
  <2>2. ASSUME NEW b \in Bodies, stdout' = Append(stdout, Result(req.id, b))
        PROVE  Closes(req)
    <3>1. /\ Result(req.id, b) \in Frames /\ Result(req.id, b).kind = "answer"
          /\ Result(req.id, b).id = req.id /\ Result(req.id, b).code = "none"
      BY <1>4, FramesAre DEF Result
    <3>2. QED
      BY <2>2, <3>1 DEF Closes
  <2>3. QED
    BY <1>3, <2>1, <2>2 DEF Speaks
<1>6. QED
  BY <1>1, <1>2, <1>5 DEF Answering

\* What a parse thread writes while it works: nothing, or a heartbeat and a batch.
LEMMA BatchIs ==
    ASSUME TypeOK, NEW w \in workers, ProduceBatch(w)
    PROVE  \E b, c \in Frames : /\ b.kind # "answer" /\ c.kind # "answer"
                                /\ b.code = "none" /\ c.code = "none"
                                /\ stdout' = stdout \o <<b, c>>
<1>1. w.seq \in Nat /\ w.file \in Files
  BY DEF TypeOK
<1>2. PICK done \in BOOLEAN :
        stdout' = stdout \o
             <<Notify("progress", [shape |-> "good"]),
               Notify("batch", [seq |-> w.seq, n |-> 1, metric |-> w.file,
                                done |-> done, shape |-> "good"])>>
  BY DEF ProduceBatch
<1> DEFINE b == Notify("progress", [shape |-> "good"])
           body == [seq |-> w.seq, n |-> 1, metric |-> w.file, done |-> done, shape |-> "good"]
           c == Notify("batch", body)
<1>3. [shape |-> "good"] \in Bodies /\ body \in Bodies
  BY <1>1, BodiesAre
<1>4. b \in Frames /\ b.kind = "progress" /\ b.code = "none"
  <2>1. b \in Frames /\ b.kind = "progress"
    BY <1>3, FramesAre
  <2>2. QED
    BY <2>1 DEF Notify
<1>5. c \in Frames /\ c.kind = "batch" /\ c.code = "none"
  <2> HIDE DEF body
  <2>1. c \in Frames /\ c.kind = "batch"
    BY <1>3, FramesAre
  <2>2. QED
    BY <2>1 DEF Notify
<1>6. stdout' = stdout \o <<b, c>>
  BY <1>2
<1> HIDE DEF b, c
<1>7. QED
  BY <1>4, <1>5, <1>6

\* The answer of a parse thread.
LEMMA OutcomeIs ==
    ASSUME TypeOK, NEW w \in workers, AnswerParse(w)
    PROVE  \E f \in Frames : /\ f.kind = "answer" /\ f.id = w.id /\ f.code # "busy"
                             /\ stdout' = Append(stdout, f)
<1>1. w.seq \in Nat /\ w.id \in Nat
  BY DEF TypeOK
<1>2. CASE w.at = "answer"
  <2>1. [total |-> w.seq] \in Bodies
    BY <1>1, BodiesAre
  <2>2. stdout' = Append(stdout, Result(w.id, [total |-> w.seq]))
    BY <1>2 DEF AnswerParse, Write
  <2>3. Result(w.id, [total |-> w.seq]) \in Frames
    BY <1>1, <2>1, FramesAre
  <2>4. QED
    BY <2>2, <2>3 DEF Result
<1>3. CASE w.at # "answer"
  <2>1. stdout' = Append(stdout, Refusal(w.id, "cancelled"))
    BY <1>3 DEF AnswerParse, Write
  <2>2. Refusal(w.id, "cancelled") \in Frames
    BY <1>1, FramesAre DEF Codes
  <2>3. QED
    BY <2>1, <2>2 DEF Refusal
<1>4. QED
  BY <1>2, <1>3

\* The second lock: the parse gets its thread, or is refused because another
\* one holds the slot.
Claims ==
    \/ /\ slot # FreeSlot /\ workers' = workers /\ slot' = slot
       /\ \E f \in Frames : /\ f.kind = "answer" /\ f.id = inHand.id
                            /\ stdout' = Append(stdout, f)
    \/ /\ slot = FreeSlot /\ stdout' = stdout
       /\ slot' = [file |-> inHand.arg, cancel |-> FALSE]
       /\ workers' = workers \cup
                 {[at |-> "take", file |-> inHand.arg, id |-> inHand.id, seq |-> 0]}

LEMMA ClaimIs ==
    ASSUME TypeOK, ClaimSlot
    PROVE  Claims
<1>1. inHand.id \in Nat
  BY DEF TypeOK, ClaimSlot, Requests
<1>2. CASE slot # FreeSlot
  <2>1. stdout' = Append(stdout, Refusal(inHand.id, "busy")) /\ workers' = workers /\ slot' = slot
    BY <1>2 DEF ClaimSlot, Write
  <2>2. Refusal(inHand.id, "busy") \in Frames
    BY <1>1, FramesAre DEF Codes
  <2>3. Refusal(inHand.id, "busy").kind = "answer" /\ Refusal(inHand.id, "busy").id = inHand.id
    BY DEF Refusal
  <2>4. QED
    BY <1>2, <2>1, <2>2, <2>3 DEF Claims
<1>3. CASE slot = FreeSlot
  BY <1>3 DEF ClaimSlot, Claims
<1>4. QED
  BY <1>2, <1>3

\* The steps of library and host: the host sends neither initialize nor
\* can_handle.
LEMMA MethodsAre ==
    ASSUME TypeOK, HostNext
    PROVE  \/ HostAsks \/ HostCloses
           \/ /\ UNCHANGED host
              /\ \/ Worker \/ ClaimSlot \/ EndOfInput
                 \/ /\ stdin # <<>> /\ Head(stdin) \in Requests
                    /\ LET req == Head(stdin) IN
                         \/ LoadFile(req) \/ LookForFile(req) \/ Schema(req) \/ KeyValues(req)
                         \/ UnloadFile(req) \/ CancelParse(req) \/ Decline(req) \/ Shutdown(req)
<1>1. CASE HostAsks \/ HostCloses \/ ((Worker \/ ClaimSlot \/ EndOfInput) /\ UNCHANGED host)
  BY <1>1
<1>2. CASE /\ stdin # <<>> /\ UNCHANGED host
           /\ LET req == Head(stdin) IN
                \/ Greet(req) \/ CanHandle(req) \/ LoadFile(req) \/ LookForFile(req)
                \/ Schema(req) \/ KeyValues(req) \/ UnloadFile(req) \/ CancelParse(req)
                \/ Decline(req) \/ Shutdown(req)
  <2>1. stdin \in Seq(Requests) /\ stdin # <<>>
    BY <1>2 DEF TypeOK
  <2>2. Head(stdin) \in Requests
    BY <2>1, TailIs
  <2>3. Head(stdin).method \in HostMethods
    BY <2>2 DEF Requests
  <2>4. Head(stdin).method \notin {"initialize"} /\ Head(stdin).method \notin {"can_handle"}
    BY <2>3 DEF HostMethods
  <2>5. ~Greet(Head(stdin)) /\ ~CanHandle(Head(stdin))
    BY <2>4, Zenon DEF Greet, CanHandle, Take
  <2>6. QED
    BY <1>2, <2>2, <2>5
<1>3. QED
  BY <1>1, <1>2 DEF HostNext, RuntimeNext, Dispatcher

\* Everything the dispatcher takes is answered at once, but for a parse it
\* clears.
LEMMA StepsAre ==
    ASSUME TypeOK, HostNext
    PROVE  \/ HostAsks \/ HostCloses
           \/ /\ UNCHANGED host
              /\ \/ Worker \/ ClaimSlot \/ EndOfInput
                 \/ /\ stdin # <<>>
                    /\ \/ LookForFile(Head(stdin)) /\ Head(stdin).arg \in files
                       \/ Answering(Head(stdin))
  BY MethodsAre, DispatcherAnswers

LEMMA LedgerStep ==
    ASSUME TypeOK, Written, LedgerInv, HostNext
    PROVE  Written' /\ LedgerInv'
<1>1. CASE HostAsks
  <2>1. PICK m \in HostMethods, f \in Files : stdin' = Append(stdin, Request(asked + 1, m, f))
    BY <1>1 DEF HostAsks
  <2>2. Request(asked + 1, m, f) \in Requests /\ Request(asked + 1, m, f).id = asked + 1
    BY DEF TypeOK, Request, Requests
  <2>3. UNCHANGED <<stdout, library, child>> /\ asked' = asked + 1
    BY <1>1 DEF HostAsks
  <2>4. LedgerInv'
    BY <2>1, <2>2, <2>3, HostSends
  <2>5. QED
    BY <2>3, <2>4 DEF Written
<1>2. CASE HostCloses
  BY <1>2 DEF HostCloses, host, library, Written, LedgerInv, Seen, AnsweredIds
<1>3. CASE Worker /\ UNCHANGED host
  <2>1. UNCHANGED asked
    BY <1>3 DEF host
  <2>2. ASSUME NEW w \in workers,
               TakeFile(w) \/ StopEarly(w) \/ PutBack(w) \/ GiveSlotBack(w)
        PROVE  Written' /\ LedgerInv'
    <3>1. PICK step : Becomes(w, step)
      BY <2>2 DEF TakeFile, StopEarly, PutBack, GiveSlotBack
    <3>2. UNCHANGED <<pipes, inHand>>
      BY <2>2 DEF TakeFile, StopEarly, PutBack, GiveSlotBack
    <3>3. [w EXCEPT !.at = step].id = w.id
      BY DEF TypeOK
    <3>4. QED
      BY <2>1, <3>1, <3>2, <3>3, WorkerMoves DEF Becomes, pipes, Written
  <2>3. ASSUME NEW w \in workers, ProduceBatch(w) PROVE Written' /\ LedgerInv'
    <3>1. PICK b, c \in Frames : /\ b.kind # "answer" /\ c.kind # "answer"
                                 /\ stdout' = stdout \o <<b, c>>
      BY <2>3, BatchIs
    <3>2. \E u : u.id = w.id /\ workers' = (workers \ {w}) \cup {u}
      BY <2>3 DEF ProduceBatch, TypeOK
    <3>3. UNCHANGED <<asked, stdin, inHand, child>>
      BY <2>1, <2>3 DEF ProduceBatch
    <3>4. LedgerInv'
      BY <3>1, <3>2, <3>3, WorkerMoves
    <3>5. Written'
      BY <3>1 DEF Written
    <3>6. QED
      BY <3>4, <3>5
  <2>4. ASSUME NEW w \in workers, AnswerParse(w) PROVE Written' /\ LedgerInv'
    <3>1. PICK f \in Frames : /\ f.kind = "answer" /\ f.id = w.id
                              /\ stdout' = Append(stdout, f)
      BY <2>4, OutcomeIs
    <3>2. workers' = workers \ {w} /\ UNCHANGED <<asked, stdin, inHand, child>>
      BY <2>1, <2>4 DEF AnswerParse
    <3>3. LedgerInv'
      BY <3>1, <3>2, WorkerAnswers
    <3>4. QED
      BY <3>1, <3>3, AppendIs DEF Written
  <2>5. QED
    BY <1>3, <2>2, <2>3, <2>4 DEF Worker
<1>4. CASE ClaimSlot /\ UNCHANGED host
  <2>1. Claims
    BY <1>4, ClaimIs
  <2>2. inHand # NoRequest /\ inHand' = NoRequest /\ UNCHANGED <<asked, stdin, child>>
    BY <1>4 DEF ClaimSlot, host
  <2>3. LedgerInv'
    BY <2>1, <2>2, GiveFromHand DEF Claims
  <2>4. Written'
    BY <2>1, AppendIs DEF Claims, Written
  <2>5. QED
    BY <2>3, <2>4
<1>5. CASE EndOfInput /\ UNCHANGED host
  BY <1>5 DEF EndOfInput, Exit, host, Written, LedgerInv, Seen, AnsweredIds
<1>6. CASE /\ UNCHANGED host /\ stdin # <<>>
           /\ LookForFile(Head(stdin)) /\ Head(stdin).arg \in files
  <2>1. /\ inHand = NoRequest /\ stdin' = Tail(stdin) /\ inHand' = Head(stdin)
        /\ UNCHANGED <<asked, stdout, workers, child>>
    BY <1>6 DEF LookForFile, Take, host
  <2>2. QED
    BY <1>6, <2>1, TakeInHand DEF Written
<1>7. CASE UNCHANGED host /\ stdin # <<>> /\ Answering(Head(stdin))
  <2>1. PICK f \in Frames : /\ f.kind = "answer" /\ f.id = Head(stdin).id
                            /\ stdout' = Append(stdout, f)
    BY <1>7 DEF Answering, Closes
  <2>2. /\ child = "running" /\ inHand = NoRequest /\ stdin' = Tail(stdin)
        /\ UNCHANGED <<asked, inHand>>
        /\ workers' = workers \/ (workers' = {} /\ child' # "running")
    BY <1>7 DEF Answering, host
  <2>3. LedgerInv'
    BY <1>7, <2>1, <2>2, TakeAnswer
  <2>4. QED
    BY <2>1, <2>3, AppendIs DEF Written
<1>8. QED
  BY <1>1, <1>2, <1>3, <1>4, <1>5, <1>6, <1>7, StepsAre

Threads ==
    [at : InSlot \cup {"answer", "answer_stopped"}, file : Files, id : Nat \ {0}, seq : Nat]

LEMMA TypeStep ==
    ASSUME TypeOK, HostNext
    PROVE  TypeOK'
<1>1. CASE HostAsks
  <2>1. PICK m \in HostMethods, f \in Files : stdin' = Append(stdin, Request(asked + 1, m, f))
    BY <1>1 DEF HostAsks
  <2>2. Request(asked + 1, m, f) \in Requests
    BY DEF TypeOK, Request, Requests
  <2>3. stdin' \in Seq(Requests)
    BY <2>1, <2>2, AppendIs DEF TypeOK
  <2>4. asked' \in Nat /\ UNCHANGED <<stdinOpen, child, library, patient>>
    BY <1>1 DEF HostAsks, TypeOK
  <2>5. QED
    BY <2>3, <2>4 DEF TypeOK, library
<1>2. CASE HostCloses
  BY <1>2 DEF HostCloses, TypeOK, library, host
<1>3. CASE Worker /\ UNCHANGED host
  <2>1. PICK w \in workers :
          TakeFile(w) \/ ProduceBatch(w) \/ StopEarly(w) \/ PutBack(w)
          \/ GiveSlotBack(w) \/ AnswerParse(w)
    BY <1>3 DEF Worker
  <2>2. w \in Threads /\ w.file \in Files /\ workers \subseteq Threads
    BY DEF TypeOK, Threads
  <2>3. UNCHANGED <<stdin, stdinOpen, child, metricsOf, inHand, asked, patient>>
    BY <1>3, <2>1 DEF TakeFile, ProduceBatch, StopEarly, PutBack, GiveSlotBack, AnswerParse,
                      pipes, host
  <2>4. files' \subseteq Files
    BY <2>1, <2>2 DEF TakeFile, ProduceBatch, StopEarly, PutBack, GiveSlotBack, AnswerParse, TypeOK
  <2>5. slot' = slot \/ slot' = FreeSlot
    BY <2>1 DEF TakeFile, ProduceBatch, StopEarly, PutBack, GiveSlotBack, AnswerParse
  <2>6. slot' \in [file : Files \cup {NoFile}, cancel : BOOLEAN]
    <3>1. slot \in [file : Files \cup {NoFile}, cancel : BOOLEAN]
      BY DEF TypeOK
    <3>2. FreeSlot \in [file : Files \cup {NoFile}, cancel : BOOLEAN]
      BY DEF FreeSlot
    <3>3. QED
      BY <2>5, <3>1, <3>2
  <2>7. workers' \subseteq Threads
    <3>1. CASE AnswerParse(w)
      BY <3>1, <2>2 DEF AnswerParse
    <3>2. CASE ProduceBatch(w)
      <4>1. PICK place \in {"parsed", "parse"} :
              workers' = (workers \ {w}) \cup {[w EXCEPT !.seq = @ + 1, !.at = place]}
        BY <3>2, Zenon DEF ProduceBatch
      <4>2. [w EXCEPT !.seq = @ + 1, !.at = place] \in Threads
        <5>1. w.seq \in Nat /\ w.id \in Nat \ {0} /\ place \in InSlot
          BY <2>2 DEF Threads, InSlot
        <5>2. [w EXCEPT !.seq = @ + 1] \in Threads
          BY <5>1, <2>2 DEF Threads
        <5>3. \A v \in Threads : [v EXCEPT !.at = place] \in Threads
          BY <5>1 DEF Threads
        <5>4. QED
          BY <5>2, <5>3
      <4>3. QED
        BY <4>1, <4>2, <2>2
    <3>3. CASE TakeFile(w) \/ StopEarly(w) \/ PutBack(w) \/ GiveSlotBack(w)
      <4>1. PICK step \in InSlot \cup {"answer", "answer_stopped"} : Becomes(w, step)
        BY <3>3 DEF TakeFile, StopEarly, PutBack, GiveSlotBack, InSlot
      <4>2. QED
        <5>1. [w EXCEPT !.at = step] \in Threads
          BY <2>2 DEF Threads
        <5>2. QED
          BY <4>1, <5>1, <2>2 DEF Becomes
    <3>4. QED
      BY <2>1, <3>1, <3>2, <3>3
  <2>8. QED
    BY <2>3, <2>4, <2>6, <2>7 DEF TypeOK, Threads
<1>4. CASE ClaimSlot /\ UNCHANGED host
  <2>1. inHand \in Requests /\ inHand' = NoRequest
        /\ UNCHANGED <<stdin, stdinOpen, child, files, metricsOf, asked, patient>>
    BY <1>4 DEF ClaimSlot, TypeOK, host
  <2>2. inHand.arg \in Files /\ inHand.id \in Nat \ {0}
    BY <2>1 DEF Requests
  <2>3. Claims
    BY <1>4, ClaimIs
  <2>4. slot' \in [file : Files \cup {NoFile}, cancel : BOOLEAN]
    <3>1. slot' = slot \/ slot' = [file |-> inHand.arg, cancel |-> FALSE]
      BY <2>3 DEF Claims
    <3>2. slot \in [file : Files \cup {NoFile}, cancel : BOOLEAN]
      BY DEF TypeOK
    <3>3. [file |-> inHand.arg, cancel |-> FALSE] \in [file : Files \cup {NoFile}, cancel : BOOLEAN]
      BY <2>2
    <3>4. QED
      BY <3>1, <3>2, <3>3
  <2>5. workers' \subseteq Threads
    <3>1. [at |-> "take", file |-> inHand.arg, id |-> inHand.id, seq |-> 0] \in Threads
      BY <2>2 DEF Threads, InSlot
    <3>2. workers \subseteq Threads
      BY DEF TypeOK, Threads
    <3>3. QED
      BY <2>3, <3>1, <3>2 DEF Claims
  <2>6. QED
    BY <2>1, <2>4, <2>5 DEF TypeOK, Threads
<1>5. CASE EndOfInput /\ UNCHANGED host
  BY <1>5 DEF EndOfInput, Exit, host, TypeOK
<1>6. ASSUME NEW req \in Requests, UNCHANGED host, stdin # <<>>,
             \/ LoadFile(req) \/ LookForFile(req) \/ Schema(req) \/ KeyValues(req)
             \/ UnloadFile(req) \/ CancelParse(req) \/ Decline(req) \/ Shutdown(req)
      PROVE  TypeOK'
  <2>1. stdin' = Tail(stdin) /\ UNCHANGED <<stdinOpen, asked, patient>>
    BY <1>6 DEF LoadFile, LookForFile, Schema, KeyValues, UnloadFile, CancelParse, Decline, Shutdown,
                Take, host
  <2>2. stdin' \in Seq(Requests)
    BY <2>1, <1>6, TailIs DEF TypeOK
  <2>3. req.arg \in Files
    BY DEF Requests
  <2>4. child' \in {"running", "code0"} /\ workers' \subseteq workers
    BY <1>6 DEF LoadFile, LookForFile, Schema, KeyValues, UnloadFile, CancelParse, Decline, Shutdown,
                TypeOK, Exit, library
  <2>5. files' \subseteq Files /\ metricsOf' \in Files \cup {NoFile}
        /\ inHand' \in Requests \cup {NoRequest}
    BY <1>6, <2>3 DEF LoadFile, LookForFile, Schema, KeyValues, UnloadFile, CancelParse, Decline,
                      Shutdown, TypeOK, library
  <2>6. slot' \in [file : Files \cup {NoFile}, cancel : BOOLEAN]
    <3>1. CASE CancelParse(req)
      BY <3>1 DEF CancelParse, IsParsing, TypeOK
    <3>2. CASE ~CancelParse(req)
      BY <3>2, <1>6 DEF LoadFile, LookForFile, Schema, KeyValues, UnloadFile, Decline, Shutdown,
                        TypeOK, library
    <3>3. QED
      BY <3>1, <3>2
  <2>7. QED
    BY <2>1, <2>2, <2>4, <2>5, <2>6 DEF TypeOK
<1>7. QED
  BY <1>1, <1>2, <1>3, <1>4, <1>5, <1>6, MethodsAre

\* The thread that holds the slot moves on and keeps it: its file is in its
\* hands from the take to the put-back.
LEMMA SlotKept ==
    ASSUME SlotInv, NEW w \in workers, w.at \in InSlot,
           NEW u, u.at \in InSlot, u.at # "take", u.file = w.file,
           workers' = (workers \ {w}) \cup {u}, UNCHANGED <<slot, child, inHand>>,
           \/ files' = files \ {w.file} /\ w.at = "take" /\ u.at \in Reading
           \/ files' = files /\ u.at \in Reading
           \/ files' = files \cup {w.file}
    PROVE  SlotInv'
<1>1. \A x \in workers' : x.at \in InSlot => x = u
  BY DEF SlotInv
<1>2. u \in workers' /\ slot'.file = u.file
  BY DEF SlotInv
<1>3. \A x \in workers' : x.at # "take"
  BY <1>1 DEF InSlot
<1>4. inHand' # NoRequest =>
        \/ inHand'.arg \in files'
        \/ \E x \in workers' : x.at \in Reading /\ x.file = inHand'.arg
  <2>1. SUFFICES ASSUME inHand # NoRequest, inHand.arg \notin files'
                 PROVE  u.at \in Reading /\ u.file = inHand.arg
    BY <1>2
  <2>2. \/ inHand.arg \in files
        \/ \E x \in workers : x.at \in Reading /\ x.file = inHand.arg
    BY <2>1 DEF SlotInv
  <2>3. \A x \in workers : x.at \in Reading => x = w
    BY DEF SlotInv, InSlot, Reading
  <2>4. inHand.arg = w.file
    BY <2>1, <2>2, <2>3
  <2>5. QED
    BY <2>1, <2>2, <2>3, <2>4 DEF Reading
<1>5. QED
  BY <1>1, <1>2, <1>3, <1>4 DEF SlotInv

LEMMA SlotStep ==
    ASSUME TypeOK, SlotInv, HostNext
    PROVE  SlotInv'
<1>1. CASE HostAsks \/ HostCloses
  BY <1>1 DEF HostAsks, HostCloses, library, host, SlotInv
<1>2. CASE Worker
  <2>1. PICK w \in workers :
          TakeFile(w) \/ ProduceBatch(w) \/ StopEarly(w) \/ PutBack(w)
          \/ GiveSlotBack(w) \/ AnswerParse(w)
    BY <1>2 DEF Worker
  <2>2. w \in Threads
    BY DEF TypeOK, Threads
  <2>3. ASSUME NEW step, Becomes(w, step)
        PROVE  \E u : u.at = step /\ u.file = w.file /\ workers' = (workers \ {w}) \cup {u}
    <3>1. [w EXCEPT !.at = step].at = step /\ [w EXCEPT !.at = step].file = w.file
      BY <2>2 DEF Threads
    <3>2. QED
      BY <2>3, <3>1 DEF Becomes
  <2>4. CASE TakeFile(w)
    <3>1. PICK u : u.at = "parse" /\ u.file = w.file /\ workers' = (workers \ {w}) \cup {u}
      BY <2>3, <2>4 DEF TakeFile
    <3>2. /\ w.at = "take" /\ files' = files \ {w.file} /\ UNCHANGED <<slot, child, inHand>>
      BY <2>4 DEF TakeFile, At, pipes
    <3>3. QED
      BY <3>1, <3>2, SlotKept DEF InSlot, Reading
  <2>5. CASE ProduceBatch(w)
    <3>1. PICK place \in {"parsed", "parse"} :
            workers' = (workers \ {w}) \cup {[w EXCEPT !.seq = @ + 1, !.at = place]}
      BY <2>5, Zenon DEF ProduceBatch
    <3>2. \E u : u.at = place /\ u.file = w.file /\ workers' = (workers \ {w}) \cup {u}
      BY <3>1, <2>2 DEF Threads
    <3>3. PICK u : u.at = place /\ u.file = w.file /\ workers' = (workers \ {w}) \cup {u}
      BY <3>2
    <3>4. w.at = "parse" /\ files' = files /\ UNCHANGED <<slot, child, inHand>>
      BY <2>5 DEF ProduceBatch, At
    <3>5. QED
      BY <3>3, <3>4, SlotKept DEF InSlot, Reading
  <2>6. CASE StopEarly(w)
    <3>1. PICK u : u.at = "stopped" /\ u.file = w.file /\ workers' = (workers \ {w}) \cup {u}
      BY <2>3, <2>6 DEF StopEarly
    <3>2. w.at = "parse" /\ files' = files /\ UNCHANGED <<slot, child, inHand>>
      BY <2>6 DEF StopEarly, At, pipes
    <3>3. QED
      BY <3>1, <3>2, SlotKept DEF InSlot, Reading
  <2>7. CASE PutBack(w)
    <3>1. PICK step \in {"free", "free_stopped"} : Becomes(w, step)
      BY <2>7, Zenon DEF PutBack
    <3>2. PICK u : u.at = step /\ u.file = w.file /\ workers' = (workers \ {w}) \cup {u}
      BY <2>3, <3>1
    <3>3. /\ w.at \in {"parsed", "stopped"} /\ files' = files \cup {w.file}
          /\ UNCHANGED <<slot, child, inHand>>
      BY <2>7 DEF PutBack, At, pipes
    <3>4. QED
      BY <3>1, <3>2, <3>3, SlotKept DEF InSlot
  <2>8. CASE GiveSlotBack(w)
    <3>1. PICK step \in {"answer", "answer_stopped"} : Becomes(w, step)
      BY <2>8, Zenon DEF GiveSlotBack
    <3>2. PICK u : u.at = step /\ u.file = w.file /\ workers' = (workers \ {w}) \cup {u}
      BY <2>3, <3>1
    <3>3. /\ w.at \in {"free", "free_stopped"} /\ slot' = FreeSlot
          /\ UNCHANGED <<files, child, inHand>>
      BY <2>8 DEF GiveSlotBack, At, pipes
    <3>4. \A x \in workers' : x.at \notin InSlot
      BY <3>1, <3>2, <3>3 DEF SlotInv, InSlot
    <3>5. \A x \in workers : x.at \notin Reading
      BY <3>3 DEF SlotInv, InSlot, Reading
    <3>6. inHand' # NoRequest => inHand'.arg \in files'
      BY <3>3, <3>5 DEF SlotInv
    <3>7. slot'.file = NoFile /\ ~slot'.cancel
      BY <3>3 DEF FreeSlot
    <3>8. QED
      BY <3>3, <3>4, <3>6, <3>7 DEF SlotInv, InSlot
  <2>9. CASE AnswerParse(w)
    <3>1. /\ w.at \notin InSlot /\ w.at \notin Reading /\ workers' = workers \ {w}
          /\ UNCHANGED <<files, slot, child, inHand>>
      BY <2>9 DEF AnswerParse, At, InSlot, Reading
    <3>2. QED
      BY <3>1 DEF SlotInv
  <2>10. QED
    BY <2>1, <2>4, <2>5, <2>6, <2>7, <2>8, <2>9
<1>3. CASE ClaimSlot
  <2>1. Claims /\ inHand # NoRequest /\ inHand' = NoRequest /\ UNCHANGED <<files, child>>
    BY <1>3, ClaimIs DEF ClaimSlot
  <2>2. CASE slot # FreeSlot
    BY <2>1, <2>2 DEF Claims, SlotInv
  <2>3. CASE slot = FreeSlot
    <3>1. inHand.arg \in Files
      BY <2>1 DEF TypeOK, Requests
    <3>2. \A x \in workers : x.at \notin InSlot
      BY <2>3, RuntimeAssumption DEF SlotInv, TypeOK, FreeSlot
    <3>3. inHand.arg \in files
      BY <2>1, <3>2 DEF SlotInv, InSlot, Reading
    <3>4. PICK u : /\ u.at = "take" /\ u.file = inHand.arg
                   /\ workers' = workers \cup {u}
      BY <2>1, <2>3 DEF Claims
    <3>5. slot'.file = inHand.arg
      BY <2>1, <2>3 DEF Claims
    <3>6. slot'.file # NoFile
      BY <3>1, <3>5, RuntimeAssumption
    <3>7. \A x \in workers' : x.at \in InSlot => x = u
      BY <3>2, <3>4
    <3>8. u \in workers' /\ u.at \in InSlot
      BY <3>4 DEF InSlot
    <3>9. QED
      BY <2>1, <3>3, <3>4, <3>5, <3>6, <3>7, <3>8 DEF SlotInv, InSlot
  <2>4. QED
    BY <2>2, <2>3
<1>4. CASE EndOfInput
  BY <1>4 DEF EndOfInput, Exit, SlotInv
<1>5. ASSUME NEW req \in Requests, LookForFile(req)
      PROVE  SlotInv'
  BY <1>5 DEF LookForFile, SlotInv
<1>6. ASSUME NEW req \in Requests, LoadFile(req) \/ Schema(req) \/ KeyValues(req) \/ Decline(req)
      PROVE  SlotInv'
  <2>1. files \subseteq files' /\ UNCHANGED <<slot, workers, inHand, child>>
    BY <1>6 DEF LoadFile, Schema, KeyValues, Decline, library
  <2>2. QED
    BY <2>1 DEF SlotInv
<1>7. ASSUME NEW req \in Requests, UnloadFile(req)
      PROVE  SlotInv'
  <2>1. /\ inHand = NoRequest /\ UNCHANGED <<slot, workers, inHand, child>>
        /\ files' = files \/ (~IsParsing(req.arg) /\ files' = files \ {req.arg})
    BY <1>7 DEF UnloadFile, Take
  <2>2. ASSUME NEW x \in workers, x.at = "take" PROVE x.file \in files'
    <3>1. slot.file = x.file /\ x.file \in Files /\ x.file \in files
      BY <2>2 DEF SlotInv, InSlot, TypeOK
    <3>2. IsParsing(x.file)
      BY <3>1, RuntimeAssumption DEF IsParsing
    <3>3. QED
      BY <2>1, <3>1, <3>2
  <2>3. QED
    BY <2>1, <2>2 DEF SlotInv
<1>8. ASSUME NEW req \in Requests, CancelParse(req)
      PROVE  SlotInv'
  <2>1. /\ slot' = [slot EXCEPT !.cancel = @ \/ IsParsing(req.arg)]
        /\ UNCHANGED <<files, workers, inHand, child>>
    BY <1>8 DEF CancelParse
  <2>2. slot'.file = slot.file /\ (slot.file = NoFile => slot' = slot)
    BY <2>1 DEF TypeOK, IsParsing, SlotInv
  <2>3. slot = FreeSlot => slot' = FreeSlot
    BY <2>2 DEF FreeSlot
  <2>4. QED
    BY <2>1, <2>2, <2>3 DEF SlotInv
<1>9. ASSUME NEW req \in Requests, Shutdown(req)
      PROVE  SlotInv'
  BY <1>9 DEF Shutdown, Take, Exit, SlotInv
<1>10. QED
  BY <1>1, <1>2, <1>3, <1>4, <1>5, <1>6, <1>7, <1>8, <1>9, MethodsAre

LEMMA AnsweredIs ==
    ASSUME NEW id
    PROVE  Answered(id) <=> id \in AnsweredIds
  BY DEF Answered, Answers, AnsweredIds

\* While a patient host has a request at the dispatcher, no parse is under way:
\* its thread would owe the answer to an earlier request.
LEMMA NothingElse ==
    ASSUME TypeOK, SlotInv, LedgerInv, PatientInv, patient, child = "running",
           inHand # NoRequest \/ stdin # <<>>
    PROVE  slot = FreeSlot
<1>1. SUFFICES ASSUME NEW w \in workers PROVE FALSE
  BY DEF SlotInv
<1>2. /\ asked \in Nat /\ Len(stdin) \in Nat /\ Seen = asked - Len(stdin)
      /\ w.id \in Nat /\ w.id <= Seen /\ w.id \notin AnsweredIds /\ 1 <= w.id
  BY DEF TypeOK, LedgerInv, Seen
<1>3. w.id = asked /\ Len(stdin) = 0
  BY <1>2 DEF PatientInv
<1>4. stdin = <<>>
  BY <1>3 DEF TypeOK
<1>5. /\ inHand # NoRequest /\ inHand.id \in 1 .. Seen /\ inHand.id \notin AnsweredIds
      /\ inHand.id # w.id
  BY <1>1, <1>4 DEF LedgerInv
<1>6. QED
  BY <1>2, <1>3, <1>5 DEF PatientInv

\* A frame more, that does not say busy to a patient host.
LEMMA PatientWrites ==
    ASSUME Written, PatientInv, UNCHANGED <<asked, patient>>, NEW f \in Frames,
           patient => f.code # "busy", stdout' = Append(stdout, f)
    PROVE  PatientInv'
<1>1. AnsweredIds \subseteq AnsweredIds'
  BY AnswerCloses, NoticeCloses
<1>2. patient => \A i \in DOMAIN stdout' : stdout'[i].code # "busy"
  <2>1. /\ DOMAIN stdout' = 1 .. Len(stdout) + 1 /\ stdout'[Len(stdout) + 1] = f
        /\ \A i \in DOMAIN stdout : stdout'[i] = stdout[i]
        /\ DOMAIN stdout = 1 .. Len(stdout) /\ Len(stdout) \in Nat
    BY AppendIs DEF Written
  <2>2. \A i \in 1 .. Len(stdout) + 1 : i \in DOMAIN stdout \/ i = Len(stdout) + 1
    BY <2>1
  <2>3. QED
    BY <2>1, <2>2 DEF PatientInv, PatientIsNotTurnedAway
<1>3. QED
  BY <1>1, <1>2 DEF PatientInv, PatientIsNotTurnedAway

LEMMA PatientStep ==
    ASSUME TypeOK, Written, SlotInv, LedgerInv, PatientInv, HostNext
    PROVE  PatientInv'
<1>1. CASE HostAsks
  <2>1. /\ patient => \A id \in 1 .. asked : Answered(id)
        /\ asked' = asked + 1 /\ UNCHANGED <<stdout, patient>>
    BY <1>1 DEF HostAsks
  <2>2. patient => 1 .. asked \subseteq AnsweredIds
    BY <2>1, AnsweredIs
  <2>3. AnsweredIds' = AnsweredIds /\ 1 .. asked' - 1 = 1 .. asked
    BY <2>1 DEF AnsweredIds, TypeOK
  <2>4. QED
    BY <2>1, <2>2, <2>3 DEF PatientInv, PatientIsNotTurnedAway
<1>2. ASSUME UNCHANGED <<stdout, asked, patient>>
      PROVE  PatientInv'
  BY <1>2 DEF PatientInv, PatientIsNotTurnedAway, AnsweredIds
<1>3. CASE Worker /\ UNCHANGED host
  <2>1. PICK w \in workers :
          TakeFile(w) \/ ProduceBatch(w) \/ StopEarly(w) \/ PutBack(w)
          \/ GiveSlotBack(w) \/ AnswerParse(w)
    BY <1>3 DEF Worker
  <2>2. UNCHANGED <<asked, patient>>
    BY <1>3 DEF host
  <2>3. CASE TakeFile(w) \/ StopEarly(w) \/ PutBack(w) \/ GiveSlotBack(w)
    BY <2>2, <2>3, <1>2 DEF TakeFile, StopEarly, PutBack, GiveSlotBack, pipes
  <2>4. CASE ProduceBatch(w)
    <3>1. PICK b, c \in Frames : /\ b.kind # "answer" /\ c.kind # "answer"
                                 /\ b.code = "none" /\ c.code = "none"
                                 /\ stdout' = stdout \o <<b, c>>
      BY <2>4, BatchIs
    <3>2. /\ Len(stdout) \in Nat /\ DOMAIN stdout = 1 .. Len(stdout)
          /\ DOMAIN stdout' = 1 .. Len(stdout) + 2
          /\ \A i \in 1 .. Len(stdout) : stdout'[i] = stdout[i]
          /\ stdout'[Len(stdout) + 1] = b /\ stdout'[Len(stdout) + 2] = c
      BY <3>1 DEF Written
    <3>3. \A i \in 1 .. Len(stdout) + 2 :
            i \in 1 .. Len(stdout) \/ i = Len(stdout) + 1 \/ i = Len(stdout) + 2
      BY <3>2
    <3>4. patient => \A i \in DOMAIN stdout' : stdout'[i].code # "busy"
      BY <3>1, <3>2, <3>3 DEF PatientInv, PatientIsNotTurnedAway
    <3>5. \A i \in DOMAIN stdout : i \in DOMAIN stdout' /\ stdout'[i] = stdout[i]
      BY <3>2
    <3>6. AnsweredIds \subseteq AnsweredIds'
      BY <3>5 DEF AnsweredIds
    <3>7. QED
      BY <2>2, <3>4, <3>6 DEF PatientInv, PatientIsNotTurnedAway
  <2>5. CASE AnswerParse(w)
    <3>1. PICK f \in Frames : f.code # "busy" /\ stdout' = Append(stdout, f)
      BY <2>5, OutcomeIs
    <3>2. QED
      BY <2>2, <3>1, PatientWrites
  <2>6. QED
    BY <2>1, <2>3, <2>4, <2>5
<1>4. CASE ClaimSlot /\ UNCHANGED host
  <2>1. Claims /\ inHand # NoRequest /\ child = "running" /\ UNCHANGED <<asked, patient>>
    BY <1>4, ClaimIs DEF ClaimSlot, host
  <2>2. CASE slot = FreeSlot
    BY <2>1, <2>2, <1>2 DEF Claims
  <2>3. CASE slot # FreeSlot
    <3>1. ~patient
      BY <2>1, <2>3, NothingElse
    <3>2. PICK f \in Frames : stdout' = Append(stdout, f)
      BY <2>1, <2>3 DEF Claims
    <3>3. QED
      BY <2>1, <3>1, <3>2, PatientWrites
  <2>4. QED
    BY <2>2, <2>3
<1>5. CASE stdin # <<>> /\ Answering(Head(stdin))
  <2>1. /\ child = "running" /\ UNCHANGED <<asked, patient>>
        /\ \E f \in Frames : /\ f.code = "busy" => IsParsing(Head(stdin).arg)
                             /\ stdout' = Append(stdout, f)
    BY <1>5 DEF Answering, Closes, host
  <2>2. PICK f \in Frames : /\ f.code = "busy" => IsParsing(Head(stdin).arg)
                           /\ stdout' = Append(stdout, f)
    BY <2>1
  <2>3. patient => ~IsParsing(Head(stdin).arg)
    BY <1>5, <2>1, NothingElse DEF IsParsing, FreeSlot
  <2>4. QED
    BY <2>1, <2>2, <2>3, PatientWrites
<1>6. CASE HostCloses \/ ((EndOfInput \/ (LookForFile(Head(stdin)) /\ Head(stdin).arg \in files))
                            /\ UNCHANGED host)
  BY <1>6, <1>2 DEF HostCloses, EndOfInput, LookForFile, host
<1>7. QED
  <2>1. \/ HostAsks \/ HostCloses
        \/ /\ UNCHANGED host
           /\ \/ Worker \/ ClaimSlot \/ EndOfInput
              \/ /\ stdin # <<>>
                 /\ \/ LookForFile(Head(stdin)) /\ Head(stdin).arg \in files
                    \/ Answering(Head(stdin))
    BY StepsAre, Zenon
  <2>2. QED
    BY <2>1, <1>1, <1>3, <1>4, <1>5, <1>6, Zenon

(***************************************************************************)
(* The theorems                                                            *)
(***************************************************************************)
LEMMA Starts ==
    ASSUME PipesInit, RuntimeInit, HostInit
    PROVE  IInv /\ Written
<1>1. stdin = <<>> /\ stdout = <<>> /\ asked = 0 /\ workers = {} /\ inHand = NoRequest
      /\ slot = FreeSlot /\ child = "running" /\ files = {}
  BY DEF PipesInit, RuntimeInit, HostInit
<1>2. TypeOK
  BY <1>1 DEF PipesInit, RuntimeInit, HostInit, TypeOK, FreeSlot
<1>3. SlotInv
  BY <1>1 DEF SlotInv, FreeSlot
<1>4. AnsweredIds = {} /\ Seen = 0
  <2>1. DOMAIN stdout = {}
    BY <1>1
  <2>2. Len(stdin) = 0
    BY <1>1
  <2>3. AnsweredIds = {}
    BY <2>1 DEF AnsweredIds
  <2>4. Seen = 0 - 0
    BY <1>1, <2>2, Zenon DEF Seen
  <2>5. QED
    BY <2>3, <2>4
<1>5. LedgerInv
  BY <1>1, <1>4 DEF LedgerInv
<1>6. PatientInv
  BY <1>1, <1>4 DEF PatientInv, PatientIsNotTurnedAway
<1>7. QED
  BY <1>1, <1>2, <1>3, <1>5, <1>6 DEF IInv, Written

LEMMA Stutters ==
    ASSUME IInv, Written, UNCHANGED hostVars
    PROVE  IInv' /\ Written'
<1>1. /\ UNCHANGED <<stdin, stdinOpen, stdout, child, files, slot, workers, metricsOf, inHand>>
      /\ UNCHANGED <<asked, patient>>
  BY DEF hostVars, pipes, library, host
<1>2. TypeOK'
  BY <1>1 DEF IInv, TypeOK
<1>3. SlotInv'
  BY <1>1 DEF IInv, SlotInv
<1>4. AnsweredIds' = AnsweredIds /\ Seen' = Seen
  BY <1>1 DEF AnsweredIds, Seen
<1>5. LedgerInv'
  BY <1>1, <1>4 DEF IInv, LedgerInv
<1>6. PatientInv'
  BY <1>1, <1>4 DEF IInv, PatientInv, PatientIsNotTurnedAway
<1>7. QED
  BY <1>1, <1>2, <1>3, <1>5, <1>6 DEF IInv, Written

\* Types, the parse slot, the ledger of requests and answers, and what a
\* patient host is told hold together in every run of the library.
THEOREM Invariance == HostSpec => [](IInv /\ Written)
<1>1. PipesInit /\ RuntimeInit /\ HostInit => IInv /\ Written
  BY Starts
<1>2. ASSUME IInv /\ Written, [HostNext]_<<pipes, library, host>>
      PROVE  (IInv /\ Written)'
  <2>1. CASE HostNext
    BY <1>2, <2>1, TypeStep, SlotStep, LedgerStep, PatientStep DEF IInv
  <2>2. CASE UNCHANGED <<pipes, library, host>>
    BY <1>2, <2>2, Stutters DEF hostVars
  <2>3. QED
    BY <1>2, <2>1, <2>2
<1>3. QED
  BY <1>1, <1>2, PTL DEF HostSpec

\* The library's variables keep their types whatever the host sends.
THEOREM TypeCorrect == HostSpec => []TypeOK
<1>1. IInv => TypeOK
  BY DEF IInv
<1>2. QED
  BY Invariance, <1>1, PTL

\* ParseFindsItsFile (PluginRuntime): the thread's `expect` at dispatch.rs:239
\* never panics, for any host, any files and any number of requests.
THEOREM FindsItsFile == HostSpec => []ParseFindsItsFile
<1>1. IInv => ParseFindsItsFile
  BY DEF IInv, SlotInv, ParseFindsItsFile, At
<1>2. QED
  BY Invariance, <1>1, PTL

\* AnsweredOnce (PluginHost): dispatcher and parse thread answer every request,
\* and none twice (dispatch.rs:252).
THEOREM OneAnswer == HostSpec => []AnsweredOnce
<1>1. ASSUME IInv, Written PROVE AnsweredOnce
  <2>1. ASSUME NEW id \in 1 .. asked PROVE Cardinality(Answers(id)) <= 1
    <3>1. CASE Answers(id) = {}
      BY <3>1, FS_EmptySet
    <3>2. CASE Answers(id) # {}
      <4>1. PICK i \in Answers(id) : TRUE
        BY <3>2
      <4>2. \A k \in Answers(id) : k = i
        BY <1>1, <4>1 DEF Answers, IInv, LedgerInv
      <4>3. Answers(id) = {i}
        BY <4>1, <4>2
      <4>4. QED
        BY <4>3, FS_Singleton
    <3>3. QED
      BY <3>1, <3>2
  <2>2. ASSUME child = "running", stdin = <<>>, inHand = NoRequest, workers = {},
               NEW id \in 1 .. asked
        PROVE  Answered(id)
    <3>1. Seen = asked
      BY <1>1, <2>2 DEF IInv, TypeOK, Seen
    <3>2. inHand.id # id
      BY <2>2 DEF NoRequest, Request
    <3>3. id \in AnsweredIds
      BY <1>1, <2>2, <3>1, <3>2 DEF IInv, LedgerInv
    <3>4. QED
      BY <3>3, AnsweredIs
  <2>3. QED
    BY <2>1, <2>2 DEF AnsweredOnce
<1>2. QED
  BY Invariance, <1>1, PTL

\* PatientIsNotTurnedAway (PluginHost): file and slot are back before the answer
\* to parse goes out (dispatch.rs:243-252), so whoever waits for it never meets
\* a busy plugin.
THEOREM NotTurnedAway == HostSpec => []PatientIsNotTurnedAway
<1>1. IInv => PatientIsNotTurnedAway
  BY DEF IInv, PatientInv
<1>2. QED
  BY Invariance, <1>1, PTL

(***************************************************************************)
(* `plugin check` and the host's reader, folder by folder                  *)
(***************************************************************************)
\* What an error of the check tells of the folder it found none in.
LEMMA NoErrorSays ==
    ASSUME NEW f \in Folder, ~HasError(StructureFindings(f))
    PROVE  /\ f.rooted /\ f.text = "json" /\ ~SchemaBreaks(f)
           /\ ~HasError(SemanticFindings(f))
<1>1. f.rooted
  BY Zenon DEF StructureFindings, HasError, Error
<1>2. f.text \notin {"unreadable", "garbage", "array"}
  <2>1. ASSUME f.text \in {"unreadable", "garbage", "array"}
        PROVE  Error("MAN-01") \subseteq StructureFindings(f)
    BY <1>1, <2>1 DEF StructureFindings
  <2> QED
    BY <2>1, Zenon DEF HasError, Error
<1>3. f.text = "json"
  BY <1>2 DEF Folder
<1>4. SemanticFindings(f) \cup When(SchemaBreaks(f), Error("MAN-01")) \subseteq StructureFindings(f)
  BY <1>1, <1>2, Zenon DEF StructureFindings
<1>5. ~SchemaBreaks(f)
  BY <1>4, Zenon DEF HasError, When, Error
<1> QED
  BY <1>1, <1>3, <1>4, <1>5, Zenon DEF HasError

\* The same of each rule the host has a reader of its own for.
LEMMA NoRuleBroken ==
    ASSUME NEW f \in Folder, ~HasError(SemanticFindings(f))
    PROVE  /\ f.minProtocol <= HostVersion
           /\ ~IsBlank(f.author) /\ ~BadUrl(f.repository)
           /\ f.workdir # "gone"
           /\ f.command # "absent" /\ ~InFolder(f.command) => Interpreter(f.command)
           /\ \A i \in DOMAIN f.tools : f.tools[i].req \notin {"absent", "bad"}
           /\ \A i \in DOMAIN f.changelog :
                 /\ LaxVersion(f.changelog[i].version) /\ RealDate(f.changelog[i].date)
                 /\ f.changelog[i].notes
           /\ \A d \in Drops(f.changelog) : ~(d <= 0)
<1> DEFINE Silent(F) == \A e \in F : e.level # "error"
<1>0. /\ Silent(EntryFindings(f)) /\ Silent(ProtocolFindings(f)) /\ Silent(OriginFindings(f))
      /\ Silent(ToolFindings(f)) /\ Silent(ChangelogFindings(f))
  BY Zenon DEF SemanticFindings, HasError
<1>1. f.minProtocol <= HostVersion
  <2>1. ~(f.minProtocol > HostVersion)
    BY <1>0, Zenon DEF ProtocolFindings, When, Error
  <2> QED
    BY <2>1, LimitsAssumption DEF Folder
<1>2. ~IsBlank(f.author) /\ ~BadUrl(f.repository)
  <2>1. ASSUME IsBlank(f.author) \/ BadUrl(f.repository)
        PROVE  [rule |-> "MAN-10", level |-> "error"] \in OriginFindings(f)
    BY <2>1 DEF OriginFindings, When, Error
  <2> QED
    BY <1>0, <2>1
<1>3. f.workdir # "gone" /\ (f.command # "absent" /\ ~InFolder(f.command) => Interpreter(f.command))
  <2>1. ASSUME f.workdir = "gone" PROVE [rule |-> "MAN-03", level |-> "error"] \in EntryFindings(f)
    BY <2>1 DEF EntryFindings, When, Error
  <2>2. ASSUME f.command # "absent", ~InFolder(f.command), ~Interpreter(f.command)
        PROVE  [rule |-> "MAN-03", level |-> "error"] \in EntryFindings(f)
    BY <2>2 DEF EntryFindings, When, Error
  <2> QED
    BY <1>0, <2>1, <2>2
<1>4. \A i \in DOMAIN f.tools : f.tools[i].req \notin {"absent", "bad"}
  <2> SUFFICES ASSUME NEW i \in DOMAIN f.tools, f.tools[i].req \in {"absent", "bad"} PROVE FALSE
    OBVIOUS
  <2>1. [rule |-> "MAN-11", level |-> "error"] \in ToolFindings(f)
    BY DEF ToolFindings, Each, When, Error
  <2> QED
    BY <1>0, <2>1
<1>5. \A i \in DOMAIN f.changelog :
         /\ LaxVersion(f.changelog[i].version) /\ RealDate(f.changelog[i].date)
         /\ f.changelog[i].notes
  <2> SUFFICES ASSUME NEW i \in DOMAIN f.changelog,
                      ~LaxVersion(f.changelog[i].version) \/ ~RealDate(f.changelog[i].date)
                         \/ ~f.changelog[i].notes
               PROVE  FALSE
    BY Zenon
  <2>1. [rule |-> "MAN-12", level |-> "error"] \in ChangelogFindings(f)
    BY DEF ChangelogFindings, EntriesFindings, Each, When, Error
  <2> QED
    BY <1>0, <2>1
<1>6. \A d \in Drops(f.changelog) : ~(d <= 0)
  <2> SUFFICES ASSUME \E d \in Drops(f.changelog) : d <= 0 PROVE FALSE
    BY Zenon
  <2>1. [rule |-> "MAN-13", level |-> "error"] \in ChangelogFindings(f)
    BY Zenon DEF ChangelogFindings, When, Error
  <2> QED
    BY <1>0, <2>1
<1> QED
  BY <1>1, <1>2, <1>3, <1>4, <1>5, <1>6, Zenon

\* Two readers: a folder without an error, but for what only the host reads,
\* meets every one of the host's conditions.
LEMMA CheckedFolder ==
    ASSUME NEW f \in Folder, ~ForTheHost(f), ~HasError(StructureFindings(f))
    PROVE  HostVerdict(f) = "accepted"
<1>1. /\ f.rooted /\ f.text = "json" /\ ~SchemaBreaks(f) /\ ~HasError(SemanticFindings(f))
  BY NoErrorSays, Zenon
<1>2. /\ f.minProtocol <= HostVersion
      /\ ~IsBlank(f.author) /\ ~BadUrl(f.repository) /\ f.workdir # "gone"
      /\ f.command # "absent" /\ ~InFolder(f.command) => Interpreter(f.command)
      /\ \A i \in DOMAIN f.tools : f.tools[i].req \notin {"absent", "bad"}
      /\ \A i \in DOMAIN f.changelog :
            /\ LaxVersion(f.changelog[i].version) /\ RealDate(f.changelog[i].date)
            /\ f.changelog[i].notes
      /\ \A d \in Drops(f.changelog) : ~(d <= 0)
  BY <1>1, NoRuleBroken, Zenon
<1>t. /\ f.version \in Version /\ f.command \in Commands /\ f.tools \in Seq(Tool)
      /\ f.changelog \in Seq(LogEntry) /\ f.minProtocol \in Nat
  BY DEF Folder
<1>3. /\ f.idShape /\ f.name \notin {"absent", "empty"} /\ LaxVersion(f.version)
      /\ f.command \notin {"absent", "empty"} /\ f.extensions # "absent"
  BY <1>1, Zenon DEF SchemaBreaks
<1>4. /\ f.override = "absent" /\ f.update # "bad" /\ f.extensions # "illegal"
      /\ f.fingerprints # "blank" /\ f.command \notin {"local", "python gone", "rel, no .exe"}
      /\ f.version.form # "loose"
      /\ \A i \in DOMAIN f.changelog : f.changelog[i].version.form # "loose"
      /\ \A i \in DOMAIN f.tools : f.tools[i].gap = "space" /\ f.tools[i].req # "unmet"
  BY DEF ForTheHost, Range
<1>5. f.command \in {"rel", "abs", "python"}
  BY <1>2, <1>3, <1>4, <1>t DEF Commands, InFolder, Interpreter
<1>6. StrictVersion(f.version)
  BY <1>3, <1>4, <1>t DEF Version, LaxVersion, StrictVersion
<1>7. \A i \in DOMAIN f.changelog : StrictVersion(f.changelog[i].version)
  <2> TAKE i \in DOMAIN f.changelog
  <2>1. f.changelog[i].version \in Version
    <3>1. f.changelog[i] \in LogEntry
      BY <1>t
    <3> QED
      BY <3>1 DEF LogEntry
  <2> QED
    BY <2>1, <1>2, <1>4 DEF Version, LaxVersion, StrictVersion
<1>8. ~ChangelogRefused(f.changelog)
  <2>1. \A e \in Range(f.changelog) : StrictVersion(e.version) /\ ShapedDate(e.date)
    BY <1>2, <1>7 DEF Range, RealDate, ShapedDate
  <2>2. ASSUME NEW i \in 1 .. Len(f.changelog) - 1
        PROVE  ~(f.changelog[i].version.n <= f.changelog[i + 1].version.n)
    <3>1. i \in DOMAIN f.changelog /\ i + 1 \in DOMAIN f.changelog
      BY <1>t
    <3>2. f.changelog[i].version.n - f.changelog[i + 1].version.n \in Drops(f.changelog)
      BY <3>1, <1>7 DEF Drops
    <3>3. f.changelog[i].version.n \in Nat /\ f.changelog[i + 1].version.n \in Nat
      <4>1. f.changelog[i] \in LogEntry /\ f.changelog[i + 1] \in LogEntry
        BY <3>1, <1>t
      <4> QED
        BY <4>1 DEF LogEntry, Version
    <3> QED
      BY <3>2, <3>3, <1>2
  <2> QED
    BY <2>1, <2>2, Zenon DEF ChangelogRefused
<1>9. \A t \in Range(f.tools) : ~ToolRefused(t)
  BY <1>2, <1>4 DEF ToolRefused, Range
<1>10. EntryFound(f) /\ ~IsBlank(f.command)
  BY <1>4, <1>5 DEF EntryFound, Command, OnPath, IsBlank
<1>11. ~NoManifest(f)
  <2>1. \A e \in Range(f.changelog) : e.notes
    BY <1>2 DEF Range
  <2> QED
    BY <2>1, <1>1, <1>3, Zenon DEF NoManifest
<1>12. ~MatchRefused(f) /\ ~UpdateRefused(f) /\ ~OriginRefused(f) /\ ~(f.minProtocol > HostVersion)
  <2>1. ~(f.minProtocol > HostVersion)
    BY <1>2, <1>t, LimitsAssumption
  <2> QED
    BY <1>2, <1>4, <2>1, Zenon DEF MatchRefused, UpdateRefused, OriginRefused
<1> QED
  BY <1>1, <1>2, <1>3, <1>6, <1>8, <1>9, <1>10, <1>11, <1>12, Zenon DEF HostVerdict

\* All positions picked are the sequence again.
LEMMA PickAll ==
    ASSUME NEW S, NEW seq \in Seq(S)
    PROVE  Pick(seq, DOMAIN seq) = seq
<1> DEFINE L == Len(seq)
           at_(n) == CHOOSE i \in 1 .. L : Cardinality({k \in 1 .. L : k <= i}) = n
<1>1. DOMAIN seq = 1 .. L /\ L \in Nat
  OBVIOUS
<1>2. Cardinality(1 .. L) = L
  BY <1>1, FS_Interval
<1>3. ASSUME NEW i \in 1 .. L PROVE Cardinality({k \in 1 .. L : k <= i}) = i
  <2>1. {k \in 1 .. L : k <= i} = 1 .. i
    BY <1>1
  <2>2. Cardinality(1 .. i) = i
    BY <1>1, FS_Interval
  <2> QED
    BY <2>1, <2>2
<1>4. ASSUME NEW n \in 1 .. L PROVE at_(n) = n
  <2>1. \E i \in 1 .. L : Cardinality({k \in 1 .. L : k <= i}) = n
    BY <1>3
  <2>2. at_(n) \in 1 .. L /\ Cardinality({k \in 1 .. L : k <= at_(n)}) = n
    BY <2>1, Zenon
  <2> QED
    BY <2>2, <1>3
<1> HIDE DEF at_
<1>5. Pick(seq, DOMAIN seq) = [n \in 1 .. L |-> seq[at_(n)]]
  <2>1. Pick(seq, 1 .. L) = [n \in 1 .. L |-> seq[at_(n)]]
    BY <1>2 DEF Pick, at_
  <2> QED
    BY <2>1, <1>1
<1> QED
  BY <1>4, <1>5, <1>1

\* A filter that everything passes changes nothing.
LEMMA PickedWhole ==
    ASSUME NEW S, NEW seq \in Seq(S), NEW I, I = DOMAIN seq
    PROVE  Pick(seq, I) = seq
  BY PickAll, Zenon

\* Where no id comes twice, every position is the first of its id.
LEMMA NoRepeats ==
    ASSUME NEW S, NEW seq \in Seq(S), ~RepeatsAnId(seq)
    PROVE  Firsts(seq, DOMAIN seq) = DOMAIN seq
<1>1. \A i \in DOMAIN seq : i \in Nat /\ \A j \in DOMAIN seq : j < i => j \in 1 .. i - 1
  OBVIOUS
<1>2. \A i \in DOMAIN seq : \A j \in 1 .. i - 1 : seq[j].id # seq[i].id
  BY Zenon DEF RepeatsAnId, Repeats
<1> QED
  BY <1>1, <1>2 DEF Firsts

\* A list of which every element comes out of its own cut as it went in.
LEMMA CutWhole ==
    ASSUME NEW S, NEW seq \in Seq(S), NEW g, g = [i \in DOMAIN seq |-> seq[i]]
    PROVE  g = seq
  OBVIOUS

\* Entries that are all good, words that are not blank, and groups made of
\* such, pass the host's filters whole.
LEMMA EntriesKept ==
    ASSUME NEW e \in Entries, ~BlankEntries(e), "none" \notin Range(e)
    PROVE  KeptEntries(e) = e
<1>1. \A i \in DOMAIN e : e[i] \in {"good", "blank", "empty", "none"} /\ e[i] \in Range(e)
  BY DEF Entries, Range
<1>2. \A i \in DOMAIN e : e[i] = "good"
  BY <1>1 DEF BlankEntries
<1>3. {i \in DOMAIN e : e[i] = "good"} = DOMAIN e
  BY <1>2
<1> QED
  BY <1>3, PickedWhole DEF KeptEntries, Entries

LEMMA KeywordsKept ==
    ASSUME NEW words \in Seq(Word), \A w \in Range(words) : ~IsBlank(w)
    PROVE  KeptKeywords(words) = words
<1>1. {i \in DOMAIN words : ~IsBlank(words[i])} = DOMAIN words
  BY DEF Range
<1> QED
  BY <1>1, PickedWhole DEF KeptKeywords

LEMMA GroupsKept ==
    ASSUME NEW groups \in Seq(Group), ~RepeatsAnId(groups),
           \A g \in Range(groups) :
              /\ ~BlankIn(g.name) /\ ~BlankEntries(g.entries) /\ "none" \notin Range(g.entries)
    PROVE  KeptGroups(groups) = groups
<1>1. {i \in DOMAIN groups : ~BlankIn(groups[i].name)} = DOMAIN groups
  BY DEF Range
<1>2. Pick(groups, Firsts(groups, DOMAIN groups)) = groups
  BY NoRepeats, PickedWhole
<1>3. ASSUME NEW i \in DOMAIN groups
      PROVE  [groups[i] EXCEPT !.entries = KeptEntries(groups[i].entries)] = groups[i]
  <2>1. groups[i] \in Group /\ groups[i] \in Range(groups)
    BY DEF Range
  <2>2. groups[i].entries \in Entries
    BY <2>1 DEF Group
  <2>3. KeptEntries(groups[i].entries) = groups[i].entries
    BY <2>1, <2>2, EntriesKept
  <2> QED
    BY <2>1, <2>3 DEF Group
<1>4. KeptGroups(groups)
        = [i \in DOMAIN groups |-> [groups[i] EXCEPT !.entries = KeptEntries(groups[i].entries)]]
  BY <1>1, <1>2 DEF KeptGroups
<1>5. KeptGroups(groups) = [i \in DOMAIN groups |-> groups[i]]
  BY <1>3, <1>4
<1> QED
  BY <1>5, CutWhole

\* A preset without a doubt or a break of the schema, as it comes out of the host.
LEMMA PresetKept ==
    ASSUME NEW p \in Preset, ~Doubtful(p), ~RepeatsAnId(p.groups),
           p.idShape, Len(p.entries) <= EntryLimit, "none" \notin Range(p.entries),
           \A g \in Range(p.groups) :
              Len(g.entries) <= EntryLimit /\ "none" \notin Range(g.entries)
    PROVE  /\ ~PresetProblem(p)
           /\ [p EXCEPT !.entries = KeptEntries(@), !.groups = KeptGroups(@),
                        !.keywords = KeptKeywords(@)] = p
<1>t. p.entries \in Entries /\ p.groups \in Seq(Group) /\ p.keywords \in Seq(Word)
  BY DEF Preset
<1>1. /\ ~BlankIn(p.name) /\ ~BlankEntries(p.entries)
      /\ \A w \in Range(p.keywords) : ~IsBlank(w)
      /\ \A g \in Range(p.groups) : ~BlankIn(g.name) /\ ~BlankEntries(g.entries)
  BY Zenon DEF Doubtful
<1>2. Len(p.entries) \in Nat /\ \A g \in Range(p.groups) : Len(g.entries) \in Nat
  BY <1>t DEF Entries, Group, Range
<1>3. ~PresetProblem(p)
  BY <1>1, <1>2, LimitsAssumption DEF PresetProblem
<1>4. KeptEntries(p.entries) = p.entries
  BY <1>1, <1>t, EntriesKept
<1>5. KeptGroups(p.groups) = p.groups
  BY <1>1, <1>t, GroupsKept
<1>6. KeptKeywords(p.keywords) = p.keywords
  BY <1>1, <1>t, KeywordsKept
<1> QED
  BY <1>3, <1>4, <1>5, <1>6 DEF Preset

\* A folder without a MAN-14 or MAN-01 goes through sanitize_presets unchanged.
LEMMA UnwarnedFolder ==
    ASSUME NEW f \in Folder, f.rooted, f.text = "json",
           \A e \in StructureFindings(f) : e.rule \notin {"MAN-01", "MAN-14"}
    PROVE  SanitizePresets(f.presets) = f.presets
<1> DEFINE ps == f.presets
<1>t. ps \in Seq(Preset)
  BY DEF Folder
<1>1. When(SchemaBreaks(f), Error("MAN-01")) \cup PresetFindings(f) \subseteq StructureFindings(f)
  <2>1. When(SchemaBreaks(f), Error("MAN-01")) \cup SemanticFindings(f) \subseteq StructureFindings(f)
    BY DEF StructureFindings
  <2> QED
    BY <2>1, Zenon DEF SemanticFindings
<1>2. ~SchemaBreaks(f)
  BY <1>1, Zenon DEF When, Error
<1>3. ~RepeatsAnId(ps)
  <2>1. ASSUME RepeatsAnId(ps) PROVE [rule |-> "MAN-14", level |-> "warning"] \in PresetFindings(f)
    BY <2>1 DEF PresetFindings, When, Warn
  <2> QED
    BY <1>1, <2>1
<1>4. \A i \in DOMAIN ps : ~Doubtful(ps[i]) /\ ~RepeatsAnId(ps[i].groups)
  <2> SUFFICES ASSUME NEW i \in DOMAIN ps, Doubtful(ps[i]) \/ RepeatsAnId(ps[i].groups) PROVE FALSE
    BY Zenon
  <2>1. [rule |-> "MAN-14", level |-> "warning"] \in PresetFindings(f)
    BY DEF PresetFindings, Each, When, Warn
  <2> QED
    BY <1>1, <2>1
<1>5. /\ ~(Len(ps) > PresetLimit)
      /\ \A i \in DOMAIN ps :
            /\ ps[i].idShape /\ ~(Len(ps[i].entries) > EntryLimit)
            /\ "none" \notin Range(ps[i].entries)
            /\ \A g \in Range(ps[i].groups) :
                  ~(Len(g.entries) > EntryLimit) /\ "none" \notin Range(g.entries)
  BY <1>2, Zenon DEF SchemaBreaks
<1> HIDE DEF ps
<1>6. ASSUME NEW i \in DOMAIN ps
      PROVE  /\ ~PresetProblem(ps[i])
             /\ [ps[i] EXCEPT !.entries = KeptEntries(@), !.groups = KeptGroups(@),
                              !.keywords = KeptKeywords(@)] = ps[i]
  <2>1. ps[i] \in Preset
    BY <1>t
  <2>2. ps[i].entries \in Entries /\ ps[i].groups \in Seq(Group)
    BY <2>1 DEF Preset
  <2>3. Len(ps[i].entries) <= EntryLimit
    BY <1>5, <2>2, LimitsAssumption DEF Entries
  <2>4. ASSUME NEW g \in Range(ps[i].groups) PROVE Len(g.entries) <= EntryLimit
    <3>1. g \in Group
      BY <2>2 DEF Range
    <3>2. g.entries \in Entries
      BY <3>1 DEF Group
    <3> QED
      BY <1>5, <3>2, LimitsAssumption DEF Entries
  <2> QED
    BY <2>1, <2>3, <2>4, <1>4, <1>5, PresetKept
<1>7. Allowed(ps) = DOMAIN ps
  <2>1. DOMAIN ps = 1 .. Len(ps) /\ Len(ps) \in Nat
    BY <1>t
  <2> QED
    BY <2>1, <1>5, LimitsAssumption DEF Allowed
<1>8. {i \in Allowed(ps) : ~PresetProblem(ps[i])} = DOMAIN ps
  BY <1>6, <1>7
<1>9. Pick(ps, Firsts(ps, DOMAIN ps)) = ps
  BY <1>t, <1>3, NoRepeats, PickedWhole
<1>10. SanitizePresets(ps)
         = [i \in DOMAIN ps |-> [ps[i] EXCEPT !.entries = KeptEntries(@),
                                  !.groups = KeptGroups(@), !.keywords = KeptKeywords(@)]]
  BY <1>8, <1>9 DEF SanitizePresets
<1>11. SanitizePresets(ps) = [i \in DOMAIN ps |-> ps[i]]
  BY <1>6, <1>10
<1>12. SanitizePresets(ps) = ps
  BY <1>11, <1>t, CutWhole
<1> QED
  BY <1>12 DEF ps

checkVars == <<check, request, result>>

\* The findings of the first phase stay, and the scan speaks of the same folder.
FolderInv ==
    /\ folder \in Folder
    /\ at # "structure" /\ ~Refused => StructureFindings(folder) \subseteq findings
    /\ verdict # "unread" =>
          /\ at # "structure"
          /\ verdict = HostVerdict(folder) /\ kept = SanitizePresets(folder.presets)

\* The replay adds findings and takes none back, and it does not come again to
\* where it began.
LEMMA ReplayAdds ==
    ASSUME NEW file, CheckNext(file)
    PROVE  at # "structure" /\ at' # "structure" /\ findings \subseteq findings'
<1>0. "structure" \notin Asking /\ \A s \in Asking : After[s] # "structure"
  BY DEF Asking, Id, After
<1>a. ASSUME NEW claimed, NEW known, at \in Asking
      PROVE  NextStep(claimed, known) # "structure"
  BY <1>0, <1>a, Zenon DEF NextStep
<1>1. CASE Ask(file)
  BY <1>0, <1>1, Zenon DEF Ask
<1>2. CASE Judge
  <2>1. PICK f : JudgeLine(f) \/ JudgeNotification(f) \/ JudgeStrayAnswer(f) \/ JudgeAnswer(f)
    BY <1>2, Zenon DEF Judge
  <2>2. at \in Asking
    BY <2>1, Zenon DEF JudgeLine, JudgeNotification, JudgeStrayAnswer, JudgeAnswer, Frame
  <2>3. at' # "structure"
    BY <2>1, <2>2, <1>0, <1>a, Zenon
       DEF JudgeLine, JudgeNotification, JudgeStrayAnswer, JudgeAnswer
  <2>4. findings \subseteq findings'
    BY <2>1, Zenon DEF JudgeLine, JudgeNotification, JudgeStrayAnswer, JudgeAnswer
  <2> QED
    BY <1>0, <2>2, <2>3, <2>4, Zenon
<1>3. CASE WatchdogRunsOut \/ WaitIsOver
  <2>1. at \in Asking /\ Silence
    BY <1>3, Zenon DEF WatchdogRunsOut, WaitIsOver
  <2> QED
    BY <2>1, <1>0, <1>a, Zenon DEF Silence
<1>4. CASE AwaitExit \/ AwaitEof \/ Kill
  BY <1>4, Zenon DEF AwaitExit, AwaitEof, Kill
<1> QED
  BY <1>1, <1>2, <1>3, <1>4, Zenon DEF CheckNext

\* Neither the check nor the scan breaks FolderInv.
LEMMA FolderStep == FolderInv /\ [\E file : FolderNext(file)]_checkVars => FolderInv'
<1> SUFFICES ASSUME FolderInv, [\E file : FolderNext(file)]_checkVars PROVE FolderInv'
  OBVIOUS
<1>r. UNCHANGED request => UNCHANGED folder /\ (Refused' <=> Refused)
  BY Zenon DEF request, Refused, NoSchema
<1>1. ASSUME NEW file, CheckNext(file), UNCHANGED <<request, result>> PROVE FolderInv'
  <2>1. at # "structure" /\ at' # "structure" /\ findings \subseteq findings'
    BY <1>1, ReplayAdds
  <2>2. UNCHANGED <<folder, verdict, kept>> /\ (Refused' <=> Refused)
    BY <1>1, <1>r, Zenon DEF request, result, scan
  <2> QED
    BY <2>1, <2>2 DEF FolderInv
<1>2. CASE RefuseCall
  <2>1. at = "structure" /\ at' # "structure" /\ Refused
    BY <1>2, Zenon DEF RefuseCall
  <2>2. UNCHANGED <<folder, verdict, kept>> /\ (Refused' <=> Refused)
    BY <1>2, <1>r, Zenon DEF RefuseCall, request, scan
  <2> QED
    BY <2>1, <2>2 DEF FolderInv
<1>3. CASE Structure
  <2>1. at = "structure" /\ findings' = StructureFindings(folder)
    BY <1>3, Zenon DEF Structure
  <2>2. UNCHANGED <<folder, verdict, kept>>
    BY <1>3, Zenon DEF Structure, request, scan
  <2> QED
    BY <2>1, <2>2 DEF FolderInv
<1>4. CASE Report
  <2>1. at # "structure" /\ at' # "structure" /\ UNCHANGED findings
    BY <1>4, Zenon DEF Report
  <2>2. UNCHANGED <<folder, verdict, kept>> /\ (Refused' <=> Refused)
    BY <1>4, <1>r, Zenon DEF Report, request, scan
  <2> QED
    BY <2>1, <2>2 DEF FolderInv
<1>5. CASE Discover
  <2>1. at # "structure" /\ UNCHANGED <<at, findings>>
    BY <1>5, Zenon DEF Discover, check
  <2>2. /\ verdict' = HostVerdict(folder) /\ kept' = SanitizePresets(folder.presets)
        /\ UNCHANGED folder /\ (Refused' <=> Refused)
    BY <1>5, <1>r, Zenon DEF Discover, request
  <2> QED
    BY <2>1, <2>2 DEF FolderInv
<1>6. CASE UNCHANGED checkVars
  <2>1. UNCHANGED <<folder, verdict, kept, at, findings>> /\ (Refused' <=> Refused)
    BY <1>6, <1>r, Zenon DEF checkVars, check, request, result, scan
  <2> QED
    BY <2>1 DEF FolderInv
<1> QED
  BY <1>1, <1>2, <1>3, <1>4, <1>5, <1>6, Zenon DEF FolderNext

\* What the inductive invariant is made for, in any state it holds in.
LEMMA AcceptedThen ==
    ASSUME FolderInv
    PROVE  CheckedIsAccepted /\ WarnedOrKept
<1>1. ASSUME verdict # "unread", ~Refused
      PROVE  /\ folder \in Folder /\ StructureFindings(folder) \subseteq findings
             /\ verdict = HostVerdict(folder) /\ kept = SanitizePresets(folder.presets)
  BY <1>1, Zenon DEF FolderInv
<1>2. CheckedIsAccepted
  <2> SUFFICES ASSUME verdict # "unread", ~Refused, ~ForTheHost(folder), ~HasError(findings)
               PROVE  verdict = "accepted"
    BY Zenon DEF CheckedIsAccepted
  <2>1. ~HasError(StructureFindings(folder))
    BY <1>1, Zenon DEF HasError
  <2> QED
    BY <1>1, <2>1, CheckedFolder
<1>3. WarnedOrKept
  <2> SUFFICES ASSUME verdict = "accepted", ~Refused,
                      \A f \in findings : f.rule \notin {"MAN-01", "MAN-14"}
               PROVE  kept = folder.presets
    BY Zenon DEF WarnedOrKept
  <2>1. /\ folder \in Folder /\ StructureFindings(folder) \subseteq findings
        /\ HostVerdict(folder) = "accepted" /\ kept = SanitizePresets(folder.presets)
    BY <1>1
  <2>2. folder.rooted /\ ~NoManifest(folder)
    BY <2>1 DEF HostVerdict
  <2>3. folder.text = "json"
    BY <2>2, Zenon DEF NoManifest
  <2> QED
    BY <2>1, <2>2, <2>3, UnwarnedFolder
<1> QED
  BY <1>2, <1>3

LEMMA FolderStarts == CheckInit /\ FolderStart => FolderInv
<1> SUFFICES ASSUME CheckInit, FolderStart PROVE FolderInv
  OBVIOUS
<1>1. at = "structure"
  BY Zenon DEF CheckInit
<1>2. folder \in Folder /\ verdict = "unread"
  BY Zenon DEF FolderStart, FolderInit
<1> QED
  BY <1>1, <1>2 DEF FolderInv

\* The inductive invariant of the check and the scan that follows it, for any
\* folder and any plugin in it.
THEOREM FolderInvariance == FolderSpec => []FolderInv
<1>1. CheckInit /\ FolderStart => FolderInv
  BY FolderStarts
<1>2. FolderInv /\ [\E file : FolderNext(file)]_<<check, request, result>> => FolderInv'
  BY FolderStep DEF checkVars
<1> QED
  BY <1>1, <1>2, PTL DEF FolderSpec

\* CheckedIsAccepted for every folder and every plugin: the two readers agree
\* on whatever both of them read (structure.rs, manifest.rs).
THEOREM ReadersAgree == FolderSpec => []CheckedIsAccepted
<1>1. FolderInv => CheckedIsAccepted
  BY AcceptedThen
<1> QED
  BY <1>1, FolderInvariance, PTL

\* WarnedOrKept for every folder: MAN-14 foresees every cut of sanitize_presets.
THEOREM CutsAreWarned == FolderSpec => []WarnedOrKept
<1>1. FolderInv => WarnedOrKept
  BY AcceptedThen
<1> QED
  BY <1>1, FolderInvariance, PTL

(***************************************************************************)
(* `plugin check --behavior` against the runtime library                   *)
(***************************************************************************)
\* The questions of a replay, by their ids, methods and successors.
LEMMA QuestionsAre ==
    /\ Asking = Replay \cup {"unknown"}
    /\ Id["initialize"] = 1 /\ Id["schema"] = 2 /\ Id["can_handle"] = 3 /\ Id["load_file"] = 4
    /\ Id["reload"] = 5 /\ Id["reschema"] = 6 /\ Id["parse"] = 7 /\ Id["key_values"] = 8
    /\ Id["probe"] = 11 /\ Id["unload_file"] = 9 /\ Id["shutdown"] = 10
    /\ \A s \in Asking : MethodOf[s] = IF s = "reload" THEN "load_file"
                                       ELSE IF s = "reschema" THEN "schema"
                                       ELSE IF s \in {"probe", "unknown"} THEN "custom_query"
                                       ELSE s
    /\ After["initialize"] = "schema" /\ After["schema"] = "can_handle"
    /\ After["can_handle"] = "load_file" /\ After["load_file"] = "reload"
    /\ After["reload"] = "reschema" /\ After["reschema"] = "parse"
    /\ After["parse"] = "key_values" /\ After["key_values"] = "probe"
    /\ After["unload_file"] = "shutdown" /\ After["shutdown"] = "exit"
<1>1. Asking = Replay \cup {"unknown"}
  BY DEF Asking, Id, Replay, Unasked
<1>2. \A s \in Asking : MethodOf[s] = IF s = "reload" THEN "load_file"
                                       ELSE IF s = "reschema" THEN "schema"
                                       ELSE IF s \in {"probe", "unknown"} THEN "custom_query"
                                       ELSE s
  BY DEF MethodOf
<1> QED
  BY <1>1, <1>2 DEF Id, After

\* What one request in the pipe looks like to its reader.
LEMMA OneRequest ==
    ASSUME NEW q
    PROVE  Head(<<q>>) = q /\ Tail(<<q>>) = <<>> /\ <<q>> # <<>> /\ Len(<<q>>) = 1
  OBVIOUS

\* The first line written.
LEMMA OneLine ==
    ASSUME NEW l, stdout = <<>>, Write(l)
    PROVE  stdout' = <<l>>
  BY DEF Write

\* A library with nothing in the pipe and nothing in its hands does not move,
\* and neither does one that has exited.
LEMMA NothingToDo ==
    ASSUME \/ child # "running"
           \/ stdin = <<>> /\ stdinOpen /\ inHand = NoRequest /\ workers = {}
    PROVE  ~RuntimeNext
<1>1. CASE child # "running"
  BY <1>1 DEF RuntimeNext, Worker, Dispatcher, At, TakeFile, ProduceBatch, StopEarly, PutBack,
     GiveSlotBack, AnswerParse, ClaimSlot, EndOfInput, Greet, CanHandle, LoadFile, LookForFile,
     Schema, KeyValues, UnloadFile, CancelParse, Decline, Shutdown, Take, Arrives
<1>2. CASE stdin = <<>> /\ stdinOpen /\ inHand = NoRequest /\ workers = {}
  BY <1>2, Zenon DEF RuntimeNext, Worker, Dispatcher, ClaimSlot, EndOfInput
<1> QED
  BY <1>1, <1>2

\* One request in the pipe and nothing in hand: the dispatcher takes it.
LEMMA TakesIt ==
    ASSUME NEW q, stdin = <<q>>, inHand = NoRequest, workers = {}, RuntimeNext
    PROVE  \/ Greet(q) \/ CanHandle(q) \/ LoadFile(q) \/ LookForFile(q)
           \/ Schema(q) \/ KeyValues(q) \/ UnloadFile(q) \/ CancelParse(q)
           \/ Decline(q) \/ Shutdown(q)
<1>1. Dispatcher
  BY Zenon DEF RuntimeNext, Worker
<1>2. ~ClaimSlot /\ ~EndOfInput
  BY OneRequest DEF ClaimSlot, EndOfInput
<1>3. Head(stdin) = q
  BY OneRequest
<1> QED
  BY <1>1, <1>2, <1>3, Zenon DEF Dispatcher

\* The library answers each question but the parse as the check wants it.
LEMMA AnswersIt ==
    ASSUME NEW file \in Files \ Unreadable, at \in Replay \ {"parse"}, child = "running",
           stdinOpen, Sent(file), TableInv(file), RuntimeNext, UNCHANGED <<at, pending>>
    PROVE  /\ Replied(file)' /\ TableInv(file)' /\ stdinOpen'
           /\ child' = IF at = "shutdown" THEN "code0" ELSE "running"
<1> DEFINE q == Question(file)
<1>q. stdin = <<q>> /\ stdout = <<>> /\ inHand = NoRequest /\ workers = {} /\ slot = FreeSlot
  BY DEF Sent, AtRest
<1>i. /\ q.id = Id[at] /\ q.method = MethodOf[at] /\ (at # "probe" => q.arg = file)
      /\ at \in Asking
  BY QuestionsAre DEF Question, Request
<1>f. ~IsParsing(q.arg)
  BY <1>q DEF IsParsing, FreeSlot
<1>t. ASSUME NEW m, Take(q, m) PROVE q.method \in m /\ stdin' = <<>> /\ UNCHANGED stdinOpen
  BY <1>t, <1>q, OneRequest DEF Take
<1>a. /\ at = "initialize" => Answer(file) = Result(1, [defect |-> "none", query |-> "absent"])
      /\ at = "schema" =>
           Answer(file) = Result(2, [metrics |-> {}, valid |-> TRUE, listed |-> TRUE])
      /\ at = "can_handle" => Answer(file) = Result(3, [claimed |-> TRUE, inRange |-> TRUE])
      /\ at = "load_file" => Answer(file) = Result(4, "summary")
      /\ at = "reload" => Answer(file) = Result(5, "summary")
      /\ at = "reschema" =>
           Answer(file) = Result(6, [metrics |-> {file}, valid |-> TRUE, listed |-> TRUE])
      /\ at = "key_values" => Answer(file) = Result(8, [entries |-> "good"])
      /\ at = "probe" => Answer(file) = Refusal(11, "method_not_found")
      /\ at = "unload_file" => Answer(file) = Result(9, "empty")
      /\ at = "shutdown" => Answer(file) = Result(10, "empty")
  BY DEF Answer
<1>u. Answer(file)' = Answer(file)
  BY DEF Answer
<1>d. \/ Greet(q) \/ CanHandle(q) \/ LoadFile(q) \/ LookForFile(q)
      \/ Schema(q) \/ KeyValues(q) \/ UnloadFile(q) \/ CancelParse(q)
      \/ Decline(q) \/ Shutdown(q)
  BY <1>q, TakesIt
<1> DEFINE Done(c) == /\ stdin' = <<>> /\ stdout' = <<Answer(file)>> /\ AtRest' /\ stdinOpen'
                      /\ child' = c
<1>s. ASSUME NEW c, Done(c) PROVE Replied(file)' /\ stdinOpen' /\ child' = c
  <2>1. pending
    BY DEF Sent
  <2> QED
    BY <1>s, <1>u, <2>1 DEF Replied
<1> HIDE DEF q
<1>m. MethodOf[at] = IF at = "reload" THEN "load_file"
                     ELSE IF at = "reschema" THEN "schema"
                     ELSE IF at = "probe" THEN "custom_query" ELSE at
  BY <1>i, QuestionsAre DEF Replay, Unasked
<1>1. CASE Greet(q)
  <2>1. at = "initialize" /\ stdin' = <<>> /\ UNCHANGED stdinOpen
    BY <1>1, <1>t, <1>i, <1>m DEF Greet, Replay, Unasked
  <2>2. stdout' = <<Answer(file)>>
    BY <1>1, <2>1, <1>q, <1>i, <1>a, OneLine, QuestionsAre DEF Greet
  <2>3. UNCHANGED <<child, library>>
    BY <1>1 DEF Greet
  <2>4. Done("running")
    BY <2>1, <2>2, <2>3, <1>q DEF library, AtRest
  <2>5. TableInv(file)'
    BY <2>1, <2>3 DEF TableInv, library
  <2> QED
    BY <2>1, <2>4, <2>5, <1>s
<1>2. CASE CanHandle(q)
  <2>1. at = "can_handle" /\ stdin' = <<>> /\ UNCHANGED stdinOpen
    BY <1>2, <1>t, <1>i, <1>m DEF CanHandle, Replay, Unasked
  <2>2. stdout' = <<Answer(file)>>
    BY <1>2, <2>1, <1>q, <1>i, <1>a, OneLine, QuestionsAre DEF CanHandle
  <2>3. UNCHANGED <<child, library>>
    BY <1>2 DEF CanHandle
  <2>4. Done("running")
    BY <2>1, <2>2, <2>3, <1>q DEF library, AtRest
  <2>5. TableInv(file)'
    BY <2>1, <2>3 DEF TableInv, library
  <2> QED
    BY <2>1, <2>4, <2>5, <1>s
<1>3. CASE LoadFile(q)
  <2>1. at \in {"load_file", "reload"} /\ stdin' = <<>> /\ UNCHANGED stdinOpen
    <3>1. Take(q, {"load_file"})
      BY <1>3, Zenon DEF LoadFile
    <3>2. q.method \in {"load_file"} /\ stdin' = <<>> /\ UNCHANGED stdinOpen
      BY <3>1, <1>t, Zenon
    <3> QED
      BY <3>2, <1>i, <1>m DEF Replay, Unasked
  <2>2. /\ files' = files \cup {file} /\ metricsOf' = file /\ Write(Result(q.id, "summary"))
        /\ UNCHANGED <<slot, workers, inHand, child>>
    BY <1>3, <1>f, <1>i, <2>1 DEF LoadFile
  <2>3. stdout' = <<Answer(file)>>
    BY <2>1, <2>2, <1>q, <1>i, <1>a, OneLine, QuestionsAre
  <2>4. Done("running")
    BY <2>1, <2>2, <2>3, <1>q DEF AtRest
  <2>5. TableInv(file)'
    BY <2>1, <2>2 DEF TableInv
  <2> QED
    BY <2>1, <2>4, <2>5, <1>s
<1>4. CASE LookForFile(q)
  BY <1>4, <1>t, <1>i, <1>m DEF LookForFile, Replay, Unasked
<1>5. CASE Schema(q)
  <2>1. at \in {"schema", "reschema"} /\ stdin' = <<>> /\ UNCHANGED stdinOpen
    BY <1>5, <1>t, <1>i, <1>m DEF Schema, Replay, Unasked
  <2>2. {metricsOf} \ {NoFile} = IF at = "schema" THEN {} ELSE {file}
    <3>1. file # NoFile
      BY RuntimeAssumption
    <3>2. CASE at = "schema"
      BY <3>2 DEF TableInv
    <3>3. CASE at = "reschema"
      <4>1. metricsOf = file
        BY <3>3 DEF TableInv
      <4> QED
        BY <3>1, <3>3, <4>1
    <3> QED
      BY <2>1, <3>2, <3>3
  <2>3. stdout' = <<Answer(file)>>
    <3>1. Write(Result(q.id, [metrics |-> {metricsOf} \ {NoFile}, valid |-> TRUE,
                              listed |-> TRUE]))
      BY <1>5, Zenon DEF Schema
    <3>2. Answer(file) = Result(q.id, [metrics |-> {metricsOf} \ {NoFile}, valid |-> TRUE,
                                       listed |-> TRUE])
      <4>1. CASE at = "schema"
        BY <4>1, <2>2, <1>i, <1>a, QuestionsAre
      <4>2. CASE at = "reschema"
        BY <4>2, <2>2, <1>i, <1>a, QuestionsAre
      <4> QED
        BY <2>1, <4>1, <4>2
    <3> QED
      BY <3>1, <3>2, <1>q, OneLine, Zenon
  <2>4. UNCHANGED <<child, library>>
    BY <1>5 DEF Schema
  <2>5. Done("running")
    BY <2>1, <2>3, <2>4, <1>q DEF library, AtRest
  <2>6. TableInv(file)'
    BY <2>1, <2>4 DEF TableInv, library
  <2> QED
    BY <2>1, <2>5, <2>6, <1>s
<1>6. CASE KeyValues(q)
  <2>1. at = "key_values" /\ stdin' = <<>> /\ UNCHANGED stdinOpen
    BY <1>6, <1>t, <1>i, <1>m DEF KeyValues, Replay, Unasked
  <2>2. q.arg \in files
    BY <2>1, <1>i DEF TableInv
  <2>3. stdout' = <<Answer(file)>>
    BY <1>6, <1>f, <2>1, <2>2, <1>q, <1>i, <1>a, OneLine, QuestionsAre DEF KeyValues
  <2>4. UNCHANGED <<child, library>>
    BY <1>6 DEF KeyValues
  <2>5. Done("running")
    BY <2>1, <2>3, <2>4, <1>q DEF library, AtRest
  <2>6. TableInv(file)'
    BY <2>1, <2>4 DEF TableInv, library
  <2> QED
    BY <2>1, <2>5, <2>6, <1>s
<1>7. CASE UnloadFile(q)
  <2>1. at = "unload_file" /\ stdin' = <<>> /\ UNCHANGED stdinOpen
    <3>1. Take(q, {"unload_file"})
      BY <1>7, Zenon DEF UnloadFile
    <3>2. q.method \in {"unload_file"} /\ stdin' = <<>> /\ UNCHANGED stdinOpen
      BY <3>1, <1>t, Zenon
    <3> QED
      BY <3>2, <1>i, <1>m DEF Replay, Unasked
  <2>2. Write(Result(q.id, "empty")) /\ UNCHANGED <<child, slot, workers, metricsOf, inHand>>
    BY <1>7, <1>f DEF UnloadFile
  <2>3. stdout' = <<Answer(file)>>
    BY <2>1, <2>2, <1>q, <1>i, <1>a, OneLine, QuestionsAre
  <2>4. Done("running")
    BY <2>1, <2>2, <2>3, <1>q DEF AtRest
  <2>5. TableInv(file)'
    BY <2>1 DEF TableInv
  <2> QED
    BY <2>1, <2>4, <2>5, <1>s
<1>8. CASE CancelParse(q)
  BY <1>8, <1>t, <1>i, <1>m DEF CancelParse, Replay, Unasked
<1>9. CASE Decline(q)
  <2>1. at = "probe" /\ stdin' = <<>> /\ UNCHANGED stdinOpen
    BY <1>9, <1>t, <1>i, <1>m DEF Decline, Replay, Unasked
  <2>2. stdout' = <<Answer(file)>>
    BY <1>9, <2>1, <1>q, <1>i, <1>m, <1>a, OneLine, QuestionsAre DEF Decline
  <2>3. UNCHANGED <<child, library>>
    BY <1>9 DEF Decline
  <2>4. Done("running")
    BY <2>1, <2>2, <2>3, <1>q DEF library, AtRest
  <2>5. TableInv(file)'
    BY <2>1, <2>3 DEF TableInv, library
  <2> QED
    BY <2>1, <2>4, <2>5, <1>s
<1>10. CASE Shutdown(q)
  <2>1. at = "shutdown" /\ stdin' = <<>> /\ UNCHANGED stdinOpen
    <3>1. Take(q, {"shutdown"})
      BY <1>10, Zenon DEF Shutdown
    <3>2. q.method \in {"shutdown"} /\ stdin' = <<>> /\ UNCHANGED stdinOpen
      BY <3>1, <1>t, Zenon
    <3> QED
      BY <3>2, <1>i, <1>m DEF Replay, Unasked
  <2>2. stdout' = <<Answer(file)>>
    BY <1>10, <2>1, <1>q, <1>i, <1>a, OneLine, QuestionsAre DEF Shutdown
  <2>3. child' = "code0" /\ workers' = {} /\ UNCHANGED <<files, slot, metricsOf, inHand>>
    BY <1>10 DEF Shutdown, Exit
  <2>4. Done("code0")
    BY <2>1, <2>2, <2>3, <1>q DEF AtRest
  <2>5. TableInv(file)'
    BY <2>1 DEF TableInv
  <2> QED
    BY <2>1, <2>4, <2>5, <1>s
<1> QED
  BY <1>1, <1>2, <1>3, <1>4, <1>5, <1>6, <1>7, <1>8, <1>9, <1>10, <1>d

\* The check finds no fault in such an answer, and goes on to its next question.
LEMMA AnswerPasses ==
    ASSUME NEW file, at \in Replay \ {"parse"}, FactsInv(file), NEW f, f = Answer(file)
    PROVE  /\ f.line = "json" /\ f.kind = "answer" /\ f.id = Id[at]
           /\ SchemaFindings(f) = {} /\ AnswerFindings(f) = {} /\ EndsCheck(f) = FALSE
           /\ at = "can_handle" => Claimed(f)
           /\ Learned(f) = CASE at = "schema" -> [facts EXCEPT !.metrics = {}, !.valid = TRUE]
                             [] at = "reschema" ->
                                  [facts EXCEPT !.metrics = {file}, !.valid = TRUE]
                             [] OTHER -> facts
<1>f. facts.query = FALSE /\ facts.loadFailed = FALSE
  BY DEF FactsInv
<1>q. [facts EXCEPT !.query = FALSE] = facts /\ [facts EXCEPT !.loadFailed = FALSE] = facts
  BY DEF FactsInv
<1>1. CASE at = "initialize"
  <2>1. f = Result(1, [defect |-> "none", query |-> "absent"])
    BY <1>1 DEF Answer
  <2>2. /\ f.line = "json" /\ f.kind = "answer" /\ f.id = 1 /\ f.code = "none"
        /\ f.body.defect = "none" /\ f.body.query = "absent"
    BY <2>1 DEF Result
  <2>3. SchemaFindings(f) = {} /\ AnswerFindings(f) = {} /\ EndsCheck(f) = FALSE
    BY <1>1, <2>2 DEF SchemaFindings, AnswerFindings, InitializeFindings, EndsCheck, Failed, When
  <2>4. Learned(f) = facts
    BY <1>1, <2>2, <1>q DEF Learned, Failed
  <2> QED
    BY <1>1, <2>2, <2>3, <2>4, QuestionsAre
<1>2. CASE at \in {"schema", "reschema"}
  <2>1. f = Result(Id[at], [metrics |-> IF at = "schema" THEN {} ELSE {file}, valid |-> TRUE,
                            listed |-> TRUE])
    <3>1. CASE at = "schema"
      BY <3>1, QuestionsAre DEF Answer
    <3>2. CASE at = "reschema"
      BY <3>2, QuestionsAre DEF Answer
    <3> QED
      BY <3>1, <3>2, <1>2
  <2>2. /\ f.line = "json" /\ f.kind = "answer" /\ f.id = Id[at] /\ f.code = "none"
        /\ f.body.metrics = IF at = "schema" THEN {} ELSE {file}
        /\ f.body.valid = TRUE /\ f.body.listed = TRUE
    BY <2>1 DEF Result
  <2>3. SchemaFindings(f) = {} /\ AnswerFindings(f) = {} /\ EndsCheck(f) = FALSE
    BY <1>2, <2>2
       DEF SchemaFindings, AnswerFindings, SchemaAnswerFindings, EndsCheck, Failed, When
  <2>4. Learned(f) = [facts EXCEPT !.metrics = f.body.metrics, !.valid = TRUE]
    BY <1>2, <2>2 DEF Learned, Failed
  <2> QED
    BY <1>2, <2>2, <2>3, <2>4
<1>3. CASE at = "can_handle"
  <2>1. f = Result(3, [claimed |-> TRUE, inRange |-> TRUE])
    BY <1>3 DEF Answer
  <2>2. /\ f.line = "json" /\ f.kind = "answer" /\ f.id = 3 /\ f.code = "none"
        /\ f.body.claimed = TRUE /\ f.body.inRange = TRUE
    BY <2>1 DEF Result
  <2>3. SchemaFindings(f) = {} /\ AnswerFindings(f) = {} /\ EndsCheck(f) = FALSE /\ Claimed(f)
    BY <1>3, <2>2
       DEF SchemaFindings, AnswerFindings, CanHandleFindings, EndsCheck, Claimed, Failed, When
  <2>4. Learned(f) = facts
    BY <1>3 DEF Learned
  <2> QED
    BY <1>3, <2>2, <2>3, <2>4, QuestionsAre
<1>4. CASE at \in {"load_file", "reload", "unload_file", "shutdown"}
  <2>1. f = Result(Id[at], IF at \in {"load_file", "reload"} THEN "summary" ELSE "empty")
    BY <1>4, QuestionsAre DEF Answer
  <2>2. f.line = "json" /\ f.kind = "answer" /\ f.id = Id[at] /\ f.code = "none"
    BY <2>1 DEF Result
  <2>3. SchemaFindings(f) = {} /\ AnswerFindings(f) = {} /\ EndsCheck(f) = FALSE
    BY <1>4, <2>2 DEF SchemaFindings, AnswerFindings, MissingMethod, EndsCheck, Failed, When
  <2>4. Learned(f) = facts
    BY <1>4, <2>2, <1>q DEF Learned, Failed
  <2> QED
    BY <1>4, <2>2, <2>3, <2>4
<1>5. CASE at = "key_values"
  <2>1. f = Result(8, [entries |-> "good"])
    BY <1>5 DEF Answer
  <2>2. /\ f.line = "json" /\ f.kind = "answer" /\ f.id = 8 /\ f.code = "none"
        /\ f.body.entries = "good"
    BY <2>1 DEF Result
  <2>3. SchemaFindings(f) = {} /\ AnswerFindings(f) = {} /\ EndsCheck(f) = FALSE
    BY <1>5, <2>2
       DEF SchemaFindings, AnswerFindings, KeyValuesFindings, EndsCheck, Failed, When
  <2>4. Learned(f) = facts
    BY <1>5 DEF Learned
  <2> QED
    BY <1>5, <2>2, <2>3, <2>4, QuestionsAre
<1>6. CASE at = "probe"
  <2>1. f = Refusal(11, "method_not_found")
    BY <1>6 DEF Answer
  <2>2. f.line = "json" /\ f.kind = "answer" /\ f.id = 11 /\ f.code = "method_not_found"
    BY <2>1 DEF Refusal
  <2>3. SchemaFindings(f) = {} /\ AnswerFindings(f) = {} /\ EndsCheck(f) = FALSE
    BY <1>6, <1>f, <2>2 DEF SchemaFindings, AnswerFindings, ProbeFindings, EndsCheck, When
  <2>4. Learned(f) = facts
    BY <1>6 DEF Learned
  <2> QED
    BY <1>6, <2>2, <2>3, <2>4, QuestionsAre
<1> QED
  BY <1>1, <1>2, <1>3, <1>4, <1>5, <1>6 DEF Replay, Unasked

\* The check reads it, and asks on.
LEMMA GoesOn ==
    ASSUME NEW file \in Files, at \in Replay \ {"parse"}, FactsInv(file), TableInv(file),
           Replied(file), Judge, UNCHANGED library
    PROVE  /\ UNCHANGED <<findings, child, stdinOpen, slow>> /\ ~fatal' /\ ~facts'.aborted
           /\ at' = IF at = "probe" THEN "unload_file" ELSE After[at]
           /\ FactsInv(file)' /\ TableInv(file)' /\ Unsent(file)'
           /\ at' = "parse" => Untold' /\ file \in files'
<1> DEFINE f == Answer(file)
           L == Learned(f)
<1>1. stdout = <<f>> /\ Head(stdout) = f /\ Tail(stdout) = <<>>
  BY OneRequest DEF Replied
<1>2. /\ f.line = "json" /\ f.kind = "answer" /\ f.id = Id[at]
      /\ SchemaFindings(f) = {} /\ AnswerFindings(f) = {} /\ EndsCheck(f) = FALSE
      /\ at = "can_handle" => Claimed(f)
      /\ L = CASE at = "schema" -> [facts EXCEPT !.metrics = {}, !.valid = TRUE]
               [] at = "reschema" -> [facts EXCEPT !.metrics = {file}, !.valid = TRUE]
               [] OTHER -> facts
  BY AnswerPasses
<1> HIDE DEF f, L
<1>3. JudgeAnswer(f)
  <2>1. JudgeLine(f) \/ JudgeNotification(f) \/ JudgeStrayAnswer(f) \/ JudgeAnswer(f)
    BY <1>1, Zenon DEF Judge
  <2> QED
    BY <2>1, <1>2 DEF JudgeLine, JudgeNotification, JudgeStrayAnswer
<1>4. /\ pending' = FALSE /\ findings' = findings /\ fatal' = FALSE
      /\ facts' = [L EXCEPT !.aborted = FALSE]
      /\ at' = NextStep(at # "can_handle" \/ Claimed(f), L)
      /\ stdout' = <<>> /\ UNCHANGED <<stdin, stdinOpen, child, slow>>
  BY <1>1, <1>2, <1>3 DEF JudgeAnswer, Frame, L
<1> DEFINE Facts == [metrics : SUBSET Files, valid : BOOLEAN, progress : BOOLEAN,
                     expected : SUBSET Nat, closed : BOOLEAN, sum : Nat, query : {FALSE},
                     loadFailed : {FALSE}, aborted : {FALSE}]
<1>5. facts \in Facts
  BY DEF FactsInv
<1>6. /\ L \in Facts
      /\ L.progress = facts.progress /\ L.expected = facts.expected
      /\ L.closed = facts.closed /\ L.sum = facts.sum
      /\ at = "reschema" => L.metrics = {file}
  <2>1. CASE at = "schema"
    BY <2>1, <1>2, <1>5
  <2>2. CASE at = "reschema"
    BY <2>2, <1>2, <1>5
  <2>3. CASE at \notin {"schema", "reschema"}
    BY <2>3, <1>2, <1>5
  <2> QED
    BY <2>1, <2>2, <2>3
<1>7. at' = IF at = "probe" THEN "unload_file" ELSE After[at]
  <2>1. L.query = FALSE /\ L.loadFailed = FALSE
    BY <1>6
  <2> QED
    BY <2>1, <1>2, <1>4 DEF NextStep
<1>8. facts' = L
  BY <1>4, <1>6
<1>9. /\ at' \in Unasked \cup {"parse"} => at \in Unasked
      /\ at' = "parse" => at = "reschema"
      /\ at' \notin {"initialize", "schema"} \/ at = "initialize"
      /\ at' \in {"reload", "reschema"} => at \in {"load_file", "reload"}
      /\ at' \in {"key_values", "probe"} => at = "key_values"
      /\ at' # "load_file" \/ stdout' = <<>>
  BY <1>4, <1>7, QuestionsAre DEF Replay, Unasked
<1>10. FactsInv(file)' /\ ~facts'.aborted
  <2>1. at' \in Unasked \cup {"parse"} => Untold'
    BY <1>6, <1>8, <1>9 DEF FactsInv, Untold
  <2> QED
    BY <2>1, <1>6, <1>8, <1>9 DEF FactsInv
<1>11. TableInv(file)' /\ (at' = "parse" => file \in files')
  <2>1. stdout # <<>>
    BY <1>1, OneRequest
  <2> QED
    BY <2>1, <1>4, <1>9 DEF TableInv, library
<1>12. Unsent(file)'
  BY <1>4 DEF Unsent, Replied, AtRest, library
<1>13. at' = "parse" => Untold'
  BY <1>6, <1>8, <1>9 DEF FactsInv, Untold
<1> QED
  BY <1>4, <1>7, <1>10, <1>11, <1>12, <1>13

\* A sequence is one over what occurs in it, and so is its tail.
LEMMA SeqOfItself ==
    ASSUME NEW S, NEW s \in Seq(S)
    PROVE  s \in Seq(Range(s))
  BY DEF Range

LEMMA TailLines ==
    ASSUME NEW S, NEW s \in Seq(S), s # <<>>
    PROVE  /\ Head(s) = s[1] /\ Len(s) \in Nat \ {0}
           /\ Tail(s) \in Seq(S) /\ Len(Tail(s)) = Len(s) - 1
           /\ \A i \in 1 .. Len(s) - 1 : Tail(s)[i] = s[i + 1]
  OBVIOUS

\* A heartbeat or a batch of the parse is judged, found good and counted.
LEMMA ReadsLine ==
    ASSUME NEW file \in Files, at = "parse", FactsInv(file), NEW n, NEW k, NEW over \in BOOLEAN,
           Streamed(file, n, k, over), k >= 1, k <= Len(stdout), Judge
    PROVE  /\ Streamed(file, n, k - 1, over)' /\ Len(stdout') = Len(stdout) - 1
           /\ \A i \in 1 .. Len(stdout) - 1 : stdout'[i] = stdout[i + 1]
           /\ FactsInv(file)' /\ UNCHANGED <<at, pending, findings, fatal>>
           /\ UNCHANGED <<stdin, stdinOpen, child, slow>>
<1> DEFINE f == stdout[1]
           r == 2 * n - k
<1>1. /\ stdout \in Seq(Range(stdout)) /\ n \in Nat /\ k \in 1 .. 2 * n /\ stdout # <<>>
      /\ Head(stdout) = f /\ Len(stdout) \in Nat \ {0}
  <2>1. stdout \in Seq(Range(stdout)) /\ n \in Nat /\ k \in 0 .. 2 * n
    BY DEF Streamed
  <2>2. stdout # <<>>
    BY DEF Judge
  <2> QED
    BY <2>1, <2>2, TailLines
<1>2. /\ LineOf(r + 1, n, f)
      /\ f.kind = "batch" => /\ f.body.metric = file /\ f.body.done \in BOOLEAN
                             /\ f.body.done => 1 = k /\ over
  <2>1. 1 \in 1 .. k
    BY <1>1
  <2>2. \A i \in 1 .. k :
          /\ LineOf(2 * n - k + i, n, stdout[i])
          /\ stdout[i].kind = "batch" =>
             /\ stdout[i].body.metric = file
             /\ stdout[i].body.done \in BOOLEAN
             /\ stdout[i].body.done => i = k /\ over
    BY Zenon DEF Streamed
  <2> QED
    BY <2>1, <2>2, Zenon
<1>3. PICK b \in 0 .. n :
        \/ r + 1 = 2 * b + 1 /\ f = Notify("progress", [shape |-> "good"])
        \/ /\ r + 1 = 2 * b + 2
           /\ f.line = "json" /\ f.kind = "batch" /\ f.body.seq = b /\ f.body.n = 1
           /\ f.body.shape = "good"
  BY <1>2, Zenon DEF LineOf
<1>4. /\ r \in {2 * facts.sum, 2 * facts.sum + 1} /\ (r > 0 => facts.progress)
      /\ facts.expected = IF facts.sum = 0 THEN {} ELSE {facts.sum}
      /\ ~facts.closed
  BY <1>1 DEF Streamed, Counted
<1>5. /\ facts \in [metrics : SUBSET Files, valid : BOOLEAN, progress : BOOLEAN,
                    expected : SUBSET Nat, closed : BOOLEAN, sum : Nat, query : {FALSE},
                    loadFailed : {FALSE}, aborted : {FALSE}]
      /\ facts.metrics = {file}
  BY DEF FactsInv
<1> HIDE DEF f
<1>6. /\ f.line = "json" /\ f.kind \in {"progress", "batch"} /\ SchemaFindings(f) = {}
  <2>1. CASE f = Notify("progress", [shape |-> "good"])
    BY <2>1 DEF Notify, SchemaFindings
  <2>2. CASE f.line = "json" /\ f.kind = "batch" /\ f.body.shape = "good"
    BY <2>2 DEF SchemaFindings
  <2> QED
    BY <1>3, <2>1, <2>2
<1>7. JudgeNotification(f)
  <2>1. JudgeLine(f) \/ JudgeNotification(f) \/ JudgeStrayAnswer(f) \/ JudgeAnswer(f)
    BY <1>1, Zenon DEF Judge
  <2> QED
    BY <2>1, <1>6 DEF JudgeLine, JudgeStrayAnswer, JudgeAnswer
<1>8. /\ findings' = findings \cup SchemaFindings(f)
           \cup When(f.kind = "batch", BatchFindings(f))
      /\ facts' = NotificationFacts(f)
      /\ stdout' = Tail(stdout) /\ UNCHANGED <<stdin, stdinOpen, child, slow, at, pending, fatal>>
  BY <1>7 DEF JudgeNotification, Frame
<1>9. /\ stdout' \in Seq(Range(stdout)) /\ Len(stdout') = Len(stdout) - 1
      /\ \A i \in 1 .. Len(stdout) - 1 : stdout'[i] = stdout[i + 1]
  BY <1>1, <1>8, TailLines
<1>10. stdout' \in Seq(Range(stdout)')
  <2>1. stdout' \in Seq(Range(stdout'))
    BY <1>9, SeqOfItself
  <2> QED
    BY <2>1 DEF Range
<1>11. \A i \in 1 .. k - 1 :
          /\ LineOf(2 * n - (k - 1) + i, n, stdout'[i])
          /\ stdout'[i].kind = "batch" =>
               /\ stdout'[i].body.metric = file
               /\ stdout'[i].body.done \in BOOLEAN
               /\ stdout'[i].body.done => i = k - 1 /\ over
  <2> TAKE i \in 1 .. k - 1
  <2>1. /\ i + 1 \in 1 .. k /\ stdout'[i] = stdout[i + 1] /\ (i + 1 = k <=> i = k - 1)
        /\ 2 * n - (k - 1) + i = 2 * n - k + (i + 1)
    BY <1>1, <1>9
  <2>2. /\ LineOf(2 * n - k + (i + 1), n, stdout[i + 1])
        /\ stdout[i + 1].kind = "batch" =>
           /\ stdout[i + 1].body.metric = file
           /\ stdout[i + 1].body.done \in BOOLEAN
           /\ stdout[i + 1].body.done => i + 1 = k /\ over
    BY <2>1, Zenon DEF Streamed
  <2> QED
    BY <2>1, <2>2
<1>12. CASE r + 1 = 2 * b + 1 /\ f = Notify("progress", [shape |-> "good"])
  <2>1. f.kind = "progress"
    BY <1>12 DEF Notify
  <2>2. findings' = findings /\ facts' = [facts EXCEPT !.progress = TRUE]
    BY <2>1, <1>6, <1>8 DEF When, NotificationFacts
  <2>3. r = 2 * facts.sum
    <3>1. facts.sum \in Int /\ r \in Int /\ b \in Int
      BY <1>1, <1>5
    <3> HIDE DEF r
    <3> QED
      BY <3>1, <1>4, <1>12
  <2>4. Counted(2 * n - (k - 1))'
    BY <2>2, <2>3, <1>1, <1>4, <1>5 DEF Counted
  <2>5. FactsInv(file)'
    BY <2>2, <1>5, <1>8 DEF FactsInv, Unasked
  <2>6. Streamed(file, n, k - 1, over)'
    BY <2>2, <2>4, <1>1, <1>4, <1>5, <1>10, <1>11 DEF Streamed
  <2> QED
    BY <2>2, <2>5, <2>6, <1>8, <1>9
<1>13. CASE /\ r + 1 = 2 * b + 2
            /\ f.line = "json" /\ f.kind = "batch" /\ f.body.seq = b /\ f.body.n = 1
            /\ f.body.shape = "good"
  <2>1. b = facts.sum /\ r = 2 * facts.sum + 1 /\ facts.progress
    BY <1>1, <1>4, <1>5, <1>13
  <2>2. BatchFindings(f) = {}
    <3>1. Declared(f)
      BY <1>2, <1>5, <1>13 DEF Declared
    <3>2. facts.expected \in {{}, {f.body.seq}}
      BY <2>1, <1>4, <1>13
    <3> QED
      BY <3>1, <3>2, <1>4, <1>13 DEF BatchFindings, When
  <2>3. /\ findings' = findings
        /\ facts' = [facts EXCEPT !.expected = {b + 1}, !.closed = f.body.done, !.sum = @ + 1]
    <3>1. Numbered(f)
      BY <1>13 DEF Numbered
    <3>2. (facts.closed \/ f.body.done) = f.body.done
      BY <1>2, <1>4, <1>5, <1>13
    <3>3. NotificationFacts(f) =
            [facts EXCEPT !.expected = {b + 1}, !.closed = f.body.done, !.sum = @ + 1]
      BY <3>1, <3>2, <1>13 DEF NotificationFacts
    <3> QED
      BY <3>3, <2>2, <1>6, <1>8 DEF When
  <2>4. f.body.done \in BOOLEAN /\ (f.body.done => 1 = k /\ over)
    BY <1>2, <1>13
  <2>5. Counted(2 * n - (k - 1))'
    BY <2>1, <2>3, <1>1, <1>5 DEF Counted
  <2>6. FactsInv(file)'
    <3>1. {b + 1} \in SUBSET Nat /\ facts.sum + 1 \in Nat
      BY <1>1, <1>3, <1>5
    <3>2. facts' \in [metrics : SUBSET Files, valid : BOOLEAN, progress : BOOLEAN,
                      expected : SUBSET Nat, closed : BOOLEAN, sum : Nat, query : {FALSE},
                      loadFailed : {FALSE}, aborted : {FALSE}]
      BY <2>3, <2>4, <3>1, <1>5
    <3>3. facts'.metrics = {file} /\ at' \notin Unasked
      BY <2>3, <1>5, <1>8 DEF Unasked
    <3> QED
      BY <3>2, <3>3, Zenon DEF FactsInv
  <2>7. facts'.closed => k - 1 = 0 /\ over
    BY <2>3, <2>4, <1>1, <1>5
  <2>8. Streamed(file, n, k - 1, over)'
    <3>1. n \in Nat /\ k - 1 \in 0 .. 2 * n
      BY <1>1
    <3> QED
      BY <3>1, <2>5, <2>7, <1>10, <1>11, Zenon DEF Streamed
  <2> QED
    BY <2>3, <2>6, <2>8, <1>8, <1>9
<1> QED
  BY <1>3, <1>12, <1>13

\* Streamed speaks of stdout and facts alone.
LEMMA StreamStays ==
    ASSUME NEW file, NEW n, NEW k, NEW over, Streamed(file, n, k, over),
           UNCHANGED <<stdout, facts>>
    PROVE  Streamed(file, n, k, over)'
<1>1. stdout' = stdout /\ facts' = facts
  OBVIOUS
<1>2. Range(stdout)' = Range(stdout)
  BY <1>1 DEF Range
<1>3. Counted(2 * n - k) => Counted(2 * n - k)'
  BY <1>1 DEF Counted
<1>4. /\ stdout \in Seq(Range(stdout)) /\ n \in Nat /\ k \in 0 .. 2 * n
      /\ Counted(2 * n - k) /\ (facts.closed => k = 0 /\ over)
  BY DEF Streamed
<1>5. /\ (stdout \in Seq(Range(stdout)))' /\ Counted(2 * n - k)'
      /\ (facts'.closed => k = 0 /\ over)
  BY <1>1, <1>2, <1>3, <1>4
<1>6. \A i \in 1 .. k :
        /\ LineOf(2 * n - k + i, n, stdout'[i])
        /\ stdout'[i].kind = "batch" =>
             /\ stdout'[i].body.metric = file
             /\ stdout'[i].body.done \in BOOLEAN
             /\ stdout'[i].body.done => i = k /\ over
  <2>1. \A i \in 1 .. k :
          /\ LineOf(2 * n - k + i, n, stdout[i])
          /\ stdout[i].kind = "batch" =>
               /\ stdout[i].body.metric = file
               /\ stdout[i].body.done \in BOOLEAN
               /\ stdout[i].body.done => i = k /\ over
    BY DEF Streamed
  <2> QED
    BY <1>1, <2>1
<1> QED
  BY <1>4, <1>5, <1>6 DEF Streamed

\* The dispatcher clears the parse for the slot, and claims it.
LEMMA StartsParse ==
    ASSUME NEW file \in Files, at = "parse", Sent(file), file \in files, RuntimeNext,
           UNCHANGED <<at, pending>>
    PROVE  Cleared(file)' /\ UNCHANGED <<child, stdinOpen>>
<1> DEFINE q == Request(7, "parse", file)
<1>1. /\ stdin = <<q>> /\ stdout = <<>> /\ inHand = NoRequest /\ workers = {} /\ slot = FreeSlot
      /\ pending
  <2>1. "parse" \in Asking
    BY QuestionsAre DEF Replay
  <2>2. MethodOf["parse"] = "parse" /\ Id["parse"] = 7
    BY <2>1, QuestionsAre
  <2> QED
    BY <2>2 DEF Sent, AtRest, Question
<1>2. q.method = "parse" /\ q.arg = file
  BY DEF Request
<1> HIDE DEF q
<1>3. LookForFile(q)
  <2>1. \/ Greet(q) \/ CanHandle(q) \/ LoadFile(q) \/ LookForFile(q)
        \/ Schema(q) \/ KeyValues(q) \/ UnloadFile(q) \/ CancelParse(q)
        \/ Decline(q) \/ Shutdown(q)
    BY <1>1, TakesIt
  <2> QED
    BY <2>1, <1>2 DEF Greet, CanHandle, LoadFile, Schema, KeyValues, UnloadFile, CancelParse,
       Decline, Shutdown, Take
<1>4. stdin' = <<>> /\ UNCHANGED stdinOpen
  <2>1. Take(q, {"parse"})
    BY <1>3, Zenon DEF LookForFile
  <2> QED
    BY <2>1, <1>1, OneRequest DEF Take
<1>5. inHand' = q /\ UNCHANGED <<stdout, child, files, slot, workers>>
  BY <1>2, <1>3 DEF LookForFile
<1> QED
  BY <1>1, <1>4, <1>5 DEF Cleared, q

\* The second lock finds the slot free, as nobody else parses.
LEMMA ClaimsIt ==
    ASSUME NEW file \in Files, stdinOpen, FactsInv(file), Cleared(file), Untold, RuntimeNext,
           UNCHANGED <<pending, facts>>
    PROVE  Parses(file)' /\ UNCHANGED <<child, stdinOpen>>
<1>1. /\ stdin = <<>> /\ stdout = <<>> /\ inHand = Request(7, "parse", file)
      /\ workers = {} /\ slot = FreeSlot /\ file \in files /\ pending
  BY DEF Cleared
<1>2. inHand # NoRequest /\ inHand.arg = file /\ inHand.id = 7
  BY <1>1 DEF NoRequest, Request
<1>3. ClaimSlot
  <2>1. Dispatcher
    BY <1>1, Zenon DEF RuntimeNext, Worker
  <2> QED
    BY <2>1, <1>1, <1>2 DEF Dispatcher, EndOfInput
<1> DEFINE v == [at |-> "take", file |-> file, id |-> 7, seq |-> 0]
<1>4. /\ inHand' = NoRequest /\ slot' = [file |-> file, cancel |-> FALSE]
      /\ workers' = {v} /\ UNCHANGED <<stdin, stdinOpen, stdout, child, files>>
  BY <1>1, <1>2, <1>3 DEF ClaimSlot
<1>5. Streamed(file, 0, 0, FALSE)'
  <2>1. facts'.sum = 0 /\ facts'.expected = {} /\ ~facts'.closed
    BY DEF Untold
  <2>2. stdout' = <<>>
    BY <1>1, <1>4
  <2>3. Counted(0)'
    BY <2>1 DEF Counted
  <2> QED
    BY <2>1, <2>2, <2>3 DEF Streamed
<1>6. /\ v \in workers' /\ v \in [at : Steps, file : {file}, id : {7}, seq : Nat]
      /\ v.at = "take" /\ v.seq = 0 /\ Len(stdout') = 0
      /\ (v.at \notin {"take", "parse"}) = FALSE
  BY <1>1, <1>4 DEF Steps
<1> HIDE DEF v
<1>7. Streamed(file, v.seq, Len(stdout), v.at \notin {"take", "parse"})'
  BY <1>5, <1>6
<1> QED
  BY <1>1, <1>4, <1>6, <1>7 DEF Parses

\* What Parses says of the one thread there is.
LEMMA TheThread ==
    ASSUME NEW file, Parses(file)
    PROVE  \E w \in workers :
              /\ pending /\ stdin = <<>> /\ inHand = NoRequest
              /\ workers = {w} /\ w.at \in Steps /\ w.file = file /\ w.id = 7 /\ w.seq \in Nat
              /\ slot = IF w.at = "answer" THEN FreeSlot ELSE [file |-> file, cancel |-> FALSE]
              /\ Streamed(file, w.seq, Len(stdout), w.at \notin {"take", "parse"})
              /\ w.at = "take" => w.seq = 0
              /\ w.at \notin {"take", "parse"} => w.seq > 0
              /\ w.at \in {"take", "free", "answer"} => file \in files
              /\ w \in [at : Steps, file : {file}, id : {7}, seq : Nat]
  BY DEF Parses

\* A step of the thread that writes nothing.
LEMMA ThreadMoves ==
    ASSUME NEW file, NEW w \in [at : Steps, file : {file}, id : {7}, seq : Nat],
           workers = {w}, NEW step \in Steps, Becomes(w, step),
           pending', stdin' = <<>>, inHand' = NoRequest,
           slot' = IF step = "answer" THEN FreeSlot ELSE [file |-> file, cancel |-> FALSE],
           Streamed(file, w.seq, Len(stdout), step \notin {"take", "parse"})',
           step # "take", step # "parse" => w.seq > 0,
           step \in {"free", "answer"} => file \in files'
    PROVE  Parses(file)'
<1> DEFINE v == [w EXCEPT !.at = step]
<1>1. workers' = {v}
  BY DEF Becomes
<1>2. v.at = step /\ v.seq = w.seq /\ v \in [at : Steps, file : {file}, id : {7}, seq : Nat]
  OBVIOUS
<1> HIDE DEF v
<1>3. Streamed(file, v.seq, Len(stdout), v.at \notin {"take", "parse"})'
  BY <1>2
<1> QED
  BY <1>1, <1>2, <1>3 DEF Parses

\* A heartbeat and a batch more.
LEMMA WritesBatch ==
    ASSUME NEW file \in Files, NEW n \in Nat, Streamed(file, n, Len(stdout), FALSE),
           NEW done \in BOOLEAN, UNCHANGED facts,
           stdout' = stdout \o
             <<Notify("progress", [shape |-> "good"]),
               Notify("batch", [seq |-> n, n |-> 1, metric |-> file,
                                done |-> done, shape |-> "good"])>>
    PROVE  Streamed(file, n + 1, Len(stdout), done)'
<1> DEFINE p == Notify("progress", [shape |-> "good"])
           m == Notify("batch", [seq |-> n, n |-> 1, metric |-> file,
                                 done |-> done, shape |-> "good"])
<1>k. PICK k \in Nat : k = Len(stdout)
  BY DEF Streamed
<1>1. /\ stdout \in Seq(Range(stdout)) /\ k \in 0 .. 2 * n /\ Counted(2 * n - k)
      /\ ~facts.closed
  BY <1>k DEF Streamed
<1>2. /\ p.kind = "progress" /\ m.line = "json" /\ m.kind = "batch" /\ m.body.seq = n
      /\ m.body.n = 1 /\ m.body.shape = "good" /\ m.body.metric = file /\ m.body.done = done
  BY DEF Notify
<1>p. p = Notify("progress", [shape |-> "good"])
  OBVIOUS
<1> HIDE DEF p, m
<1>3. /\ stdout' \in Seq(Range(stdout) \cup {p, m}) /\ Len(stdout') = k + 2
      /\ stdout'[k + 1] = p /\ stdout'[k + 2] = m
      /\ \A i \in 1 .. k : stdout'[i] = stdout[i]
  <2> DEFINE S == Range(stdout) \cup {p, m}
  <2>1. stdout \in Seq(S) /\ <<p, m>> \in Seq(S)
    BY <1>1
  <2> HIDE DEF S
  <2>2. stdout' = stdout \o <<p, m>>
    BY DEF p, m
  <2> QED
    BY <2>1, <2>2, <1>k DEF S
<1>4. stdout' \in Seq(Range(stdout)')
  <2>1. stdout' \in Seq(Range(stdout'))
    BY <1>3, SeqOfItself
  <2> QED
    BY <2>1 DEF Range
<1>5. k \in Nat /\ k + 2 \in 0 .. 2 * (n + 1) /\ 2 * (n + 1) - (k + 2) = 2 * n - k
  BY <1>1
<1>6. Counted(2 * (n + 1) - (k + 2))'
  <2>1. Counted(2 * n - k)'
    BY <1>1 DEF Counted
  <2> QED
    BY <1>5, <2>1
<1>7. ASSUME NEW i \in 1 .. k + 2
      PROVE  /\ LineOf(2 * (n + 1) - (k + 2) + i, n + 1, stdout'[i])
             /\ stdout'[i].kind = "batch" =>
                  /\ stdout'[i].body.metric = file /\ stdout'[i].body.done \in BOOLEAN
                  /\ stdout'[i].body.done => i = k + 2 /\ done
  <2>1. CASE i \in 1 .. k
    <3>1. /\ LineOf(2 * n - k + i, n, stdout[i])
          /\ stdout[i].kind = "batch" =>
               /\ stdout[i].body.metric = file /\ stdout[i].body.done \in BOOLEAN
               /\ stdout[i].body.done => i = k /\ FALSE
      BY <2>1, <1>k, Zenon DEF Streamed
    <3>2. PICK b \in 0 .. n :
            \/ /\ 2 * n - k + i = 2 * b + 1
               /\ stdout[i] = Notify("progress", [shape |-> "good"])
            \/ /\ 2 * n - k + i = 2 * b + 2
               /\ stdout[i].line = "json" /\ stdout[i].kind = "batch" /\ stdout[i].body.seq = b
               /\ stdout[i].body.n = 1 /\ stdout[i].body.shape = "good"
      BY <3>1, Zenon DEF LineOf
    <3>3. b \in 0 .. n + 1 /\ 2 * n - k + i <= 2 * (n + 1)
      BY <1>1, <2>1
    <3>4. LineOf(2 * n - k + i, n + 1, stdout[i])
      BY <3>2, <3>3, Zenon DEF LineOf
    <3> QED
      BY <3>1, <3>4, <1>3, <1>5, <2>1
  <2>2. CASE i = k + 1
    <3>1. 2 * (n + 1) - (k + 2) + i = 2 * n + 1 /\ n \in 0 .. n + 1 /\ 2 * n + 1 <= 2 * (n + 1)
      BY <2>2, <1>1
    <3>2. LineOf(2 * n + 1, n + 1, p)
      BY <3>1, <1>p DEF LineOf
    <3> QED
      BY <3>1, <3>2, <1>2, <1>3, <2>2
  <2>3. CASE i = k + 2
    <3>1. 2 * (n + 1) - (k + 2) + i = 2 * n + 2 /\ n \in 0 .. n + 1 /\ 2 * n + 2 <= 2 * (n + 1)
      BY <2>3, <1>1
    <3>2. LineOf(2 * n + 2, n + 1, m)
      BY <3>1, <1>2 DEF LineOf
    <3> QED
      BY <3>1, <3>2, <1>2, <1>3, <2>3
  <2>4. i \in 1 .. k \/ i = k + 1 \/ i = k + 2
    OBVIOUS
  <2> QED
    BY <2>1, <2>2, <2>3, <2>4, Zenon
<1>8. ~facts'.closed /\ n + 1 \in Nat
  BY <1>1
<1>9. Streamed(file, n + 1, k + 2, done)'
  <2>1. \A i \in 1 .. k + 2 :
          /\ LineOf(2 * (n + 1) - (k + 2) + i, n + 1, stdout'[i])
          /\ stdout'[i].kind = "batch" =>
               /\ stdout'[i].body.metric = file /\ stdout'[i].body.done \in BOOLEAN
               /\ stdout'[i].body.done => i = k + 2 /\ done
    BY <1>7, Zenon
  <2> QED
    BY <2>1, <1>4, <1>5, <1>6, <1>8 DEF Streamed
<1> QED
  <2>1. Len(stdout)' = k + 2
    BY <1>3
  <2> QED
    BY <2>1, <1>9

\* The answer after the last batch.
LEMMA WritesTotal ==
    ASSUME NEW file \in Files, NEW n \in Nat, n > 0, Streamed(file, n, Len(stdout), TRUE),
           UNCHANGED facts, Write(Result(7, [total |-> n])),
           pending', stdin' = <<>>, AtRest', file \in files'
    PROVE  HasParsed(file)'
<1> DEFINE a == Result(7, [total |-> n])
<1>k. PICK k \in Nat : k = Len(stdout)
  BY DEF Streamed
<1>1. /\ stdout \in Seq(Range(stdout)) /\ k \in 0 .. 2 * n /\ Counted(2 * n - k)
      /\ facts.closed => k = 0
  BY <1>k DEF Streamed
<1>2. a.body.total = n /\ a = Result(7, [total |-> n])
  BY DEF Result
<1> HIDE DEF a
<1>3. /\ stdout' \in Seq(Range(stdout) \cup {a}) /\ Len(stdout') = k + 1 /\ stdout' # <<>>
      /\ stdout'[k + 1] = a /\ \A i \in 1 .. k : stdout'[i] = stdout[i]
  <2>1. stdout' = Append(stdout, a)
    BY <1>2 DEF Write
  <2> DEFINE S == Range(stdout) \cup {a}
  <2>2. stdout \in Seq(S) /\ a \in S
    BY <1>1
  <2> HIDE DEF S
  <2> QED
    BY <2>1, <2>2, <1>k DEF S
<1>4. stdout' \in Seq(Range(stdout)')
  <2>1. stdout' \in Seq(Range(stdout'))
    BY <1>3, SeqOfItself
  <2> QED
    BY <2>1 DEF Range
<1>5. Counted(2 * n - k)'
  BY <1>1 DEF Counted
<1>6. \A i \in 1 .. k :
        /\ LineOf(2 * n - k + i, n, stdout'[i])
        /\ stdout'[i].kind = "batch" =>
             /\ stdout'[i].body.metric = file /\ stdout'[i].body.done \in BOOLEAN
             /\ stdout'[i].body.done => i = k /\ TRUE
  <2>1. \A i \in 1 .. k :
        /\ LineOf(2 * n - k + i, n, stdout[i])
        /\ stdout[i].kind = "batch" =>
             /\ stdout[i].body.metric = file /\ stdout[i].body.done \in BOOLEAN
             /\ stdout[i].body.done => i = k /\ TRUE
    BY <1>k, Zenon DEF Streamed
  <2> QED
    BY <2>1, <1>3
<1>7. Streamed(file, n, k, TRUE)'
  BY <1>1, <1>4, <1>5, <1>6 DEF Streamed
<1>8. /\ Len(stdout)' - 1 = k /\ stdout'[Len(stdout')] = a
      /\ stdout'[Len(stdout')].body.total = n
  BY <1>2, <1>3
<1>9. /\ stdout'[Len(stdout')].body.total \in Nat \ {0}
      /\ stdout'[Len(stdout')] = Result(7, [total |-> stdout'[Len(stdout')].body.total])
      /\ Len(stdout') - 1 = k
  BY <1>2, <1>3, <1>8
<1> HIDE DEF a
<1>10. Streamed(file, stdout[Len(stdout)].body.total, Len(stdout) - 1, TRUE)'
  BY <1>7, <1>8
<1>11. pending' /\ stdin' = <<>> /\ AtRest' /\ file \in files' /\ stdout' # <<>>
  BY <1>3
<1> QED
  BY <1>9, <1>10, <1>11 DEF HasParsed

\* What the parse thread does until it has answered.
LEMMA Works ==
    ASSUME NEW file \in Files, stdinOpen, FactsInv(file), Parses(file), RuntimeNext,
           UNCHANGED <<pending, facts>>
    PROVE  (Parses(file)' \/ HasParsed(file)') /\ UNCHANGED <<child, stdinOpen>>
<1>w. PICK w \in workers :
              /\ pending /\ stdin = <<>> /\ inHand = NoRequest
              /\ workers = {w} /\ w.at \in Steps /\ w.file = file /\ w.id = 7 /\ w.seq \in Nat
              /\ slot = IF w.at = "answer" THEN FreeSlot ELSE [file |-> file, cancel |-> FALSE]
              /\ Streamed(file, w.seq, Len(stdout), w.at \notin {"take", "parse"})
              /\ w.at = "take" => w.seq = 0
              /\ w.at \notin {"take", "parse"} => w.seq > 0
              /\ w.at \in {"take", "free", "answer"} => file \in files
              /\ w \in [at : Steps, file : {file}, id : {7}, seq : Nat]
  BY TheThread, Zenon
<1>d. TakeFile(w) \/ ProduceBatch(w) \/ StopEarly(w) \/ PutBack(w) \/ GiveSlotBack(w)
      \/ AnswerParse(w)
  <2>1. ~Dispatcher
    BY <1>w DEF Dispatcher, ClaimSlot, EndOfInput
  <2> QED
    BY <2>1, <1>w DEF RuntimeNext, Worker
<1>1. CASE TakeFile(w)
  <2>1. /\ w.at = "take" /\ Becomes(w, "parse")
        /\ UNCHANGED <<stdin, stdinOpen, stdout, child, slot, inHand>>
    BY <1>1 DEF TakeFile, At, pipes
  <2>2. Streamed(file, w.seq, Len(stdout), FALSE)
    BY <1>w, <2>1
  <2>3. PICK k : k = Len(stdout)
    OBVIOUS
  <2>4. Streamed(file, w.seq, k, FALSE)'
    BY <2>1, <2>2, <2>3, StreamStays
  <2>5. Streamed(file, w.seq, Len(stdout), "parse" \notin {"take", "parse"})'
    BY <2>1, <2>3, <2>4
  <2> QED
    BY <1>w, <2>1, <2>5, ThreadMoves DEF Steps
<1>2. CASE ProduceBatch(w)
  <2>1. /\ w.at = "parse" /\ UNCHANGED <<stdin, stdinOpen, child, slot, inHand>>
    BY <1>2 DEF ProduceBatch, At
  <2>2. PICK done \in BOOLEAN :
          /\ stdout' = stdout \o
               <<Notify("progress", [shape |-> "good"]),
                 Notify("batch", [seq |-> w.seq, n |-> 1, metric |-> w.file,
                                  done |-> done, shape |-> "good"])>>
          /\ workers' = (workers \ {w}) \cup
               {[w EXCEPT !.seq = @ + 1, !.at = IF done THEN "parsed" ELSE "parse"]}
    BY <1>2, Zenon DEF ProduceBatch
  <2>3. Streamed(file, w.seq + 1, Len(stdout), done)'
    BY <1>w, <2>1, <2>2, WritesBatch
  <2> DEFINE v == [w EXCEPT !.seq = @ + 1, !.at = IF done THEN "parsed" ELSE "parse"]
  <2>4. /\ workers' = {v} /\ v \in [at : Steps, file : {file}, id : {7}, seq : Nat]
        /\ v.seq = w.seq + 1 /\ v.at = IF done THEN "parsed" ELSE "parse"
    <3>1. workers' = {v}
      BY <1>w, <2>2, Zenon
    <3>2. v.seq = w.seq + 1 /\ v.at = (IF done THEN "parsed" ELSE "parse")
      BY <1>w
    <3>3. w.seq + 1 \in Nat /\ (IF done THEN "parsed" ELSE "parse") \in Steps
      BY <1>w DEF Steps
    <3>4. v \in [at : Steps, file : {file}, id : {7}, seq : Nat]
      BY <1>w, <3>3
    <3> QED
      BY <3>1, <3>2, <3>4
  <2> HIDE DEF v
  <2>5. (v.at \notin {"take", "parse"}) = done /\ v.seq > 0 /\ v.at \in {"parse", "parsed"}
    BY <2>4, <1>w
  <2>6. Streamed(file, v.seq, Len(stdout), v.at \notin {"take", "parse"})'
    BY <2>3, <2>4, <2>5
  <2> QED
    BY <1>w, <2>1, <2>4, <2>5, <2>6 DEF Parses
<1>3. CASE StopEarly(w)
  BY <1>w, <1>3 DEF StopEarly, At
<1>4. CASE PutBack(w)
  <2>1. /\ w.at = "parsed" /\ Becomes(w, "free") /\ file \in files'
        /\ UNCHANGED <<stdin, stdinOpen, stdout, child, slot, inHand>>
    BY <1>w, <1>4 DEF PutBack, At, pipes, Steps
  <2>3. PICK k : k = Len(stdout)
    OBVIOUS
  <2>2. Streamed(file, w.seq, k, TRUE)
    BY <1>w, <2>1, <2>3
  <2>4. Streamed(file, w.seq, k, TRUE)'
    BY <2>1, <2>2, StreamStays
  <2>5. Streamed(file, w.seq, Len(stdout), "free" \notin {"take", "parse"})'
    BY <2>1, <2>3, <2>4
  <2> QED
    BY <1>w, <2>1, <2>5, ThreadMoves DEF Steps
<1>5. CASE GiveSlotBack(w)
  <2>1. /\ w.at = "free" /\ Becomes(w, "answer") /\ slot' = FreeSlot
        /\ UNCHANGED <<stdin, stdinOpen, stdout, child, files, inHand>>
    BY <1>w, <1>5 DEF GiveSlotBack, At, pipes, Steps
  <2>3. PICK k : k = Len(stdout)
    OBVIOUS
  <2>2. Streamed(file, w.seq, k, TRUE)
    BY <1>w, <2>1, <2>3
  <2>4. Streamed(file, w.seq, k, TRUE)'
    BY <2>1, <2>2, StreamStays
  <2>5. Streamed(file, w.seq, Len(stdout), "answer" \notin {"take", "parse"})'
    BY <2>1, <2>3, <2>4
  <2> QED
    BY <1>w, <2>1, <2>5, ThreadMoves DEF Steps
<1>6. CASE AnswerParse(w)
  <2>1. /\ w.at = "answer" /\ Write(Result(7, [total |-> w.seq])) /\ workers' = {}
        /\ UNCHANGED <<stdin, stdinOpen, child, files, slot, inHand>>
    BY <1>w, <1>6 DEF AnswerParse, At, Steps
  <2>2. Streamed(file, w.seq, Len(stdout), TRUE)
    BY <1>w, <2>1
  <2>3. AtRest' /\ file \in files' /\ pending' /\ stdin' = <<>> /\ w.seq > 0
    BY <1>w, <2>1 DEF AtRest
  <2> QED
    BY <1>w, <2>1, <2>2, <2>3, WritesTotal
<1> QED
  BY <1>d, <1>1, <1>2, <1>3, <1>4, <1>5, <1>6

\* An empty sequence.
LEMMA NoLines ==
    ASSUME NEW S, NEW s \in Seq(S), Len(s) = 0
    PROVE  s = <<>>
  OBVIOUS

\* The whole stream read, the answer agrees with what was counted.
LEMMA ParsePasses ==
    ASSUME NEW file \in Files, at = "parse", FactsInv(file), HasParsed(file),
           Len(stdout) = 1, Judge, UNCHANGED library
    PROVE  /\ UNCHANGED <<findings, child, stdinOpen, slow>> /\ ~fatal' /\ ~facts'.aborted
           /\ at' = "key_values" /\ FactsInv(file)' /\ TableInv(file)' /\ Unsent(file)'
<1> DEFINE f == stdout[1]
           n == f.body.total
<1>1. /\ stdout # <<>> /\ n \in Nat \ {0} /\ f = Result(7, [total |-> n])
      /\ Streamed(file, n, 0, TRUE) /\ file \in files
      /\ pending /\ stdin = <<>> /\ AtRest
  <2>1. stdout[Len(stdout)] = f /\ Len(stdout) - 1 = 0
    OBVIOUS
  <2>2. stdout # <<>>
    BY DEF Judge
  <2> QED
    BY <2>1, <2>2 DEF HasParsed
<1>2. /\ stdout \in Seq(Range(stdout)) /\ Counted(2 * n)
  <2>1. 2 * n - 0 = 2 * n
    BY <1>1
  <2> QED
    BY <1>1, <2>1 DEF Streamed
<1>3. /\ facts \in [metrics : SUBSET Files, valid : BOOLEAN, progress : BOOLEAN,
                    expected : SUBSET Nat, closed : BOOLEAN, sum : Nat, query : {FALSE},
                    loadFailed : {FALSE}, aborted : {FALSE}]
  BY DEF FactsInv
<1>4. n = facts.sum /\ facts.progress
  <2>1. 2 * n \in {2 * facts.sum, 2 * facts.sum + 1} /\ (2 * n > 0 => facts.progress)
    BY <1>2 DEF Counted
  <2>2. n \in Nat \ {0} /\ facts.sum \in Nat
    BY <1>1, <1>3
  <2> HIDE DEF n
  <2> QED
    BY <2>1, <2>2
<1>5. Head(stdout) = f /\ Tail(stdout) = <<>>
  <2>1. /\ Head(stdout) = stdout[1] /\ Tail(stdout) \in Seq(Range(stdout))
        /\ Len(Tail(stdout)) = Len(stdout) - 1
    BY <1>1, <1>2, TailLines
  <2>2. Len(Tail(stdout)) = 0
    BY <2>1
  <2> QED
    BY <2>1, <2>2, NoLines
<1>6. /\ f.line = "json" /\ f.kind = "answer" /\ f.id = 7 /\ f.code = "none"
  BY <1>1 DEF Result
<1>7. "parse" \in Asking /\ Id[at] = 7 /\ After[at] = "key_values"
  BY QuestionsAre DEF Replay
<1>8. /\ SchemaFindings(f) = {} /\ AnswerFindings(f) = {} /\ EndsCheck(f) = FALSE
      /\ Learned(f) = facts
  <2>1. ParseFindings(f) = {}
    BY <1>4, <1>6 DEF ParseFindings, Failed, When
  <2>2. AnswerFindings(f) = {}
    BY <2>1 DEF AnswerFindings
  <2>3. SchemaFindings(f) = {}
    BY <1>6 DEF SchemaFindings
  <2>4. EndsCheck(f) = FALSE
    BY <1>6 DEF EndsCheck, MissingMethod
  <2>5. Learned(f) = facts
    BY DEF Learned
  <2> QED
    BY <2>2, <2>3, <2>4, <2>5
<1> HIDE DEF f, n
<1>9. JudgeAnswer(f)
  <2>1. JudgeLine(f) \/ JudgeNotification(f) \/ JudgeStrayAnswer(f) \/ JudgeAnswer(f)
    BY <1>5, Zenon DEF Judge
  <2> QED
    BY <2>1, <1>6, <1>7 DEF JudgeLine, JudgeNotification, JudgeStrayAnswer
<1>10. /\ pending' = FALSE /\ findings' = findings /\ fatal' = FALSE
       /\ facts' = [facts EXCEPT !.aborted = FALSE]
       /\ at' = NextStep(at # "can_handle" \/ Claimed(f), facts)
       /\ stdout' = <<>> /\ UNCHANGED <<stdin, stdinOpen, child, slow>>
  BY <1>5, <1>8, <1>9 DEF JudgeAnswer, Frame
<1>11. facts' = facts /\ ~facts.aborted
  BY <1>3, <1>10
<1>12. at' = "key_values"
  BY <1>7, <1>10 DEF NextStep
<1>13. FactsInv(file)' /\ TableInv(file)'
  BY <1>1, <1>3, <1>11, <1>12 DEF FactsInv, TableInv, Unasked, library
<1>14. Unsent(file)'
  BY <1>1, <1>10 DEF Unsent, AtRest, library
<1> QED
  BY <1>10, <1>11, <1>12, <1>13, <1>14

\* Before that a line of the stream is read; the answer is still behind it.
LEMMA ReadsOn ==
    ASSUME NEW file \in Files, at = "parse", FactsInv(file), HasParsed(file),
           Len(stdout) # 1, Judge, UNCHANGED library
    PROVE  /\ HasParsed(file)' /\ FactsInv(file)' /\ UNCHANGED <<at, findings, fatal>>
           /\ UNCHANGED <<stdinOpen, child, slow>>
<1>l. PICK l : l = Len(stdout)
  OBVIOUS
<1>n. PICK n : n = stdout[l].body.total
  OBVIOUS
<1>1. /\ pending /\ stdin = <<>> /\ AtRest /\ file \in files /\ stdout # <<>>
      /\ n \in Nat \ {0} /\ stdout[l] = Result(7, [total |-> n])
      /\ Streamed(file, n, l - 1, TRUE)
  BY <1>l, <1>n DEF HasParsed
<1>2. stdout \in Seq(Range(stdout)) /\ l - 1 \in 0 .. 2 * n
  BY <1>1 DEF Streamed
<1>3. l \in Nat \ {0, 1} /\ l - 1 >= 1 /\ l - 1 <= Len(stdout)
  <2>1. l \in Nat \ {0}
    BY <1>1, <1>2, <1>l, TailLines
  <2> QED
    BY <2>1, <1>l
<1>4. /\ Streamed(file, n, (l - 1) - 1, TRUE)' /\ Len(stdout') = l - 1
      /\ \A i \in 1 .. l - 1 : stdout'[i] = stdout[i + 1]
      /\ FactsInv(file)' /\ UNCHANGED <<at, pending, findings, fatal>>
      /\ UNCHANGED <<stdin, stdinOpen, child, slow>>
  BY <1>1, <1>3, <1>l, ReadsLine
<1>5. stdout'[l - 1] = stdout[l] /\ Len(stdout') - 1 = (l - 1) - 1 /\ stdout' # <<>>
  <2>1. stdout'[l - 1] = stdout[(l - 1) + 1]
    BY <1>3, <1>4
  <2>2. (l - 1) + 1 = l /\ l - 1 # 0
    BY <1>3
  <2>3. stdout' # <<>>
    BY <1>4, <2>2
  <2> QED
    BY <1>4, <2>1, <2>2, <2>3
<1>6. /\ stdout'[Len(stdout')] = Result(7, [total |-> n]) /\ stdout'[Len(stdout')].body.total = n
      /\ Streamed(file, n, Len(stdout) - 1, TRUE)'
  BY <1>1, <1>4, <1>5, <1>n
<1>7. pending' /\ stdin' = <<>> /\ AtRest' /\ file \in files'
  BY <1>1, <1>4 DEF AtRest, library
<1>8. /\ stdout'[Len(stdout')].body.total \in Nat \ {0}
      /\ stdout'[Len(stdout')] = Result(7, [total |-> stdout'[Len(stdout')].body.total])
      /\ Streamed(file, stdout[Len(stdout)].body.total, Len(stdout) - 1, TRUE)'
  BY <1>1, <1>6
<1> QED
  BY <1>4, <1>5, <1>7, <1>8 DEF HasParsed

\* And while the parse thread still works.
LEMMA ReadsAlong ==
    ASSUME NEW file \in Files, at = "parse", FactsInv(file), Parses(file), Judge,
           UNCHANGED library
    PROVE  /\ Parses(file)' /\ FactsInv(file)' /\ UNCHANGED <<at, findings, fatal>>
           /\ UNCHANGED <<stdinOpen, child, slow>>
<1>w. PICK w \in workers :
              /\ pending /\ stdin = <<>> /\ inHand = NoRequest
              /\ workers = {w} /\ w.at \in Steps /\ w.file = file /\ w.id = 7 /\ w.seq \in Nat
              /\ slot = IF w.at = "answer" THEN FreeSlot ELSE [file |-> file, cancel |-> FALSE]
              /\ Streamed(file, w.seq, Len(stdout), w.at \notin {"take", "parse"})
              /\ w.at = "take" => w.seq = 0
              /\ w.at \notin {"take", "parse"} => w.seq > 0
              /\ w.at \in {"take", "free", "answer"} => file \in files
              /\ w \in [at : Steps, file : {file}, id : {7}, seq : Nat]
  BY TheThread, Zenon
<1>k. PICK k : k = Len(stdout)
  OBVIOUS
<1>o. PICK over \in BOOLEAN : over = (w.at \notin {"take", "parse"})
  OBVIOUS
<1>1. Streamed(file, w.seq, k, over) /\ k \in Nat \ {0}
  <2>1. Streamed(file, w.seq, k, over)
    BY <1>w, <1>k, <1>o
  <2>2. stdout # <<>>
    BY DEF Judge
  <2>3. stdout \in Seq(Range(stdout))
    BY <2>1 DEF Streamed
  <2> QED
    BY <2>1, <2>2, <2>3, <1>k, TailLines
<1>2. /\ Streamed(file, w.seq, k - 1, over)' /\ Len(stdout') = k - 1
      /\ FactsInv(file)' /\ UNCHANGED <<at, pending, findings, fatal>>
      /\ UNCHANGED <<stdin, stdinOpen, child, slow>>
  BY <1>1, <1>k, ReadsLine
<1>3. Streamed(file, w.seq, Len(stdout), w.at \notin {"take", "parse"})'
  BY <1>2, <1>o
<1>4. UNCHANGED <<workers, slot, inHand, files>>
  BY DEF library
<1>5. Parses(file)'
  BY <1>w, <1>2, <1>3, <1>4, Zenon DEF Parses
<1> QED
  BY <1>2, <1>5

\* A replay under way: what LibraryInv says of it between two questions or with
\* one asked.
UnderWay(file) ==
    /\ at \in Replay /\ findings = StructureFindings(folder) /\ ~facts.aborted
    /\ child = IF at = "shutdown" /\ stdout # <<>> THEN "code0" ELSE "running"
    /\ stdinOpen /\ ~fatal
    /\ FactsInv(file) /\ TableInv(file) /\ Talk(file)

ReplayEnded ==
    /\ at \in Over \cup {"reported"} /\ findings = StructureFindings(folder) /\ ~facts.aborted
    /\ at \in Over => child = "code0"
    /\ at = "reported" =>
         /\ report.exit = ExitCode(StructureFindings(folder)) /\ report.phase2 = "pass"
         /\ report.passed = BehaviorRules \cup Passed(StructureFindings(folder), FALSE)

\* The three parts of Replaying.
LEMMA ReplayingIs ==
    ASSUME NEW file
    PROVE  /\ Replaying(file) <=>
                \/ at = "structure" /\ PipesInit /\ RuntimeInit /\ CheckInit
                \/ UnderWay(file)
                \/ ReplayEnded
<1>1. /\ "structure" \notin Replay \cup Over \cup {"reported"}
      /\ Replay \cap (Over \cup {"reported"}) = {} /\ "reported" \notin Over
  BY DEF Replay, Unasked, Over
<1>2. CASE at = "structure"
  BY <1>1, <1>2 DEF Replaying, UnderWay, ReplayEnded
<1>3. CASE at \in Replay
  BY <1>1, <1>3 DEF Replaying, UnderWay, ReplayEnded
<1>4. CASE at \notin Replay \cup {"structure"}
  BY <1>1, <1>4 DEF Replaying, UnderWay, ReplayEnded
<1> QED
  BY <1>2, <1>3, <1>4

\* A step of the library.
LEMMA LibraryMoves ==
    ASSUME NEW file \in Files \ Unreadable, UnderWay(file), RuntimeNext,
           UNCHANGED <<at, pending, findings, fatal, facts, folder>>
    PROVE  UnderWay(file)'
<1>1. child = "running" /\ ~(at = "shutdown" /\ stdout # <<>>)
  BY NothingToDo DEF UnderWay
<1>2. ASSUME FactsInv(file) PROVE FactsInv(file)'
  BY <1>2 DEF FactsInv, Untold
<1>3. ASSUME AtRest, stdin = <<>> PROVE FALSE
  BY <1>3, NothingToDo DEF AtRest, UnderWay
<1>4. CASE at # "parse"
  <2>1. Sent(file) /\ at \in Replay \ {"parse"}
    BY <1>3, <1>4 DEF UnderWay, Talk, Unsent, Replied
  <2>2. /\ Replied(file)' /\ TableInv(file)' /\ stdinOpen'
        /\ child' = IF at = "shutdown" THEN "code0" ELSE "running"
    BY <1>1, <2>1, AnswersIt DEF UnderWay
  <2>3. stdout' # <<>>
    BY <2>2, OneLine DEF Replied
  <2>4. Talk(file)'
    BY <1>4, <2>2 DEF Talk
  <2> QED
    BY <1>2, <2>2, <2>3, <2>4 DEF UnderWay
<1>5. CASE at = "parse"
  <2>1. TableInv(file)'
    BY <1>5 DEF TableInv
  <2>2. Talk(file)' /\ UNCHANGED <<child, stdinOpen>>
    <3>1. CASE Unsent(file)
      BY <3>1, <1>3 DEF Unsent
    <3>2. CASE Sent(file) /\ Untold /\ file \in files
      <4>1. Cleared(file)' /\ UNCHANGED <<child, stdinOpen>>
        BY <1>5, <3>2, StartsParse
      <4>2. Untold'
        BY <3>2 DEF Untold
      <4> QED
        BY <1>5, <4>1, <4>2 DEF Talk
    <3>3. CASE Cleared(file) /\ Untold
      <4>1. Parses(file)' /\ UNCHANGED <<child, stdinOpen>>
        BY <3>3, ClaimsIt DEF UnderWay
      <4> QED
        BY <1>5, <4>1 DEF Talk
    <3>4. CASE Parses(file)
      <4>1. (Parses(file)' \/ HasParsed(file)') /\ UNCHANGED <<child, stdinOpen>>
        BY <3>4, Works DEF UnderWay
      <4> QED
        BY <1>5, <4>1 DEF Talk
    <3>5. CASE HasParsed(file)
      BY <3>5, <1>3 DEF HasParsed
    <3>6. \/ (Unsent(file) \/ Sent(file)) /\ Untold /\ file \in files
          \/ Cleared(file) /\ Untold
          \/ Parses(file)
          \/ HasParsed(file)
      BY <1>5 DEF UnderWay, Talk
    <3> QED
      BY <3>1, <3>2, <3>3, <3>4, <3>5, <3>6, Zenon
  <2> QED
    BY <1>1, <1>2, <1>5, <2>1, <2>2 DEF UnderWay
<1> QED
  BY <1>4, <1>5

\* A line is judged.
LEMMA CheckReads ==
    ASSUME NEW file \in Files, UnderWay(file), Judge, UNCHANGED library, UNCHANGED folder
    PROVE  (UnderWay(file)' \/ ReplayEnded') /\ UNCHANGED slow
<1>1. stdout # <<>> /\ pending /\ stdout # <<>>
  BY DEF Judge, JudgeLine, JudgeNotification, JudgeStrayAnswer, JudgeAnswer, Frame
<1>2. CASE at # "parse"
  <2>1. Replied(file) /\ at \in Replay \ {"parse"}
    BY <1>1, <1>2 DEF UnderWay, Talk, Unsent, Sent
  <2>2. /\ UNCHANGED <<findings, child, stdinOpen, slow>> /\ ~fatal' /\ ~facts'.aborted
        /\ at' = IF at = "probe" THEN "unload_file" ELSE After[at]
        /\ FactsInv(file)' /\ TableInv(file)' /\ Unsent(file)'
        /\ at' = "parse" => Untold' /\ file \in files'
    BY <2>1, GoesOn DEF UnderWay
  <2>3. CASE at = "shutdown"
    BY <2>2, <2>3, <1>1, QuestionsAre DEF ReplayEnded, Over, UnderWay
  <2>4. CASE at # "shutdown"
    <3>1. at' \in Replay /\ stdout' = <<>>
      BY <2>1, <2>2, <2>4, QuestionsAre DEF Replay, Unasked, Unsent
    <3>2. Talk(file)'
      BY <2>2 DEF Talk
    <3> QED
      BY <2>2, <2>4, <3>1, <3>2 DEF UnderWay
  <2> QED
    BY <2>3, <2>4
<1>3. CASE at = "parse"
  <2>1. CASE Parses(file)
    <3>1. /\ Parses(file)' /\ FactsInv(file)' /\ UNCHANGED <<at, findings, fatal>>
          /\ UNCHANGED <<stdinOpen, child, slow>>
      BY <1>3, <2>1, ReadsAlong DEF UnderWay
    <3>2. Talk(file)' /\ TableInv(file)' /\ ~facts'.aborted
      BY <1>3, <3>1 DEF Talk, TableInv, FactsInv
    <3> QED
      BY <1>3, <3>1, <3>2 DEF UnderWay
  <2>2. CASE HasParsed(file) /\ Len(stdout) = 1
    <3>1. /\ UNCHANGED <<findings, child, stdinOpen, slow>> /\ ~fatal' /\ ~facts'.aborted
          /\ at' = "key_values" /\ FactsInv(file)' /\ TableInv(file)' /\ Unsent(file)'
      BY <1>3, <2>2, ParsePasses DEF UnderWay
    <3>2. Talk(file)'
      BY <3>1 DEF Talk
    <3> QED
      BY <1>3, <3>1, <3>2 DEF UnderWay, Replay
  <2>3. CASE HasParsed(file) /\ Len(stdout) # 1
    <3>1. /\ HasParsed(file)' /\ FactsInv(file)' /\ UNCHANGED <<at, findings, fatal>>
          /\ UNCHANGED <<stdinOpen, child, slow>>
      BY <1>3, <2>3, ReadsOn DEF UnderWay
    <3>2. Talk(file)' /\ TableInv(file)' /\ ~facts'.aborted
      BY <1>3, <3>1 DEF Talk, TableInv, FactsInv
    <3> QED
      BY <1>3, <3>1, <3>2 DEF UnderWay
  <2>4. \/ Unsent(file) \/ Sent(file)
        \/ Cleared(file)
        \/ Parses(file)
        \/ HasParsed(file)
    BY <1>3 DEF UnderWay, Talk
  <2>5. ~Unsent(file) /\ ~Sent(file) /\ ~Cleared(file)
    BY <1>1 DEF Unsent, Sent, Cleared
  <2> QED
    BY <2>1, <2>2, <2>3, <2>4, <2>5, Zenon
<1> QED
  BY <1>2, <1>3

\* A question is put.
LEMMA CheckAsks ==
    ASSUME NEW file, UnderWay(file), Ask(file), UNCHANGED library, UNCHANGED folder
    PROVE  UnderWay(file)' /\ UNCHANGED slow
<1>1. /\ ~pending /\ pending'
      /\ UNCHANGED <<stdinOpen, stdout, child, at, findings, fatal, facts, slow>>
  BY DEF Ask
<1>2. Unsent(file) /\ (at = "parse" => Untold /\ file \in files)
  BY <1>1 DEF UnderWay, Talk, Sent, Replied, Cleared, Parses, HasParsed
<1>3. child = "running" /\ at # "unknown"
  BY <1>2 DEF UnderWay, Unsent, Replay, Unasked
<1>4. stdin' = <<Question(file)>>
  <2>1. stdin' = Append(stdin, Question(file))
    BY <1>3 DEF Ask, Question
  <2> QED
    BY <2>1, <1>2 DEF Unsent
<1>5. Sent(file)'
  <2>1. Question(file)' = Question(file)
    BY <1>1 DEF Question
  <2> QED
    BY <1>1, <1>2, <1>4, <2>1 DEF Sent, Unsent, AtRest, library
<1>6. Talk(file)' /\ FactsInv(file)' /\ TableInv(file)'
  <2>1. FactsInv(file)' /\ (Untold => Untold')
    BY <1>1 DEF UnderWay, FactsInv, Untold
  <2>2. TableInv(file)'
    BY <1>1 DEF UnderWay, TableInv, library
  <2>3. Talk(file)'
    BY <1>1, <1>2, <1>5, <2>1 DEF Talk, library
  <2> QED
    BY <2>1, <2>2, <2>3
<1> QED
  BY <1>1, <1>6 DEF UnderWay

\* The library answers, or still works: no wait is over before.
LEMMA NoSilence ==
    ASSUME NEW file, UnderWay(file)
    PROVE  ~WaitIsOver /\ (WatchdogRunsOut => slow' # "no")
  BY DEF UnderWay, WaitIsOver, WatchdogRunsOut

\* The structure phase speaks of its own rules.
LEMMA StructureSpeaks ==
    ASSUME NEW f, NEW e \in StructureFindings(f)
    PROVE  e.rule \in StructureRules
<1> DEFINE Own(F) == \A x \in F : x.rule \in StructureRules
<1>e. ASSUME NEW rule \in StructureRules PROVE Own(Error(rule)) /\ Own(Warn(rule))
  BY DEF Error, Warn
<1>w. ASSUME NEW c, NEW F, Own(F) PROVE Own(When(c, F))
  BY <1>w, Zenon DEF When
<1>r. {"MAN-01", "MAN-02", "MAN-03", "MAN-04", "MAN-05", "MAN-06", "MAN-07", "MAN-08",
       "MAN-10", "MAN-11", "MAN-12", "MAN-13", "MAN-14"} \subseteq StructureRules
  BY DEF StructureRules
<1>a. /\ Own(Error("MAN-01")) /\ Own(Error("MAN-02")) /\ Own(Error("MAN-03"))
      /\ Own(Error("MAN-05")) /\ Own(Error("MAN-08")) /\ Own(Error("MAN-10"))
      /\ Own(Error("MAN-11")) /\ Own(Error("MAN-12")) /\ Own(Error("MAN-13"))
      /\ Own(Warn("MAN-03")) /\ Own(Warn("MAN-04")) /\ Own(Warn("MAN-06"))
      /\ Own(Warn("MAN-07")) /\ Own(Warn("MAN-14"))
  BY <1>e, <1>r, Zenon
<1> HIDE DEF Own
<1>u. ASSUME NEW F, NEW G, Own(F), Own(G) PROVE Own(F \cup G)
  BY <1>u, Zenon DEF Own
<1>1. Own(IdFindings(f))
  BY <1>a, <1>w, <1>u, Zenon DEF IdFindings
<1>2. Own(EntryFindings(f))
  <2>1. Own(When(~OnPath(f.command), Warn("MAN-03")))
    BY <1>a, <1>w, Zenon
  <2>2. Own(IF Interpreter(f.command) THEN When(~OnPath(f.command), Warn("MAN-03"))
            ELSE Error("MAN-03"))
    BY <2>1, <1>a, Zenon
  <2> QED
    BY <2>2, <1>a, <1>w, <1>u, Zenon DEF EntryFindings
<1>3. /\ Own(ProtocolFindings(f)) /\ Own(MatchFindings(f)) /\ Own(VersionFindings(f))
      /\ Own(OriginFindings(f))
  BY <1>a, <1>w, <1>u, Zenon DEF ProtocolFindings, MatchFindings, VersionFindings, OriginFindings
<1>4. Own(ToolFindings(f))
  <2>1. \A i : Own(When(f.tools[i].req \in {"absent", "bad"}, Error("MAN-11")))
    BY <1>a, <1>w, Zenon
  <2> QED
    BY <2>1, Zenon DEF ToolFindings, Each, Own
<1>5. Own(ChangelogFindings(f))
  <2>1. \A i : Own(When(~LaxVersion(f.changelog[i].version) \/ ~RealDate(f.changelog[i].date)
                        \/ ~f.changelog[i].notes, Error("MAN-12")))
    BY <1>a, <1>w, Zenon
  <2>2. Own(EntriesFindings(f.changelog))
    BY <2>1, Zenon DEF EntriesFindings, Each, Own
  <2>3. Own(OwnVersionFindings(f))
    BY <1>a, <1>w, Zenon DEF OwnVersionFindings
  <2> QED
    BY <2>2, <2>3, <1>a, <1>w, <1>u, Zenon DEF ChangelogFindings
<1>6. Own(PresetFindings(f))
  <2>1. \A i : Own(When(Doubtful(f.presets[i]) \/ RepeatsAnId(f.presets[i].groups), Warn("MAN-14")))
    BY <1>a, <1>w, Zenon
  <2>2. Own(Each(f.presets, LAMBDA p : When(Doubtful(p) \/ RepeatsAnId(p.groups), Warn("MAN-14"))))
    BY <2>1, Zenon DEF Each, Own
  <2> QED
    BY <2>2, <1>a, <1>w, <1>u, Zenon DEF PresetFindings
<1>7. Own(SemanticFindings(f))
  BY <1>1, <1>2, <1>3, <1>4, <1>5, <1>6, <1>u, Zenon DEF SemanticFindings
<1>8. Own(StructureFindings(f))
  <2>1. Own(When(Nested(f), Error("MAN-08"))) /\ Own(When(SchemaBreaks(f), Error("MAN-01")))
    BY <1>a, <1>w, Zenon
  <2>2. Own(Error("MAN-01") \cup Warn("MAN-06"))
    BY <1>a, <1>u, Zenon
  <2>3. Own(When(SchemaBreaks(f), Error("MAN-01")) \cup SemanticFindings(f))
    BY <2>1, <1>7, <1>u, Zenon
  <2>4. CASE ~f.rooted
    BY <2>4, <1>a, Zenon DEF StructureFindings
  <2>5. CASE f.rooted
    <3>1. Own(IF f.text \in {"unreadable", "garbage"} THEN Error("MAN-01")
              ELSE IF f.text = "array" THEN Error("MAN-01") \cup Warn("MAN-06")
              ELSE When(SchemaBreaks(f), Error("MAN-01")) \cup SemanticFindings(f))
      BY <2>2, <2>3, <1>a, Zenon
    <3> QED
      BY <3>1, <2>1, <2>5, <1>u, Zenon DEF StructureFindings
  <2> QED
    BY <2>4, <2>5
<1> QED
  BY <1>8 DEF Own

\* A folder without an error has a manifest that serde reads.
LEMMA HasManifest ==
    ASSUME NEW f \in Folder, ~HasError(StructureFindings(f))
    PROVE  ~NoManifest(f)
<1>1. /\ f.text = "json" /\ ~SchemaBreaks(f) /\ ~HasError(SemanticFindings(f))
  BY NoErrorSays, Zenon
<1>2. \A i \in DOMAIN f.changelog : f.changelog[i].notes
  BY <1>1, NoRuleBroken, Zenon
<1>3. f.name # "absent" /\ f.command # "absent" /\ f.extensions # "absent"
  BY <1>1, Zenon DEF SchemaBreaks
<1>4. \A e \in Range(f.changelog) : e.notes
  BY <1>2 DEF Range
<1> QED
  BY <1>1, <1>3, <1>4, Zenon DEF NoManifest

\* The replay begins with nothing said.
LEMMA ReplayBegins ==
    ASSUME NEW file, folder \in Folder, Replayed, PipesInit, RuntimeInit, CheckInit,
           Structure, UNCHANGED library
    PROVE  UnderWay(file)' /\ UNCHANGED slow
<1>1. /\ findings' = StructureFindings(folder) /\ UNCHANGED <<pipes, pending, fatal, facts, slow>>
      /\ folder' = folder
  BY Zenon DEF Structure, request
<1>2. at' = "initialize"
  <2>1. ~CannotReplay
    BY HasManifest, Zenon DEF CannotReplay, Replayed
  <2>2. replays /\ ~HasError(findings')
    BY <1>1 DEF Replayed
  <2> QED
    BY <2>1, <2>2 DEF Structure
<1>3. /\ stdin' = <<>> /\ stdinOpen' = TRUE /\ stdout' = <<>> /\ child' = "running"
      /\ pending' = FALSE /\ fatal' = FALSE /\ facts' = Unheard
  BY <1>1 DEF pipes, PipesInit, CheckInit
<1>4. /\ metricsOf' = NoFile /\ AtRest'
  BY DEF library, RuntimeInit, AtRest
<1>5. FactsInv(file)' /\ TableInv(file)' /\ ~facts'.aborted
  <2>1. Unheard \in [metrics : SUBSET Files, valid : BOOLEAN, progress : BOOLEAN,
                     expected : SUBSET Nat, closed : BOOLEAN, sum : Nat, query : {FALSE},
                     loadFailed : {FALSE}, aborted : {FALSE}]
    BY DEF Unheard
  <2>2. Untold'
    BY <1>3 DEF Untold, Unheard
  <2>3. FactsInv(file)'
    BY <1>2, <1>3, <2>1, <2>2 DEF FactsInv
  <2>4. TableInv(file)'
    BY <1>2, <1>4 DEF TableInv
  <2> QED
    BY <1>3, <2>3, <2>4 DEF Unheard
<1>6. Talk(file)'
  BY <1>2, <1>3, <1>4 DEF Talk, Unsent
<1> QED
  BY <1>1, <1>2, <1>3, <1>5, <1>6 DEF UnderWay, Replay, Unasked

\* The exit has come when the check looks for it.
LEMMA CheckEnds ==
    ASSUME ReplayEnded, AwaitExit \/ AwaitEof \/ Kill, UNCHANGED folder
    PROVE  ReplayEnded' /\ UNCHANGED slow
<1>1. at \in {"exit", "eof", "kill"} /\ child = "code0"
  BY DEF AwaitExit, AwaitEof, Kill, ReplayEnded, Over
<1>2. /\ at' \in {"eof", "kill", "done"} /\ UNCHANGED <<child, slow, facts>>
      /\ findings' = findings
  BY <1>1 DEF AwaitExit, AwaitEof, Kill, pipes, When
<1> QED
  BY <1>1, <1>2 DEF ReplayEnded, Over

\* The report of a replay that broke no rule.
LEMMA CheckReports ==
    ASSUME folder \in Folder, Replayed, ReplayEnded, Report
    PROVE  ReplayEnded' /\ UNCHANGED slow
<1> DEFINE F == StructureFindings(folder)
<1>1. findings = F /\ ~facts.aborted /\ replays /\ ~HasError(F)
  BY DEF ReplayEnded, Replayed
<1>2. \A e \in F : e.rule \in StructureRules
  BY StructureSpeaks
<1> HIDE DEF F
<1>3. {e \in F : e.rule \in StructureRules} = F /\ F \ F = {}
  BY <1>2
<1>4. ~HasError({})
  BY DEF HasError
<1>5. Passed(F, TRUE) = BehaviorRules \cup Passed(F, FALSE)
  <2>1. BehaviorRules \cap StructureRules = {}
    BY DEF BehaviorRules, StructureRules
  <2>2. BehaviorRules \cap {e.rule : e \in F} = {}
    BY <1>2, <2>1
  <2> QED
    BY <2>2 DEF Passed
<1>6. /\ at' = "reported" /\ UNCHANGED <<findings, facts, slow, folder>>
      /\ LET structural == {f \in findings : f.rule \in StructureRules}
             replayed   == replays /\ ~HasError(structural) /\ ~facts.aborted IN
          report' = [exit   |-> ExitCode(findings),
                     phase1 |-> IF HasError(structural) THEN "fail" ELSE "pass",
                     phase2 |-> IF ~replayed THEN "skipped"
                                ELSE IF HasError(findings \ structural) THEN "fail" ELSE "pass",
                     passed |-> Passed(findings, replayed)]
  BY Zenon DEF Report, request
<1>7. /\ report'.exit = ExitCode(F) /\ report'.phase2 = "pass"
      /\ report'.passed = BehaviorRules \cup Passed(F, FALSE)
  <2> DEFINE replayed == replays /\ ~HasError(F) /\ ~facts.aborted
  <2>1. replayed = TRUE
    BY <1>1
  <2>2. report' = [exit   |-> ExitCode(F),
                   phase1 |-> IF HasError(F) THEN "fail" ELSE "pass",
                   phase2 |-> IF ~replayed THEN "skipped"
                              ELSE IF HasError(F \ F) THEN "fail" ELSE "pass",
                   passed |-> Passed(F, replayed)]
    BY <1>1, <1>3, <1>6, Zenon
  <2> HIDE DEF replayed
  <2> QED
    BY <2>1, <2>2, <1>3, <1>4, <1>5
<1> QED
  BY <1>1, <1>6, <1>7 DEF ReplayEnded, Over, F

\* The stages around the replay are no questions.
LEMMA StagesAre ==
    /\ Asking \cap (Over \cup {"reported", "structure"}) = {}
    /\ Replay \cap (Over \cup {"reported", "structure"}) = {}
    /\ Over \cap {"reported", "structure"} = {}
  BY DEF Asking, Id, Replay, Unasked, Over

\* Who was slow once stays slow.
LEMMA SlowStays ==
    ASSUME NEW file, [LibraryNext(file)]_libraryVars, slow' = "no"
    PROVE  slow = "no"
<1>1. CASE UNCHANGED libraryVars
  BY <1>1 DEF libraryVars, check
<1>2. CASE RuntimeNext /\ UNCHANGED <<check, request, result, part>>
  BY <1>2 DEF check
<1>3. CASE CheckNext(file)
  <2>1. CASE Ask(file)
    BY <2>1, Zenon DEF Ask
  <2>2. CASE Judge
    BY <2>2, Zenon
       DEF Judge, JudgeLine, JudgeNotification, JudgeStrayAnswer, JudgeAnswer, Frame
  <2>3. CASE WatchdogRunsOut
    BY <2>3 DEF WatchdogRunsOut
  <2>4. CASE WaitIsOver
    BY <2>4, Zenon DEF WaitIsOver
  <2>5. CASE AwaitExit \/ AwaitEof
    BY <2>5 DEF AwaitExit, AwaitEof
  <2>6. CASE Kill
    BY <2>6, Zenon DEF Kill
  <2> QED
    BY <1>3, <2>1, <2>2, <2>3, <2>4, <2>5, <2>6, Zenon DEF CheckNext
<1>4. CASE RefuseCall \/ Structure \/ Report \/ Discover
  BY <1>4, Zenon DEF RefuseCall, Structure, Report, Discover, check
<1> QED
  BY <1>1, <1>2, <1>3, <1>4, Zenon DEF LibraryNext, FolderNext

\* What is asked of the check does not change.
LEMMA RequestStays ==
    ASSUME NEW file, [LibraryNext(file)]_libraryVars
    PROVE  UNCHANGED <<folder, replays, call, part>>
<1>1. CASE UNCHANGED libraryVars
  BY <1>1 DEF libraryVars, request
<1>2. CASE RuntimeNext /\ UNCHANGED <<check, request, result, part>>
  BY <1>2, Zenon DEF request
<1>3. CASE FolderNext(file) /\ UNCHANGED <<library, part>>
  BY <1>3, Zenon DEF FolderNext, RefuseCall, Structure, Report, Discover, request
<1> QED
  BY <1>1, <1>2, <1>3, Zenon DEF LibraryNext

\* A step of the check, at each of its three stages.
LEMMA CheckMoves ==
    ASSUME NEW file \in Files, folder \in Folder, Replayed, Replaying(file), FolderNext(file),
           UNCHANGED library, folder' = folder, slow' = "no"
    PROVE  Replaying(file)'
<1> DEFINE Inside == UnderWay(file)
<1>r. (UnderWay(file)' \/ ReplayEnded') => Replaying(file)'
  BY ReplayingIs, PTL
<1>1. CASE CheckNext(file) /\ UNCHANGED <<request, result>>
  <2>1. at # "structure"
    BY <1>1, ReplayAdds
  <2>2. CASE Inside
    <3>1. at \in Replay
      BY <2>2 DEF UnderWay
    <3>2. ~AwaitExit /\ ~AwaitEof /\ ~Kill
      BY <3>1, StagesAre DEF AwaitExit, AwaitEof, Kill, Over
    <3>3. Ask(file) \/ Judge
      BY <1>1, <2>2, <3>2, NoSilence, Zenon DEF CheckNext
    <3> QED
      BY <2>2, <3>3, <1>r, CheckAsks, CheckReads
  <2>3. CASE ReplayEnded
    <3>1. at \notin Asking
      BY <2>3, StagesAre DEF ReplayEnded
    <3>2. ~Ask(file) /\ ~Judge /\ ~WatchdogRunsOut /\ ~WaitIsOver
      BY <3>1, Zenon DEF Ask, Judge, JudgeLine, JudgeNotification, JudgeStrayAnswer,
         JudgeAnswer, Frame, WatchdogRunsOut, WaitIsOver
    <3>3. AwaitExit \/ AwaitEof \/ Kill
      BY <1>1, <3>2, Zenon DEF CheckNext
    <3> QED
      BY <2>3, <3>3, <1>r, CheckEnds
  <2> QED
    BY <2>1, <2>2, <2>3, ReplayingIs
<1>2. CASE RefuseCall
  BY <1>2 DEF RefuseCall, Refused, NoSchema, Replayed
<1>3. CASE Structure
  <2>1. at = "structure"
    BY <1>3, Zenon DEF Structure
  <2>2. PipesInit /\ RuntimeInit /\ CheckInit
    BY <2>1, StagesAre, ReplayingIs DEF UnderWay, ReplayEnded
  <2> QED
    BY <1>3, <2>2, <1>r, ReplayBegins
<1>4. CASE Report
  <2>1. at = "done"
    BY <1>4, Zenon DEF Report
  <2>2. ReplayEnded
    BY <2>1, StagesAre, ReplayingIs DEF UnderWay, Over
  <2> QED
    BY <1>4, <2>2, <1>r, CheckReports
<1>5. CASE Discover
  <2>1. at = "reported" /\ UNCHANGED <<check, report, child>>
    BY <1>5, Zenon DEF Discover, pipes
  <2>2. ReplayEnded
    BY <2>1, StagesAre, ReplayingIs DEF UnderWay
  <2>3. ReplayEnded'
    BY <2>1, <2>2 DEF ReplayEnded, check
  <2> QED
    BY <2>3, <1>r
<1> QED
  BY <1>1, <1>2, <1>3, <1>4, <1>5, Zenon DEF FolderNext

\* Talk speaks of the pipes, the library and the check alone.
LEMMA TalkStays ==
    ASSUME NEW file, Talk(file),
           UNCHANGED <<stdin, stdinOpen, stdout, files, slot, workers, inHand, at, pending, facts>>
    PROVE  Talk(file)'
<1>u. /\ stdin' = stdin /\ stdout' = stdout /\ files' = files /\ slot' = slot
      /\ workers' = workers /\ inHand' = inHand /\ at' = at /\ pending' = pending
      /\ facts' = facts
  OBVIOUS
<1>1. /\ (Unsent(file) => Unsent(file)') /\ (Untold => Untold')
      /\ (Cleared(file) => Cleared(file)')
  BY <1>u DEF Unsent, Untold, Cleared, AtRest
<1>2. Sent(file) => Sent(file)'
  <2>1. Question(file)' = Question(file)
    BY <1>u DEF Question
  <2> QED
    BY <1>u, <2>1 DEF Sent, AtRest
<1>3. Replied(file) => Replied(file)'
  <2>1. Answer(file)' = Answer(file)
    BY <1>u DEF Answer
  <2> QED
    BY <1>u, <2>1 DEF Replied, AtRest
<1>4. ASSUME Parses(file) PROVE Parses(file)'
  <2>1. PICK w \in workers :
              /\ pending /\ stdin = <<>> /\ inHand = NoRequest
              /\ workers = {w} /\ w.at \in Steps /\ w.file = file /\ w.id = 7 /\ w.seq \in Nat
              /\ slot = IF w.at = "answer" THEN FreeSlot ELSE [file |-> file, cancel |-> FALSE]
              /\ Streamed(file, w.seq, Len(stdout), w.at \notin {"take", "parse"})
              /\ w.at = "take" => w.seq = 0
              /\ w.at \notin {"take", "parse"} => w.seq > 0
              /\ w.at \in {"take", "free", "answer"} => file \in files
              /\ w \in [at : Steps, file : {file}, id : {7}, seq : Nat]
    BY <1>4, TheThread, Zenon
  <2>2. PICK k : k = Len(stdout)
    OBVIOUS
  <2>3. PICK over : over = (w.at \notin {"take", "parse"})
    OBVIOUS
  <2>4. Streamed(file, w.seq, k, over)
    BY <2>1, <2>2, <2>3
  <2>5. Streamed(file, w.seq, k, over)'
    BY <2>4, StreamStays
  <2>6. Streamed(file, w.seq, Len(stdout), w.at \notin {"take", "parse"})'
    BY <1>u, <2>2, <2>3, <2>5
  <2>7. /\ w \in workers' /\ pending' /\ stdin' = <<>> /\ inHand' = NoRequest
        /\ workers' = {w}
        /\ slot' = IF w.at = "answer" THEN FreeSlot ELSE [file |-> file, cancel |-> FALSE]
        /\ w.at \in {"take", "free", "answer"} => file \in files'
    BY <1>u, <2>1
  <2> QED
    BY <2>1, <2>6, <2>7, Zenon DEF Parses
<1>5. ASSUME HasParsed(file) PROVE HasParsed(file)'
  <2>1. PICK n : n = stdout[Len(stdout)].body.total
    OBVIOUS
  <2>2. PICK k : k = Len(stdout) - 1
    OBVIOUS
  <2>3. Streamed(file, n, k, TRUE)
    BY <1>5, <2>1, <2>2 DEF HasParsed
  <2>4. Streamed(file, n, k, TRUE)'
    BY <2>3, StreamStays
  <2>5. Streamed(file, stdout[Len(stdout)].body.total, Len(stdout) - 1, TRUE)'
    BY <1>u, <2>1, <2>2, <2>4
  <2>6. /\ pending /\ stdin = <<>> /\ AtRest /\ file \in files /\ stdout # <<>>
        /\ stdout[Len(stdout)].body.total \in Nat \ {0}
        /\ stdout[Len(stdout)] = Result(7, [total |-> stdout[Len(stdout)].body.total])
    BY <1>5 DEF HasParsed
  <2>7. /\ pending' /\ stdin' = <<>> /\ AtRest' /\ file \in files' /\ stdout' # <<>>
        /\ stdout'[Len(stdout')].body.total \in Nat \ {0}
        /\ stdout'[Len(stdout')] = Result(7, [total |-> stdout'[Len(stdout')].body.total])
    BY <1>u, <2>6 DEF AtRest
  <2> QED
    BY <2>5, <2>7 DEF HasParsed
<1> QED
  BY <1>u, <1>1, <1>2, <1>3, <1>4, <1>5 DEF Talk

\* No step of either side breaks LibraryInv.
LEMMA LibraryStep ==
    ASSUME NEW file \in Files \ Unreadable
    PROVE  LibraryInv(file) /\ [LibraryNext(file)]_libraryVars => LibraryInv(file)'
<1> SUFFICES ASSUME LibraryInv(file), [LibraryNext(file)]_libraryVars,
                    part' = "library", slow' = "no", Replayed'
             PROVE  (folder \in Folder)' /\ Replaying(file)'
  BY Zenon DEF LibraryInv
<1>1. UNCHANGED <<folder, replays, call, part>> /\ slow = "no"
  BY RequestStays, SlowStays, Zenon
<1>2. folder \in Folder /\ Replayed /\ Replaying(file)
  <2>1. Replayed
    BY <1>1 DEF Replayed
  <2> QED
    BY <1>1, <2>1 DEF LibraryInv
<1>r. (UnderWay(file)' \/ ReplayEnded') => Replaying(file)'
  BY ReplayingIs, PTL
<1>3. CASE RuntimeNext /\ UNCHANGED <<check, request, result, part>>
  <2>1. UNCHANGED <<at, pending, findings, fatal, facts, report>>
    BY <1>3, Zenon DEF check, result
  <2>2. CASE at = "structure"
    <3>1. PipesInit /\ RuntimeInit
      BY <1>2, <2>2, StagesAre, ReplayingIs DEF UnderWay, ReplayEnded
    <3> QED
      BY <3>1, <1>3, NothingToDo DEF PipesInit, RuntimeInit
  <2>3. CASE UnderWay(file)
    BY <1>1, <1>2, <1>3, <1>r, <2>1, <2>3, LibraryMoves
  <2>4. CASE ReplayEnded /\ at \in Over
    BY <1>3, <2>4, NothingToDo DEF ReplayEnded
  <2>5. CASE ReplayEnded /\ at \notin Over
    <3>1. ReplayEnded'
      BY <1>1, <2>1, <2>5 DEF ReplayEnded
    <3> QED
      BY <1>1, <1>2, <3>1, <1>r
  <2>6. Replaying(file)'
    BY <1>2, <2>2, <2>3, <2>4, <2>5, ReplayingIs
  <2> QED
    BY <1>1, <1>2, <2>6
<1>4. CASE FolderNext(file) /\ UNCHANGED <<library, part>>
  BY <1>1, <1>2, <1>4, CheckMoves
<1>5. CASE UNCHANGED libraryVars
  <2>1. UNCHANGED <<pipes, library, check, folder, report>>
    BY <1>5, Zenon DEF libraryVars, request, result
  <2>2. UNCHANGED <<stdin, stdinOpen, stdout, child, files, slot, workers, metricsOf, inHand,
                    at, pending, findings, fatal, facts, slow>>
    BY <2>1 DEF pipes, library, check
  <2>3. Talk(file) => Talk(file)'
    BY <2>2, TalkStays
  <2>4. (FactsInv(file) => FactsInv(file)') /\ (TableInv(file) => TableInv(file)')
    BY <2>2 DEF FactsInv, Untold, TableInv
  <2>5. Replaying(file)'
    BY <1>2, <2>1, <2>2, <2>3, <2>4
       DEF Replaying, PipesInit, RuntimeInit, CheckInit
  <2> QED
    BY <1>1, <1>2, <2>5
<1> QED
  BY <1>3, <1>4, <1>5, Zenon DEF LibraryNext

\* It holds before the check has looked at the folder.
LEMMA LibraryStarts ==
    ASSUME NEW file
    PROVE  LibraryInit => LibraryInv(file)
<1> SUFFICES ASSUME LibraryInit PROVE folder \in Folder /\ Replaying(file)
  BY Zenon DEF LibraryInv
<1>1. PipesInit /\ RuntimeInit /\ CheckInit /\ FolderStart
  BY Zenon DEF LibraryInit
<1>2. folder \in Folder
  BY <1>1, Zenon DEF FolderStart, FolderInit
<1>3. at = "structure"
  BY <1>1, Zenon DEF CheckInit
<1> QED
  BY <1>1, <1>2, <1>3 DEF Replaying

\* The inductive invariant of the replay against the runtime library, for any
\* folder, any file the plugin can load and any number of batches.
THEOREM LibraryInvariance ==
    ASSUME NEW CONSTANT file \in Files \ Unreadable
    PROVE  LibrarySpec(file) => []LibraryInv(file)
<1>1. LibraryInit => LibraryInv(file)
  BY LibraryStarts
<1>2. LibraryInv(file) /\ [LibraryNext(file)]_libraryVars => LibraryInv(file)'
  BY LibraryStep
<1> QED
  BY <1>1, <1>2, PTL DEF LibrarySpec

\* LibraryPasses for any folder and any file that loads: the runtime library
\* (dispatch.rs) answers the replay of behavior.rs without breaking a rule, in
\* every interleaving of check, dispatcher and parse thread.
THEOREM AuthorsPass ==
    ASSUME NEW CONSTANT file \in Files \ Unreadable
    PROVE  LibrarySpec(file) => []LibraryPasses
<1>1. LibraryInv(file) => LibraryPasses
  <2> SUFFICES ASSUME LibraryInv(file), part = "library", at = "reported", slow = "no", Replayed
               PROVE  /\ report.exit = ExitCode(StructureFindings(folder))
                      /\ report.phase2 = "pass"
                      /\ report.passed = BehaviorRules \cup Passed(StructureFindings(folder), FALSE)
    BY Zenon DEF LibraryPasses
  <2>1. Replaying(file)
    BY Zenon DEF LibraryInv
  <2>2. ReplayEnded
    BY <2>1, StagesAre, ReplayingIs DEF UnderWay
  <2> QED
    BY <2>2 DEF ReplayEnded
<1>2. LibrarySpec(file) => []LibraryInv(file)
  BY LibraryInvariance
<1> QED
  BY <1>1, <1>2, PTL

(***************************************************************************)
(* What a pass of `plugin check` is worth                                  *)
(***************************************************************************)
\* The line judged is the last one heard.
Hears(f) == heard' = Append(heard, [under |-> at, frame |-> f])

LEMMA HeardMore ==
    ASSUME NEW Wire, heard \in Seq([under : Asking, frame : Wire]), at \in Asking,
           NEW f \in Wire, Hears(f), NEW n, n = Len(heard) + 1
    PROVE  /\ heard' \in Seq([under : Asking, frame : Wire])
           /\ n \in Nat /\ n \notin Heard /\ Heard' = Heard \cup {n}
           /\ \A i \in Heard : i \in Nat /\ i < n
           /\ heard'[n] = [under |-> at, frame |-> f]
           /\ \A i \in Heard :
                /\ heard'[i] = heard[i]
                /\ IsAnswer(i)' <=> IsAnswer(i)
                /\ IsBatch(i)' <=> IsBatch(i)
                /\ IsBeat(i)' <=> IsBeat(i)
                /\ Announces(i)' <=> Announces(i)
<1>1. PICK E, e : /\ E = [under : Asking, frame : Wire] /\ e = [under |-> at, frame |-> f]
                  /\ e \in E /\ heard \in Seq(E) /\ heard' = Append(heard, e)
  BY DEF Hears
<1>2. /\ heard' \in Seq(E) /\ Len(heard') = n /\ heard'[n] = e
      /\ \A i \in DOMAIN heard : heard'[i] = heard[i] /\ i \in 1 .. Len(heard)
      /\ Len(heard) \in Nat /\ DOMAIN heard = 1 .. Len(heard)
  BY ONLY <1>1, n = Len(heard) + 1, AppendIs
<1>3. Len(heard) \in Nat /\ Heard = 1 .. Len(heard) /\ Heard' = 1 .. n /\ DOMAIN heard = Heard
  BY <1>2 DEF Heard
<1>4. /\ n \in Nat /\ n \notin Heard /\ Heard' = Heard \cup {n}
      /\ \A i \in Heard : i \in Nat /\ i < n
  BY <1>3
<1>5. \A i \in Heard : heard'[i] = heard[i]
  BY <1>2, <1>3
<1>6. \A i \in Heard :
        /\ IsAnswer(i)' <=> IsAnswer(i)
        /\ IsBatch(i)' <=> IsBatch(i)
        /\ IsBeat(i)' <=> IsBeat(i)
        /\ Announces(i)' <=> Announces(i)
  BY <1>5 DEF IsAnswer, IsBatch, IsBeat, Announces
<1> QED
  BY <1>1, <1>2, <1>4, <1>5, <1>6

LEMMA HeardType ==
    ASSUME NEW Wire, heard \in Seq([under : Asking, frame : Wire])
    PROVE  \A i \in Heard : heard[i].under \in Asking /\ heard[i].frame \in Wire
<1>1. PICK E : E = [under : Asking, frame : Wire]
  OBVIOUS
<1>2. heard \in Seq(E)
  BY <1>1
<1>3. \A i \in Heard : heard[i] \in E
  BY ONLY <1>2 DEF Heard
<1> QED
  BY <1>1, <1>3

\* The records heard, as a sum over the lines.
LEMMA RecordsAre == RecordsHeard = Total(Sizes, Heard)
  BY Zenon DEF RecordsHeard, Total, MapThenSumSet, MapThenFoldSet

LEMMA RecordsMore ==
    ASSUME NEW Wire, \A g \in Wire : FrameOK(g), heard \in Seq([under : Asking, frame : Wire]),
           at \in Asking, NEW f \in Wire, Hears(f)
    PROVE  /\ RecordsHeard \in Nat
           /\ RecordsHeard' = RecordsHeard
                + IF f.kind = "batch" /\ at = "parse" THEN f.body.n ELSE 0
<1>1. PICK n : n = Len(heard) + 1
  OBVIOUS
<1>2. /\ n \in Nat /\ n \notin Heard /\ Heard' = Heard \cup {n}
      /\ heard'[n] = [under |-> at, frame |-> f]
      /\ \A i \in Heard : heard'[i] = heard[i] /\ (IsBatch(i)' <=> IsBatch(i))
  BY <1>1, HeardMore
<1>3. PICK R : R = Heard
  OBVIOUS
<1>4. PICK b : b = Sizes
  OBVIOUS
<1>5. PICK d : d = Sizes'
  OBVIOUS
<1>6. \A i \in R : heard[i].frame \in Wire
  BY <1>3, HeardType
<1>7. \A g \in Wire : g.kind = "batch" => g.body.n \in Nat
  BY DEF FrameOK
<1>8. b = [i \in R |-> IF IsBatch(i) THEN heard[i].frame.body.n ELSE 0]
  BY <1>3, <1>4 DEF Sizes
<1>9. d = [i \in R \cup {n} |-> IF IsBatch(i)' THEN heard'[i].frame.body.n ELSE 0]
  BY <1>2, <1>3, <1>5 DEF Sizes
<1>10. \A i \in R : b[i] \in Nat /\ d[i] = b[i]
  <2>1. ASSUME NEW i \in R PROVE b[i] \in Nat /\ d[i] = b[i]
    <3>1. b[i] = IF IsBatch(i) THEN heard[i].frame.body.n ELSE 0
      BY <1>8, Zenon
    <3>2. d[i] = IF IsBatch(i)' THEN heard'[i].frame.body.n ELSE 0
      BY <1>9, Zenon
    <3>3. heard'[i] = heard[i] /\ (IsBatch(i)' <=> IsBatch(i))
      BY <1>2, <1>3
    <3>4. IsBatch(i) => heard[i].frame.body.n \in Nat
      BY <1>6, <1>7 DEF IsBatch
    <3> QED
      BY <3>1, <3>2, <3>3, <3>4
  <2> QED
    BY <2>1
<1>11. d[n] = (IF f.kind = "batch" /\ at = "parse" THEN f.body.n ELSE 0) /\ d[n] \in Nat
  <2>1. d[n] = IF IsBatch(n)' THEN heard'[n].frame.body.n ELSE 0
    BY <1>9
  <2>2. IsBatch(n)' <=> f.kind = "batch" /\ at = "parse"
    BY <1>2 DEF IsBatch
  <2> QED
    BY <1>2, <1>7, <2>1, <2>2
<1>12. IsFiniteSet(R) /\ IsFiniteSet(R \cup {n}) /\ R \in SUBSET (R \cup {n}) /\ n \in R \cup {n}
  <2>1. IsFiniteSet(R)
    BY <1>3, FS_Interval DEF Heard
  <2> QED
    BY <2>1, FS_AddElement
<1>13. b \in [R -> Nat] /\ d \in [R \cup {n} -> Nat]
  BY <1>8, <1>9, <1>10, <1>11
<1>14. RecordsHeard = Total(b, R) /\ RecordsHeard' = Total(d, R \cup {n})
  <2>1. RecordsHeard = Total(b, R)
    BY <1>3, <1>4, RecordsAre
  <2>2. RecordsHeard' = Total(Sizes', Heard')
    BY Zenon DEF RecordsHeard, Total, MapThenSumSet, MapThenFoldSet
  <2> QED
    BY <1>2, <1>3, <1>5, <2>1, <2>2
<1>15. Total(d, R \cup {n}) = d[n] + Total(d, R)
  BY <1>2, <1>3, <1>12, <1>13, TotalAdd
<1>16. Total(b, R) = Total(d, R)
  BY <1>10, TotalSame
<1>17. Total(b, R) \in Nat
  BY <1>12, <1>13, TotalType
<1> QED
  BY <1>11, <1>14, <1>15, <1>16, <1>17

LEMMA NoRecords == heard = <<>> => RecordsHeard = 0
<1> SUFFICES ASSUME heard = <<>> PROVE RecordsHeard = 0
  OBVIOUS
<1>1. Heard = {} /\ Sizes = [i \in {} |-> 0]
  BY DEF Heard, Sizes
<1>2. Sizes \in [{} -> Nat] /\ IsFiniteSet({})
  BY <1>1, FS_EmptySet
<1> QED
  BY <1>1, <1>2, TotalType, RecordsAre

\* A line of f is judged.
Judges(f) == JudgeLine(f) \/ JudgeNotification(f) \/ JudgeStrayAnswer(f) \/ JudgeAnswer(f)

Counts(f)  == f.kind = "batch" /\ at = "parse"
Replies(f) == f.kind = "answer" /\ f.id = Id[at]

LEMMA FoundIsBroken ==
    ASSUME NEW rule, Error(rule) \subseteq findings'
    PROVE  Broke(rule)'
<1>1. [rule |-> rule, level |-> "error"] \in findings'
  BY DEF Error
<1> QED
  BY <1>1 DEF Broke

LEMMA BrokenStays ==
    ASSUME findings \subseteq findings'
    PROVE  \A rule : Broke(rule) => Broke(rule)'
  BY Zenon DEF Broke

\* The check only goes on.
LEMMA NextIsLater ==
    ASSUME at \in Asking, NEW claimed, NEW known
    PROVE  LET s == NextStep(claimed, known) IN
           /\ s \in Asking \cup {"exit"} /\ Place < PlaceOf(s)
           /\ s = "parse" => at = "reschema"
<1>1. PICK s : s = NextStep(claimed, known)
  OBVIOUS
<1>2. s \in {"shutdown", "unload_file", After[at]}
  BY <1>1, Zenon DEF NextStep
<1>3. /\ s = "shutdown" /\ s # After[at] => at \in {"can_handle", "reload"}
      /\ s = "unload_file" /\ s # After[at] => at = "probe"
  BY <1>1 DEF NextStep
<1>4. /\ s \in Asking \cup {"exit"} /\ PlaceOf(at) < PlaceOf(s)
      /\ s = "parse" => at = "reschema"
  <2>1. CASE s = After[at]
    BY <2>1 DEF Asking, Id, After, PlaceOf, Rank
  <2>2. CASE s # After[at]
    BY <2>2, <1>2, <1>3 DEF Asking, Id, PlaceOf, Rank
  <2> QED
    BY <2>1, <2>2
<1> QED
  BY <1>1, <1>4 DEF Place

LEMMA PlacesAre ==
    /\ \A s \in Asking : PlaceOf(s) = Rank[s] /\ Rank[s] \in 1 .. 12
    /\ \A s \in {"exit", "eof", "kill", "done", "reported"} : PlaceOf(s) = 13
    /\ \A s : PlaceOf(s) \in Nat
    /\ "structure" \notin Asking /\ "reported" \notin Asking /\ "parse" \in Asking
    /\ {"exit", "eof", "kill", "done"} \cap Asking = {}
<1>1. \A s \in Asking : Rank[s] \in 1 .. 12
  BY DEF Asking, Id, Rank
<1>2. {"exit", "eof", "kill", "done", "reported", "structure"} \cap Asking = {} /\ "parse" \in Asking
  BY DEF Asking, Id
<1> QED
  BY <1>1, <1>2 DEF PlaceOf

\* What is heard under a request stays behind, and an answer to it ends it.
LEMMA JudgeMoves ==
    ASSUME NEW f, FrameOK(f), Judges(f)
    PROVE  /\ at \in Asking /\ at' \notin {"structure", "reported"}
           /\ findings \subseteq findings'
           /\ IF Replies(f) THEN Place < Place' ELSE at' = at
           /\ at' = "parse" => at \in {"reschema", "parse"}
<1>1. at \in Asking
  BY Zenon DEF Judges, JudgeLine, JudgeNotification, JudgeStrayAnswer, JudgeAnswer, Frame
<1>2. findings \subseteq findings'
  BY Zenon DEF Judges, JudgeLine, JudgeNotification, JudgeStrayAnswer, JudgeAnswer
<1>3. CASE JudgeAnswer(f)
  <2>1. f.kind = "answer" /\ f.id = Id[at]
    BY <1>3, Zenon DEF JudgeAnswer
  <2>2. \/ at' = "kill"
        \/ \E claimed, known : at' = NextStep(claimed, known)
    BY <1>3, Zenon DEF JudgeAnswer
  <2>3. CASE at' = "kill"
    BY <1>1, <1>2, <2>1, <2>3, PlacesAre DEF Place, Replies
  <2>4. CASE at' # "kill"
    <3>1. PICK claimed, known : at' = NextStep(claimed, known)
      BY <2>2, <2>4
    <3>2. PICK s : s = NextStep(claimed, known)
      OBVIOUS
    <3>3. /\ s \in Asking \cup {"exit"} /\ Place < PlaceOf(s)
          /\ s = "parse" => at = "reschema"
      BY <1>1, <3>2, NextIsLater
    <3>4. s = at' /\ Place' = PlaceOf(s)
      BY <3>1, <3>2 DEF Place
    <3> QED
      BY <1>1, <1>2, <2>1, <3>3, <3>4, PlacesAre DEF Replies
  <2> QED
    BY <2>3, <2>4
<1>4. CASE ~JudgeAnswer(f)
  <2>1. JudgeLine(f) \/ JudgeNotification(f) \/ JudgeStrayAnswer(f)
    BY <1>4 DEF Judges
  <2>2. at' = at
    BY <2>1, Zenon DEF JudgeLine, JudgeNotification, JudgeStrayAnswer
  <2>3. f.line # "json" \/ f.kind \in {"progress", "batch"} \/ f.id # Id[at]
    BY <2>1, Zenon DEF JudgeLine, JudgeNotification, JudgeStrayAnswer
  <2> QED
    BY <1>1, <1>2, <2>2, <2>3, PlacesAre DEF Replies, FrameOK
<1> QED
  BY <1>3, <1>4

\* What the check remembers of a line: the batches of the parse, its heartbeats,
\* and the metrics announced last.
Learns(f) ==
    /\ DOMAIN facts' = DOMAIN Unheard
    /\ IF Counts(f)
       THEN /\ facts'.sum = facts.sum + f.body.n
            /\ f.body.done => facts'.closed
            /\ Numbered(f) => facts'.expected = {f.body.seq + 1}
       ELSE facts'.sum = facts.sum /\ facts'.expected = facts.expected /\ facts'.closed = facts.closed
    /\ facts'.progress => facts.progress \/ (f.kind = "progress" /\ at = "parse")
    /\ at = "parse" => facts'.metrics = facts.metrics /\ facts'.valid = facts.valid
    /\ at = "reschema" /\ at' = "parse" =>
         Replies(f) /\ facts'.metrics = f.body.metrics /\ facts'.valid = f.body.valid

LEMMA JudgeLearns ==
    ASSUME NEW f, FrameOK(f), Judges(f), DOMAIN facts = DOMAIN Unheard
    PROVE  Learns(f)
<1>0. DOMAIN facts = {"metrics", "valid", "progress", "expected", "closed", "sum", "query",
                      "loadFailed", "aborted"}
  BY DEF Unheard
<1>1. CASE facts' = facts /\ at' = at /\ ~Counts(f)
  BY <1>1, Zenon DEF Learns
<1>2. CASE JudgeNotification(f) /\ at = "parse"
  <2>1. /\ f.kind \in {"progress", "batch"} /\ facts' = NotificationFacts(f) /\ at' = at
    BY <1>2, Zenon DEF JudgeNotification
  <2>2. CASE f.kind = "progress"
    <3>1. facts' = [facts EXCEPT !.progress = TRUE]
      BY <2>1, <2>2 DEF NotificationFacts
    <3>2. /\ DOMAIN facts' = DOMAIN Unheard /\ facts'.sum = facts.sum
          /\ facts'.expected = facts.expected /\ facts'.closed = facts.closed
          /\ facts'.metrics = facts.metrics /\ facts'.valid = facts.valid
      BY <1>0, <3>1
    <3> QED
      BY <1>2, <2>1, <2>2, <3>2 DEF Learns, Counts
  <2>3. CASE f.kind = "batch"
    <3>1. facts' = [facts EXCEPT !.expected = IF Numbered(f) THEN {f.body.seq + 1} ELSE @,
                                 !.closed = @ \/ f.body.done, !.sum = @ + f.body.n]
      BY <2>1, <2>3 DEF NotificationFacts
    <3>2. /\ DOMAIN facts' = DOMAIN Unheard /\ facts'.sum = facts.sum + f.body.n
          /\ facts'.expected = IF Numbered(f) THEN {f.body.seq + 1} ELSE facts.expected
          /\ facts'.progress = facts.progress
          /\ facts'.metrics = facts.metrics /\ facts'.valid = facts.valid
      BY <1>0, <3>1
    <3>3. facts'.closed = (facts.closed \/ f.body.done)
      BY <1>0, <3>1
    <3> QED
      BY <1>2, <2>1, <2>3, <3>2, <3>3 DEF Learns, Counts
  <2> QED
    BY <2>1, <2>2, <2>3
<1>3. CASE JudgeAnswer(f)
  <2>1. /\ f.kind = "answer" /\ f.id = Id[at]
        /\ facts' = [Learned(f) EXCEPT !.aborted = EndsCheck(f)]
        /\ at' = "kill" \/ ~EndsCheck(f)
    BY <1>3, Zenon DEF JudgeAnswer
  <2>2. PICK g : g = Learned(f)
    OBVIOUS
  <2>3. /\ DOMAIN g = DOMAIN facts /\ g.sum = facts.sum /\ g.expected = facts.expected
        /\ g.closed = facts.closed /\ g.progress = facts.progress
        /\ at = "parse" => g.metrics = facts.metrics /\ g.valid = facts.valid
        /\ at = "reschema" /\ ~Failed(f) /\ f.body.listed =>
             g.metrics = f.body.metrics /\ g.valid = f.body.valid
    <3>1. CASE at = "initialize" /\ ~Failed(f)
      <4>1. g = [facts EXCEPT !.query = (f.body.query = "true")]
        BY <2>2, <3>1, Zenon DEF Learned
      <4> QED
        BY <1>0, <3>1, <4>1
    <3>2. CASE at \in {"schema", "reschema"} /\ ~Failed(f) /\ f.body.listed
      <4>1. g = [facts EXCEPT !.metrics = f.body.metrics, !.valid = f.body.valid]
        BY <2>2, <3>2 DEF Learned
      <4> QED
        BY <1>0, <3>2, <4>1
    <3>3. CASE at = "load_file"
      <4>1. g = [facts EXCEPT !.loadFailed = Failed(f)]
        BY <2>2, <3>3 DEF Learned
      <4> QED
        BY <1>0, <3>3, <4>1
    <3>4. CASE /\ ~(at = "initialize" /\ ~Failed(f)) /\ at # "load_file"
               /\ ~(at \in {"schema", "reschema"} /\ ~Failed(f) /\ f.body.listed)
      <4>1. g = facts
        BY <2>2, <3>4, Zenon DEF Learned
      <4> QED
        BY <3>4, <4>1
    <3> QED
      BY <3>1, <3>2, <3>3, <3>4, Zenon
  <2>4. facts' = [g EXCEPT !.aborted = EndsCheck(f)]
    BY <2>1, <2>2
  <2>5. /\ DOMAIN facts' = DOMAIN g /\ facts'.sum = g.sum /\ facts'.expected = g.expected
        /\ facts'.closed = g.closed /\ facts'.progress = g.progress
        /\ facts'.metrics = g.metrics /\ facts'.valid = g.valid
    BY <1>0, <2>3, <2>4
  <2>6. at = "reschema" /\ at' = "parse" => ~Failed(f) /\ f.body.listed
    <3>1. at = "reschema" /\ at' = "parse" => ~EndsCheck(f)
      BY <2>1
    <3> QED
      BY <3>1 DEF EndsCheck
  <2>7. ~Counts(f) /\ Replies(f)
    BY <2>1 DEF Counts, Replies
  <2> QED
    BY <2>3, <2>5, <2>6, <2>7 DEF Learns
<1>4. CASE ~JudgeAnswer(f) /\ ~(JudgeNotification(f) /\ at = "parse")
  <2>1. JudgeLine(f) \/ JudgeStrayAnswer(f) \/ (JudgeNotification(f) /\ at # "parse")
    BY <1>4 DEF Judges
  <2>2. facts' = facts /\ at' = at
    BY <2>1, Zenon DEF JudgeLine, JudgeNotification, JudgeStrayAnswer
  <2>3. ~Counts(f)
    <3>1. f.line # "json" \/ f.kind = "answer" \/ at # "parse"
      BY <2>1, Zenon DEF JudgeLine, JudgeStrayAnswer
    <3> QED
      BY <3>1 DEF Counts, FrameOK
  <2> QED
    BY <1>1, <2>2, <2>3
<1> QED
  BY <1>2, <1>3, <1>4

\* What a line breaks is found.
Finds(f) ==
    /\ f.line # "json" => Broke("BEH-05")' \/ Broke("BEH-08")' \/ Broke("BEH-09")'
    /\ f.kind = "answer" /\ ~Replies(f) => Broke("BEH-02")'
    /\ Counts(f) =>
         /\ Broke("BEH-06")' \/
              (Numbered(f) /\ facts.expected \in {{}, {f.body.seq}} /\ ~facts.closed)
         /\ f.body.n > 0 => Broke("BEH-05")' \/ ~facts.valid \/ Declared(f)
    /\ Replies(f) /\ at = "reschema" => Broke("BEH-03")' \/ f.body.valid
    /\ Replies(f) /\ at = "parse" /\ ~Failed(f) =>
         /\ Broke("BEH-04")' \/ facts.progress
         /\ Broke("BEH-06")' \/ f.body.total = facts.sum

LEMMA JudgeFinds ==
    ASSUME NEW f, FrameOK(f), Judges(f)
    PROVE  Finds(f)
<1>1. CASE JudgeLine(f)
  <2>1. f.line # "json" /\ f.line \in Lines /\ f.kind = "noise"
    BY <1>1, Zenon DEF JudgeLine, FrameOK
  <2>2. LineFindings(f) \subseteq findings'
    BY <1>1, Zenon DEF JudgeLine
  <2>3. LineFindings(f) \in {Error("BEH-08"), Error("BEH-09"), Error("BEH-05")}
    BY <2>1 DEF LineFindings, Lines
  <2>4. Broke("BEH-05")' \/ Broke("BEH-08")' \/ Broke("BEH-09")'
    <3>1. \/ Error("BEH-08") \subseteq findings' \/ Error("BEH-09") \subseteq findings'
          \/ Error("BEH-05") \subseteq findings'
      BY <2>2, <2>3, Zenon
    <3> QED
      BY <3>1, FoundIsBroken
  <2> QED
    BY <2>1, <2>4 DEF Finds, Replies, Counts
<1>2. CASE JudgeNotification(f)
  <2>1. /\ f.kind \in {"progress", "batch"} /\ SchemaFindings(f) \subseteq findings'
        /\ When(at = "parse" /\ f.kind = "batch", BatchFindings(f)) \subseteq findings'
    BY <1>2, Zenon DEF JudgeNotification
  <2>2. f.line = "json"
    BY <2>1 DEF FrameOK
  <2>3. ASSUME Counts(f)
        PROVE  /\ Broke("BEH-06")' \/
                    (Numbered(f) /\ facts.expected \in {{}, {f.body.seq}} /\ ~facts.closed)
               /\ f.body.n > 0 => Broke("BEH-05")' \/ ~facts.valid \/ Declared(f)
    <3>1. BatchFindings(f) \subseteq findings' /\ SchemaFindings(f) \subseteq findings'
      BY <2>1, <2>3 DEF Counts, When
    <3>2. CASE f.body.shape = "seq"
      <4>1. SchemaFindings(f) = Error("BEH-06")
        BY <2>3, <3>2 DEF SchemaFindings, Counts
      <4>2. Broke("BEH-06")'
        BY <3>1, <4>1, FoundIsBroken
      <4>3. f.body.n > 0 /\ facts.valid /\ ~Declared(f) => Error("BEH-05") \subseteq findings'
        BY <3>1, <3>2 DEF BatchFindings, When
      <4>4. f.body.n > 0 => Broke("BEH-05")' \/ ~facts.valid \/ Declared(f)
        BY <4>3, FoundIsBroken, Zenon
      <4> QED
        BY <4>2, <4>4, Zenon
    <3>3. CASE f.body.shape # "seq"
      <4>1. Numbered(f)
        BY <3>3 DEF Numbered
      <4>2. facts.expected \notin {{}, {f.body.seq}} \/ facts.closed =>
              Error("BEH-06") \subseteq findings'
        BY <3>1, <4>1 DEF BatchFindings, When
      <4>3. f.body.n > 0 /\ f.body.shape # "record" /\ facts.valid /\ ~Declared(f) =>
              Error("BEH-05") \subseteq findings'
        BY <3>1 DEF BatchFindings, When
      <4>4. f.body.shape = "record" => Error("BEH-05") \subseteq findings'
        BY <2>3, <3>1 DEF SchemaFindings, Counts
      <4>5. Broke("BEH-06")' \/ (facts.expected \in {{}, {f.body.seq}} /\ ~facts.closed)
        BY <4>2, FoundIsBroken, Zenon
      <4>6. f.body.n > 0 => Broke("BEH-05")' \/ ~facts.valid \/ Declared(f)
        BY <4>3, <4>4, FoundIsBroken, Zenon
      <4> QED
        BY <4>1, <4>5, <4>6, Zenon
    <3> QED
      BY <3>2, <3>3
  <2> QED
    BY <2>1, <2>2, <2>3 DEF Finds, Replies
<1>3. CASE JudgeStrayAnswer(f)
  <2>1. f.kind = "answer" /\ f.id # Id[at] /\ Error("BEH-02") \subseteq findings'
    BY <1>3, Zenon DEF JudgeStrayAnswer
  <2>2. Broke("BEH-02")'
    BY <2>1, FoundIsBroken
  <2> QED
    BY <2>1, <2>2 DEF Finds, Replies, Counts, FrameOK
<1>4. CASE JudgeAnswer(f)
  <2>1. f.kind = "answer" /\ f.id = Id[at] /\ AnswerFindings(f) \subseteq findings'
    BY <1>4, Zenon DEF JudgeAnswer
  <2>2. ASSUME at = "reschema" PROVE Broke("BEH-03")' \/ f.body.valid
    <3>1. AnswerFindings(f) = SchemaAnswerFindings(f)
      BY <2>2 DEF AnswerFindings
    <3>2. ~f.body.valid => Error("BEH-03") \subseteq findings'
      BY <2>1, <3>1, Zenon DEF SchemaAnswerFindings, When
    <3> QED
      BY <3>2, FoundIsBroken, Zenon
  <2>3. ASSUME at = "parse", ~Failed(f)
        PROVE  /\ Broke("BEH-04")' \/ facts.progress
               /\ Broke("BEH-06")' \/ f.body.total = facts.sum
    <3>1. AnswerFindings(f) = ParseFindings(f)
      BY <2>3 DEF AnswerFindings
    <3>2. ~facts.progress => Error("BEH-04") \subseteq findings'
      BY <2>1, <2>3, <3>1, Zenon DEF ParseFindings, When
    <3>3. f.body.total # facts.sum => Error("BEH-06") \subseteq findings'
      BY <2>1, <2>3, <3>1, Zenon DEF ParseFindings, When
    <3> QED
      BY <3>2, <3>3, FoundIsBroken, Zenon
  <2> QED
    BY <2>1, <2>2, <2>3 DEF Finds, Replies, Counts, FrameOK
<1> QED
  BY <1>1, <1>2, <1>3, <1>4 DEF Judges

\* What was heard under a request that was answered lies behind.
LEMMA PlaceKept ==
    ASSUME NEW Wire, \A g \in Wire : FrameOK(g), PlaceInv(Wire),
           NEW f \in Wire, Judges(f), Hears(f)
    PROVE  PlaceInv(Wire)'
<1>1. PICK n : n = Len(heard) + 1
  OBVIOUS
<1>2. /\ at \in Asking /\ at' # "structure" /\ findings \subseteq findings'
      /\ IF Replies(f) THEN Place < Place' ELSE at' = at
  BY JudgeMoves
<1>3. /\ heard' \in Seq([under : Asking, frame : Wire]) /\ Heard' = Heard \cup {n}
      /\ heard'[n] = [under |-> at, frame |-> f]
      /\ \A i \in Heard : heard'[i] = heard[i] /\ (IsAnswer(i)' <=> IsAnswer(i))
  BY <1>1, <1>2, HeardMore DEF PlaceInv
<1>4. /\ Place = Rank[at] /\ Place \in Nat /\ Place' \in Nat /\ Place <= Place'
      /\ \A i \in Heard : Rank[heard[i].under] \in Nat
  <2>1. Place = Rank[at] /\ Place \in Nat /\ Place' \in Nat
    BY <1>2, PlacesAre DEF Place
  <2>2. at' = at => Place' = Place
    BY DEF Place
  <2>3. \A i \in Heard : Rank[heard[i].under] \in Nat
    BY HeardType, PlacesAre DEF PlaceInv
  <2> QED
    BY <1>2, <2>1, <2>2, <2>3
<1>5. ASSUME NEW i \in Heard' PROVE Rank[heard'[i].under] <= Place'
  BY <1>3, <1>4 DEF PlaceInv
<1>6. ASSUME NEW i \in Heard', IsAnswer(i)'
      PROVE  Broke("BEH-02")' \/ Rank[heard'[i].under] < Place'
  <2>1. CASE i \in Heard
    <3>1. Broke("BEH-02") \/ Rank[heard[i].under] < Place
      BY <1>3, <1>6, <2>1 DEF PlaceInv
    <3>2. Broke("BEH-02") => Broke("BEH-02")'
      BY <1>2, BrokenStays
    <3> QED
      BY <1>3, <1>4, <2>1, <3>1, <3>2
  <2>2. CASE i = n
    <3>1. f.kind = "answer"
      BY <1>3, <1>6, <2>2 DEF IsAnswer
    <3>2. ~Replies(f) => Broke("BEH-02")'
      BY <3>1, JudgeFinds DEF Finds
    <3> QED
      BY <1>2, <1>3, <1>4, <2>2, <3>2
  <2> QED
    BY <1>3, <2>1, <2>2
<1> QED
  BY <1>2, <1>3, <1>5, <1>6 DEF PlaceInv

LEMMA RememberedKept ==
    ASSUME NEW Wire, \A g \in Wire : FrameOK(g), PlaceInv(Wire), Remembered,
           NEW f \in Wire, Judges(f), Hears(f)
    PROVE  Remembered'
<1>1. PICK n : n = Len(heard) + 1
  OBVIOUS
<1>2. /\ at \in Asking /\ findings \subseteq findings'
      /\ at' = "parse" => at \in {"reschema", "parse"}
  BY JudgeMoves
<1>3. /\ n \in Nat /\ n \notin Heard /\ Heard' = Heard \cup {n}
      /\ heard'[n] = [under |-> at, frame |-> f]
      /\ \A i \in Heard :
           /\ i \in Nat /\ i < n /\ heard'[i] = heard[i]
           /\ IsBatch(i)' <=> IsBatch(i)
           /\ IsBeat(i)' <=> IsBeat(i)
           /\ Announces(i)' <=> Announces(i)
  BY <1>1, <1>2, HeardMore DEF PlaceInv
<1>4. Learns(f) /\ Finds(f)
  BY JudgeLearns, JudgeFinds DEF Remembered
<1>5. facts'.sum = RecordsHeard'
  <2>1. /\ RecordsHeard \in Nat
        /\ RecordsHeard' = RecordsHeard + IF Counts(f) THEN f.body.n ELSE 0
    BY <1>2, RecordsMore DEF PlaceInv, Counts
  <2> QED
    BY <1>4, <2>1 DEF Learns, Remembered
<1>6. facts'.progress => \E k \in Heard' : IsBeat(k)'
  <2>1. ASSUME facts.progress PROVE \E k \in Heard' : IsBeat(k)'
    <3>1. PICK k \in Heard : IsBeat(k)
      BY <2>1, Zenon DEF Remembered
    <3> QED
      BY <1>3, <3>1
  <2>2. ASSUME f.kind = "progress", at = "parse" PROVE \E k \in Heard' : IsBeat(k)'
    <3>1. IsBeat(n)' /\ n \in Heard'
      BY <1>3, <2>2 DEF IsBeat
    <3> QED
      BY <3>1
  <2> QED
    BY <1>4, <2>1, <2>2 DEF Learns
<1>7. Broke("BEH-06")' \/
        IF \E i \in Heard' : IsBatch(i)'
        THEN \E i \in Heard' : /\ Newest(i)'
                               /\ facts'.expected = {heard'[i].frame.body.seq + 1}
                               /\ heard'[i].frame.body.done => facts'.closed
        ELSE facts'.expected = {}
  <2>1. CASE Counts(f)
    <3>1. IsBatch(n)' /\ n \in Heard'
      BY <1>3, <2>1 DEF IsBatch, Counts
    <3>2. Newest(n)'
      BY <1>3, <3>1 DEF Newest
    <3>3. /\ Broke("BEH-06")' \/ facts'.expected = {heard'[n].frame.body.seq + 1}
          /\ heard'[n].frame.body.done => facts'.closed
      BY <1>3, <1>4, <2>1 DEF Learns, Finds
    <3> QED
      BY <3>1, <3>2, <3>3, Zenon
  <2>2. CASE ~Counts(f)
    <3>1. ~IsBatch(n)'
      BY <1>3, <2>2 DEF IsBatch, Counts
    <3>2. facts'.expected = facts.expected /\ facts'.closed = facts.closed
      BY <1>4, <2>2 DEF Learns
    <3>3. Broke("BEH-06") => Broke("BEH-06")'
      BY <1>2, BrokenStays
    <3>4. CASE \E i \in Heard : IsBatch(i)
      <4>1. Broke("BEH-06") \/ \E i \in Heard :
              /\ Newest(i) /\ facts.expected = {heard[i].frame.body.seq + 1}
              /\ heard[i].frame.body.done => facts.closed
        BY <3>4, Zenon DEF Remembered
      <4>2. CASE ~Broke("BEH-06")
        <5>1. PICK i \in Heard : /\ Newest(i) /\ facts.expected = {heard[i].frame.body.seq + 1}
                                 /\ heard[i].frame.body.done => facts.closed
          BY <4>1, <4>2
        <5>2. Newest(i)' /\ i \in Heard'
          BY <1>3, <3>1, <5>1 DEF Newest
        <5>3. facts'.expected = {heard'[i].frame.body.seq + 1}
          BY <1>3, <3>2, <5>1
        <5>4. heard'[i].frame.body.done => facts'.closed
          BY <1>3, <3>2, <5>1
        <5>5. \E k \in Heard' : IsBatch(k)'
          BY <5>2, Zenon DEF Newest
        <5> QED
          BY <5>2, <5>3, <5>4, <5>5, Zenon
      <4> QED
        BY <3>3, <4>2
    <3>5. CASE ~\E i \in Heard : IsBatch(i)
      <4>1. ~\E i \in Heard' : IsBatch(i)'
        BY <1>3, <3>1, <3>5
      <4>2. Broke("BEH-06") \/ facts.expected = {}
        BY <3>5, Zenon DEF Remembered
      <4> QED
        BY <3>2, <3>3, <4>1, <4>2
    <3> QED
      BY <3>4, <3>5
  <2> QED
    BY <2>1, <2>2
<1>8. ASSUME at' = "parse"
      PROVE  /\ Broke("BEH-03")' \/ facts'.valid
             /\ \E k \in Heard' : Announces(k)' /\ facts'.metrics = heard'[k].frame.body.metrics
  <2>1. CASE at = "parse"
    <3>1. facts'.metrics = facts.metrics /\ facts'.valid = facts.valid
      BY <1>4, <2>1 DEF Learns
    <3>2. PICK k \in Heard : Announces(k) /\ facts.metrics = heard[k].frame.body.metrics
      BY <2>1, Zenon DEF Remembered
    <3>3. Broke("BEH-03") \/ facts.valid
      BY <2>1, Zenon DEF Remembered
    <3>4. Broke("BEH-03") => Broke("BEH-03")'
      BY <1>2, BrokenStays
    <3>5. Announces(k)' /\ facts'.metrics = heard'[k].frame.body.metrics /\ k \in Heard'
      BY <1>3, <3>1, <3>2
    <3>6. facts.valid => facts'.valid
      BY <3>1
    <3> QED
      BY <3>3, <3>4, <3>5, <3>6, Zenon
  <2>2. CASE at = "reschema"
    <3>1. Replies(f) /\ facts'.metrics = f.body.metrics /\ facts'.valid = f.body.valid
      BY <1>4, <1>8, <2>2 DEF Learns
    <3>2. Broke("BEH-03")' \/ f.body.valid
      BY <1>4, <2>2, <3>1 DEF Finds
    <3>3. n \in Heard' /\ heard'[n].frame = f /\ heard'[n].under = "reschema"
      BY <1>3, <2>2
    <3>4. Announces(n)'
      BY <2>2, <3>1, <3>3 DEF Announces, IsAnswer, Replies
    <3>5. f.body.valid => facts'.valid
      BY <3>1
    <3> QED
      BY <3>1, <3>2, <3>3, <3>4, <3>5, Zenon
  <2> QED
    BY <1>2, <1>8, <2>1, <2>2
<1> QED
  BY <1>4, <1>5, <1>6, <1>7, <1>8, Zenon DEF Remembered, Learns

LEMMA JudgedKept ==
    ASSUME NEW Wire, \A g \in Wire : FrameOK(g), PlaceInv(Wire), Remembered, Judged,
           NEW f \in Wire, Judges(f), Hears(f)
    PROVE  Judged'
<1>1. PICK n : n = Len(heard) + 1
  OBVIOUS
<1>2. at \in Asking /\ findings \subseteq findings'
  BY JudgeMoves
<1>3. /\ n \in Nat /\ n \notin Heard /\ Heard' = Heard \cup {n}
      /\ heard'[n] = [under |-> at, frame |-> f]
      /\ \A i \in Heard :
           /\ i \in Nat /\ i < n /\ heard'[i] = heard[i]
           /\ IsAnswer(i)' <=> IsAnswer(i)
           /\ IsBatch(i)' <=> IsBatch(i)
           /\ IsBeat(i)' <=> IsBeat(i)
           /\ Announces(i)' <=> Announces(i)
  BY <1>1, <1>2, HeardMore DEF PlaceInv
<1>4. Finds(f)
  BY JudgeFinds
<1>5. \A rule : Broke(rule) => Broke(rule)'
  BY <1>2, BrokenStays
<1>6. /\ heard'[n].frame = f /\ heard'[n].under = at /\ n \in Heard'
      /\ IsAnswer(n)' <=> f.kind = "answer"
      /\ IsBatch(n)' <=> Counts(f)
  BY <1>3 DEF IsAnswer, IsBatch, Counts
<1>7. \A i \in Heard' : i \in Heard \/ i = n
  BY <1>3
<1>10. AllFrames' \/ Broke("BEH-05")' \/ Broke("BEH-08")' \/ Broke("BEH-09")'
  <2>1. AllFrames /\ f.line = "json" => AllFrames'
    BY <1>3, <1>6, <1>7 DEF AllFrames
  <2>2. f.line # "json" => Broke("BEH-05")' \/ Broke("BEH-08")' \/ Broke("BEH-09")'
    BY <1>4, Zenon DEF Finds
  <2>3. AllFrames \/ Broke("BEH-05") \/ Broke("BEH-08") \/ Broke("BEH-09")
    BY Zenon DEF Judged
  <2> QED
    BY <1>5, <2>1, <2>2, <2>3, Zenon
<1>11. InTurn' \/ Broke("BEH-02")'
  <2> SUFFICES ASSUME ~Broke("BEH-02")' PROVE InTurn'
    OBVIOUS
  <2>1. ~Broke("BEH-02") /\ InTurn
    BY <1>5, Zenon DEF Judged
  <2>2. f.kind = "answer" => f.id = Id[at]
    BY <1>4 DEF Finds, Replies
  <2>3. \A i \in Heard : IsAnswer(i) => Rank[heard[i].under] < Rank[at]
    <3>1. Place = Rank[at]
      BY <1>2, PlacesAre DEF Place
    <3> QED
      BY <2>1, <3>1 DEF PlaceInv
  <2>4. ASSUME NEW i \in Heard', IsAnswer(i)'
        PROVE  heard'[i].frame.id = Id[heard'[i].under]
    <3>1. CASE i \in Heard
      BY <1>3, <2>1, <2>4, <3>1 DEF InTurn
    <3>2. CASE i = n
      BY <1>6, <2>2, <2>4, <3>2
    <3> QED
      BY <1>7, <3>1, <3>2
  <2>5. ASSUME NEW i \in Heard', NEW j \in Heard', i < j, IsAnswer(i)', IsAnswer(j)'
        PROVE  Rank[heard'[i].under] < Rank[heard'[j].under]
    <3>1. i \in Heard
      BY <1>3, <1>7, <2>5
    <3>2. CASE j \in Heard
      BY <1>3, <2>1, <2>5, <3>1, <3>2 DEF InTurn
    <3>3. CASE j = n
      BY <1>3, <1>6, <2>3, <2>5, <3>1, <3>3
    <3> QED
      BY <1>7, <3>2, <3>3
  <2> QED
    BY <2>4, <2>5 DEF InTurn
<1>12. Gapless' \/ Broke("BEH-06")'
  <2> SUFFICES ASSUME ~Broke("BEH-06")' PROVE Gapless'
    OBVIOUS
  <2>1. ~Broke("BEH-06") /\ Gapless
    BY <1>5, Zenon DEF Judged
  <2>2. ASSUME NEW i \in Heard', NEW j \in Heard', NextBatch(i, j)'
        PROVE  /\ heard'[j].frame.body.seq = heard'[i].frame.body.seq + 1
               /\ ~heard'[i].frame.body.done
    <3>1. /\ i < j /\ IsBatch(i)' /\ IsBatch(j)'
          /\ \A k \in Heard' : i < k /\ k < j => ~IsBatch(k)'
      BY <2>2 DEF NextBatch
    <3>2. i \in Heard /\ heard'[i] = heard[i] /\ IsBatch(i)
      BY <1>3, <1>7, <3>1
    <3>3. CASE j \in Heard
      <4>1. NextBatch(i, j)
        BY <1>3, <3>1, <3>2, <3>3 DEF NextBatch
      <4> QED
        BY <1>3, <2>1, <3>2, <3>3, <4>1 DEF Gapless
    <3>4. CASE j = n
      <4>1. Counts(f)
        BY <1>6, <3>1, <3>4
      <4>2. PICK m \in Heard : /\ Newest(m) /\ facts.expected = {heard[m].frame.body.seq + 1}
                               /\ heard[m].frame.body.done => facts.closed
        BY <2>1, <3>2, Zenon DEF Remembered
      <4>3. IsBatch(m) /\ i <= m
        BY <3>2, <4>2 DEF Newest
      <4>4. m = i
        BY <1>3, <3>1, <3>2, <3>4, <4>3
      <4>5. facts.expected \in {{}, {f.body.seq}} /\ ~facts.closed
        BY <1>4, <4>1 DEF Finds
      <4>6. f.body.seq = heard[m].frame.body.seq + 1 /\ ~heard[m].frame.body.done
        BY <4>2, <4>5
      <4> QED
        BY <1>6, <3>2, <3>4, <4>4, <4>6
    <3> QED
      BY <1>7, <3>3, <3>4
  <2> QED
    BY <2>2 DEF Gapless
<1>13. Announced' \/ Broke("BEH-03")' \/ Broke("BEH-05")'
  <2> SUFFICES ASSUME ~Broke("BEH-03")', ~Broke("BEH-05")' PROVE Announced'
    OBVIOUS
  <2>1. ~Broke("BEH-03") /\ ~Broke("BEH-05") /\ Announced
    BY <1>5, Zenon DEF Judged
  <2>2. ASSUME NEW i \in Heard', IsBatch(i)', heard'[i].frame.body.n > 0
        PROVE  \E k \in Heard' : /\ k < i /\ Announces(k)'
                                 /\ heard'[i].frame.body.metric \in heard'[k].frame.body.metrics
    <3>1. CASE i \in Heard
      <4>1. heard'[i] = heard[i] /\ IsBatch(i) /\ heard[i].frame.body.n > 0
        BY <1>3, <2>2, <3>1
      <4>2. PICK k \in Heard : /\ k < i /\ Announces(k)
                               /\ heard[i].frame.body.metric \in heard[k].frame.body.metrics
        BY <2>1, <3>1, <4>1 DEF Announced
      <4> QED
        BY <1>3, <4>1, <4>2
    <3>2. CASE i = n
      <4>1. Counts(f) /\ f.body.n > 0
        BY <1>6, <2>2, <3>2
      <4>2. at = "parse"
        BY <4>1 DEF Counts
      <4>3. facts.valid
        BY <2>1, <4>2, Zenon DEF Remembered
      <4>4. Declared(f)
        BY <1>4, <4>1, <4>3, Zenon DEF Finds
      <4>5. PICK k \in Heard : Announces(k) /\ facts.metrics = heard[k].frame.body.metrics
        BY <4>2, Zenon DEF Remembered
      <4>6. f.body.metric \in heard[k].frame.body.metrics
        BY <4>4, <4>5 DEF Declared
      <4> QED
        BY <1>3, <1>6, <3>2, <4>5, <4>6
    <3> QED
      BY <1>7, <3>1, <3>2
  <2> QED
    BY <2>2 DEF Announced
<1>14. TotalTold' \/ Broke("BEH-02")' \/ Broke("BEH-04")' \/ Broke("BEH-06")'
  <2> SUFFICES ASSUME ~Broke("BEH-02")', ~Broke("BEH-04")', ~Broke("BEH-06")' PROVE TotalTold'
    OBVIOUS
  <2>1. ~Broke("BEH-02") /\ ~Broke("BEH-04") /\ ~Broke("BEH-06") /\ TotalTold
    BY <1>5, Zenon DEF Judged
  <2>2. /\ RecordsHeard \in Nat
        /\ RecordsHeard' = RecordsHeard + IF Counts(f) THEN f.body.n ELSE 0
    BY <1>2, RecordsMore DEF PlaceInv, Counts
  <2>3. ASSUME NEW i \in Heard', IsAnswer(i)', heard'[i].under = "parse", ~Failed(heard'[i].frame)
        PROVE  /\ \E k \in Heard' : IsBeat(k)'
               /\ heard'[i].frame.body.total = RecordsHeard'
    <3>1. ASSUME \E k \in Heard : IsBeat(k) PROVE \E k \in Heard' : IsBeat(k)'
      BY <1>3, <3>1
    <3>2. CASE i \in Heard
      <4>1. heard'[i] = heard[i] /\ IsAnswer(i)
        BY <1>3, <2>3, <3>2
      <4>2. /\ \E k \in Heard : IsBeat(k)
            /\ heard[i].frame.body.total = RecordsHeard
        BY <2>1, <2>3, <3>2, <4>1 DEF TotalTold
      <4>3. Rank["parse"] < Rank[at]
        <5>1. Place = Rank[at]
          BY <1>2, PlacesAre DEF Place
        <5> QED
          BY <2>1, <2>3, <3>2, <4>1, <5>1 DEF PlaceInv
      <4>4. at # "parse"
        BY <4>3, PlacesAre
      <4> QED
        BY <2>2, <3>1, <4>1, <4>2, <4>4 DEF Counts
    <3>3. CASE i = n
      <4>1. f.kind = "answer" /\ at = "parse" /\ ~Failed(f)
        BY <1>6, <2>3, <3>3
      <4>2. Replies(f)
        BY <1>4, <4>1 DEF Finds
      <4>3. facts.progress /\ f.body.total = facts.sum
        BY <1>4, <2>1, <4>1, <4>2, Zenon DEF Finds
      <4>4. (\E k \in Heard : IsBeat(k)) /\ facts.sum = RecordsHeard
        BY <4>3, Zenon DEF Remembered
      <4>5. ~Counts(f)
        BY <4>1 DEF Counts
      <4> QED
        BY <1>6, <2>2, <3>1, <3>3, <4>3, <4>4, <4>5
    <3> QED
      BY <1>7, <3>2, <3>3
  <2> QED
    BY <2>3 DEF TotalTold, Failed
<1> QED
  BY <1>10, <1>11, <1>12, <1>13, <1>14 DEF Judged

\* A step without a line: nothing of what is remembered of the lines changes.
Unheeding ==
    /\ heard' = heard
    /\ findings \subseteq findings' /\ Place <= Place'
    /\ at' = "structure" => at = "structure" /\ findings' = findings
    /\ at' = "parse" => at = "parse"
    /\ DOMAIN facts' = DOMAIN facts
    /\ facts'.sum = facts.sum /\ facts'.expected = facts.expected /\ facts'.closed = facts.closed
    /\ facts'.progress = facts.progress
    /\ facts'.metrics = facts.metrics /\ facts'.valid = facts.valid

LEMMA UnheedingKeeps ==
    ASSUME NEW Wire, PlaceInv(Wire), Remembered, Judged, Unheeding
    PROVE  PlaceInv(Wire)' /\ Remembered' /\ Judged'
<1>1. /\ heard' = heard /\ Heard' = Heard
      /\ \A rule : Broke(rule) => Broke(rule)'
  BY BrokenStays DEF Unheeding, Heard
<1>2. \A i : /\ IsAnswer(i)' <=> IsAnswer(i)
             /\ IsBatch(i)' <=> IsBatch(i)
             /\ IsBeat(i)' <=> IsBeat(i)
             /\ Announces(i)' <=> Announces(i)
  BY <1>1 DEF IsAnswer, IsBatch, IsBeat, Announces
<1>3. RecordsHeard' = RecordsHeard
  <2>1. RecordsHeard' = Total(Sizes', Heard')
    BY Zenon DEF RecordsHeard, Total, MapThenSumSet, MapThenFoldSet
  <2>2. Sizes' = Sizes
    BY <1>1, <1>2 DEF Sizes
  <2> QED
    BY <1>1, <2>1, <2>2, RecordsAre
<1>4. PlaceInv(Wire)'
  <2>1. \A s : PlaceOf(s) \in Nat
    BY PlacesAre
  <2>2. Place \in Nat /\ Place' \in Nat /\ Place <= Place'
    BY <2>1 DEF Place, Unheeding
  <2>3. \A i \in Heard : Rank[heard[i].under] \in Nat
    BY HeardType, PlacesAre DEF PlaceInv
  <2>4. ASSUME NEW i \in Heard
        PROVE  /\ Rank[heard[i].under] <= Place'
               /\ IsAnswer(i)' => Broke("BEH-02")' \/ Rank[heard[i].under] < Place'
    BY <1>1, <1>2, <2>2, <2>3 DEF PlaceInv
  <2> QED
    BY <1>1, <2>4 DEF PlaceInv, Unheeding
<1>5. Remembered'
  <2>1. facts'.sum = RecordsHeard' /\ (facts'.progress => \E k \in Heard' : IsBeat(k)')
    BY <1>1, <1>2, <1>3 DEF Remembered, Unheeding
  <2>2. Broke("BEH-06")' \/
          IF \E i \in Heard' : IsBatch(i)'
          THEN \E i \in Heard' : /\ Newest(i)'
                                 /\ facts'.expected = {heard'[i].frame.body.seq + 1}
                                 /\ heard'[i].frame.body.done => facts'.closed
          ELSE facts'.expected = {}
    <3>1. \A i : Newest(i)' <=> Newest(i)
      BY <1>1, <1>2 DEF Newest
    <3> QED
      BY <1>1, <1>2, <3>1 DEF Remembered, Unheeding
  <2>3. at' = "parse" =>
          /\ Broke("BEH-03")' \/ facts'.valid
          /\ \E k \in Heard' : Announces(k)' /\ facts'.metrics = heard'[k].frame.body.metrics
    BY <1>1, <1>2 DEF Remembered, Unheeding
  <2> QED
    BY <2>1, <2>2, <2>3 DEF Remembered, Unheeding
<1>6. Judged'
  <2>1. AllFrames' <=> AllFrames
    BY <1>1 DEF AllFrames
  <2>2. InTurn' <=> InTurn
    BY <1>1, <1>2 DEF InTurn
  <2>3. Gapless' <=> Gapless
    BY <1>1, <1>2 DEF Gapless, NextBatch
  <2>4. Announced' <=> Announced
    BY <1>1, <1>2 DEF Announced
  <2>5. TotalTold' <=> TotalTold
    BY <1>1, <1>2, <1>3 DEF TotalTold, Failed
  <2> QED
    BY <1>1, <2>1, <2>2, <2>3, <2>4, <2>5, Zenon DEF Judged
<1> QED
  BY <1>4, <1>5, <1>6

\* An unanswered request, or a stage after the requests.
LEMMA UnheedingStep ==
    ASSUME NEW file, CheckNext(file), ~Judge, DOMAIN facts = DOMAIN Unheard
    PROVE  /\ heard' = heard => Unheeding
           /\ stdout' = stdout /\ at # "reported" /\ at' # "reported"
<1>0. DOMAIN facts = {"metrics", "valid", "progress", "expected", "closed", "sum", "query",
                      "loadFailed", "aborted"}
  BY DEF Unheard
<1>1. at # "structure" /\ at' # "structure" /\ findings \subseteq findings'
  BY ReplayAdds
<1>2. Place \in Nat
  BY PlacesAre DEF Place
<1>3. CASE Ask(file)
  <2>1. at' = at /\ at \in Asking /\ facts' = facts /\ stdout' = stdout
    BY <1>3, Zenon DEF Ask
  <2> QED
    BY <1>1, <1>2, <2>1, PlacesAre DEF Unheeding, Place
<1>4. CASE WatchdogRunsOut \/ WaitIsOver
  <2>1. at \in Asking /\ Silence
    BY <1>4, Zenon DEF WatchdogRunsOut, WaitIsOver
  <2>2. PICK ends : ends = (GivesUp /\ at \notin {"unload_file", "shutdown", "probe", "unknown"})
    OBVIOUS
  <2>3. PICK known : known = [facts EXCEPT !.loadFailed = @ \/ at = "load_file", !.aborted = ends]
    OBVIOUS
  <2>4. facts' = known /\ stdout' = stdout
    BY <2>1, <2>2, <2>3 DEF Silence, pipes
  <2>5. /\ DOMAIN facts' = DOMAIN facts
        /\ facts'.sum = facts.sum /\ facts'.expected = facts.expected
        /\ facts'.closed = facts.closed /\ facts'.progress = facts.progress
        /\ facts'.metrics = facts.metrics /\ facts'.valid = facts.valid
    BY <1>0, <2>3, <2>4
  <2>6. /\ at = "reschema" => at' = "kill"
        /\ \/ at' = "kill"
           \/ at = "probe" /\ at' = "unload_file"
           \/ \E claimed : at' = NextStep(claimed, known)
    BY <2>1, <2>2, <2>3 DEF Silence, GivesUp
  <2>7. at' \in Asking \cup {"kill", "exit"} /\ Place <= Place' /\ (at' = "parse" => at = "parse")
    <3>1. CASE at' = "kill"
      BY <2>1, <3>1, PlacesAre DEF Place
    <3>2. CASE at = "probe" /\ at' = "unload_file"
      BY <3>2 DEF Place, PlaceOf, Rank, Asking, Id
    <3>3. CASE at # "reschema" /\ \E claimed : at' = NextStep(claimed, known)
      <4>1. PICK claimed : at' = NextStep(claimed, known)
        BY <3>3
      <4>2. PICK s : s = NextStep(claimed, known)
        OBVIOUS
      <4>3. /\ s \in Asking \cup {"exit"} /\ Place < PlaceOf(s)
            /\ s = "parse" => at = "reschema"
        BY <2>1, <4>2, NextIsLater
      <4>4. s = at' /\ Place' = PlaceOf(s) /\ PlaceOf(s) \in Nat
        BY <4>1, <4>2, PlacesAre DEF Place
      <4> QED
        BY <1>2, <3>3, <4>3, <4>4
    <3> QED
      BY <2>6, <3>1, <3>2, <3>3
  <2> QED
    BY <1>1, <2>1, <2>4, <2>5, <2>7, PlacesAre DEF Unheeding
<1>5. CASE AwaitExit \/ AwaitEof \/ Kill
  <2>1. at \in {"exit", "eof", "kill"} /\ at' \in {"eof", "kill", "done"} /\ facts' = facts
    BY <1>5, Zenon DEF AwaitExit, AwaitEof, Kill
  <2>2. stdout' = stdout
    BY <1>5, Zenon DEF AwaitExit, AwaitEof, Kill, pipes
  <2>3. Place = 13 /\ Place' = 13
    BY <2>1, PlacesAre DEF Place
  <2> QED
    BY <1>1, <2>1, <2>2, <2>3 DEF Unheeding
<1> QED
  BY <1>3, <1>4, <1>5, Zenon DEF CheckNext

\* What is heard follows the pipe: a line judged is taken from it.
LEMMA JudgedIsHeard ==
    ASSUME NEW Wire, stdout \in Seq(Wire), Judge,
           heard' = IF stdout' = stdout THEN heard
                    ELSE Append(heard, [under |-> at, frame |-> Head(stdout)])
    PROVE  \E f \in Wire : Judges(f) /\ Hears(f)
<1>1. PICK f : f = Head(stdout)
  OBVIOUS
<1>2. Judges(f) /\ stdout # <<>>
  BY <1>1, Zenon DEF Judge, Judges
<1>3. stdout' = Tail(stdout)
  BY <1>2, Zenon DEF Judges, JudgeLine, JudgeNotification, JudgeStrayAnswer, JudgeAnswer, Frame
<1>4. f \in Wire /\ Len(Tail(stdout)) = Len(stdout) - 1 /\ Len(stdout) \in Nat
  BY <1>1, <1>2, TailIs
<1>5. stdout' # stdout
  BY <1>3, <1>4
<1> QED
  BY <1>1, <1>2, <1>4, <1>5 DEF Hears

\* The first steps and the last judge no line.
LEMMA OtherStages ==
    ASSUME NEW Wire, PlaceInv(Wire), RefuseCall \/ Structure \/ Report \/ Discover
    PROVE  stdout' = stdout /\ (heard' = heard => Unheeding)
<1>1. stdout' = stdout /\ facts' = facts
  BY Zenon DEF RefuseCall, Structure, Report, Discover, pipes, check
<1>2. CASE RefuseCall \/ Structure
  <2>1. at = "structure" /\ at' \in {"reported", "initialize", "done"}
    BY <1>2 DEF RefuseCall, Structure
  <2>2. findings = {}
    BY <2>1 DEF PlaceInv
  <2>3. Place <= Place'
    BY <2>1 DEF Place, PlaceOf, Asking, Id, Rank
  <2> QED
    BY <1>1, <2>1, <2>2, <2>3 DEF Unheeding
<1>3. CASE Report
  <2>1. at = "done" /\ at' = "reported" /\ findings' = findings
    BY <1>3, Zenon DEF Report
  <2>2. Place = 13 /\ Place' = 13
    BY <2>1, PlacesAre DEF Place
  <2> QED
    BY <1>1, <2>1, <2>2 DEF Unheeding
<1>4. CASE Discover
  <2>1. at' = at /\ findings' = findings
    BY <1>4, Zenon DEF Discover, check
  <2>2. Place' = Place /\ Place \in Nat
    BY <2>1, PlacesAre DEF Place
  <2> QED
    BY <1>1, <2>1, <2>2 DEF Unheeding
<1> QED
  BY <1>2, <1>3, <1>4

\* The report passes no rule a line has broken.
LEMMA ReportedKept ==
    ASSUME Reported, RefuseCall \/ Structure \/ Report \/ Discover
    PROVE  Reported'
<1>0. \E rule : rule \in BehaviorRules
  BY DEF BehaviorRules
<1>1. CASE RefuseCall \/ Structure
  <2>1. report = NoReport /\ report'.passed = {}
    <3>1. report = NoReport
      BY <1>1, Zenon DEF RefuseCall, Structure, Reported
    <3>2. CASE RefuseCall
      BY <3>1, <3>2 DEF RefuseCall, NoReport
    <3>3. CASE Structure
      <4>1. report' \in {report, [report EXCEPT !.exit = 4]}
        BY <3>3 DEF Structure
      <4> QED
        BY <3>1, <4>1 DEF NoReport
    <3> QED
      BY <1>1, <3>1, <3>2, <3>3
  <2>2. at' # "reported" => report' = report
    <3>1. CASE RefuseCall
      BY <3>1 DEF RefuseCall
    <3>2. CASE Structure
      <4> DEFINE stops == replays /\ ~HasError(findings') /\ CannotReplay
      <4>1. stops => at' = "reported"
        BY <3>2, Zenon DEF Structure
      <4>2. ~stops => report' = report
        BY <3>2, Zenon DEF Structure
      <4> QED
        BY <4>1, <4>2, Zenon
    <3> QED
      BY <1>1, <3>1, <3>2
  <2> QED
    BY <1>0, <2>1, <2>2 DEF Reported
<1>2. CASE Report
  <2>1. /\ at' = "reported" /\ findings' = findings
        /\ \E replayed : report'.passed = Passed(findings, replayed)
    BY <1>2 DEF Report
  <2>2. PICK replayed : report'.passed = Passed(findings, replayed)
    BY <2>1
  <2>3. \A rule \in Passed(findings, replayed) : ~Broke(rule)
    BY DEF Passed, Broke
  <2>4. \A rule : Broke(rule)' <=> Broke(rule)
    BY <2>1 DEF Broke
  <2> QED
    BY <2>1, <2>2, <2>3, <2>4 DEF Reported
<1>3. CASE Discover
  <2>1. at' = at /\ findings' = findings /\ report' = report
    BY <1>3, Zenon DEF Discover, check
  <2> QED
    BY <2>1 DEF Reported, Broke
<1> QED
  BY <1>1, <1>2, <1>3

LEMMA PassStep ==
    ASSUME NEW Wire, \A g \in Wire : FrameOK(g), stdout \in Seq(Wire), PassInv(Wire),
           [\E file : HeardNext(file)]_<<check, request, result, heard>>
    PROVE  PassInv(Wire)'
<1>0. PlaceInv(Wire) /\ Remembered /\ Judged /\ Reported /\ DOMAIN facts = DOMAIN Unheard
  BY Zenon DEF PassInv, Remembered
<1>1. ASSUME NEW file, HeardNext(file) PROVE PassInv(Wire)'
  <2>1. heard' = IF stdout' = stdout THEN heard
                 ELSE Append(heard, [under |-> at, frame |-> Head(stdout)])
    BY <1>1, Zenon DEF HeardNext
  <2>2. \/ CheckNext(file) /\ UNCHANGED <<request, result>>
        \/ RefuseCall \/ Structure \/ Report \/ Discover
    BY <1>1, Zenon DEF HeardNext, FolderNext
  <2>3. CASE CheckNext(file) /\ UNCHANGED <<request, result>>
    <3>1. report' = report
      BY <2>3 DEF result
    <3>2. CASE Judge
      <4>1. PICK f \in Wire : Judges(f) /\ Hears(f)
        BY <2>1, <3>2, JudgedIsHeard
      <4>2. FrameOK(f)
        OBVIOUS
      <4>3. PlaceInv(Wire)' /\ Remembered' /\ Judged'
        BY <1>0, <4>1, PlaceKept, RememberedKept, JudgedKept
      <4>4. at # "reported" /\ at' # "reported"
        BY <4>1, <4>2, JudgeMoves, PlacesAre
      <4>5. Reported'
        BY <1>0, <3>1, <4>4 DEF Reported
      <4> QED
        BY <4>3, <4>5 DEF PassInv
    <3>3. CASE ~Judge
      <4>1. stdout' = stdout /\ at # "reported" /\ at' # "reported" /\ (heard' = heard => Unheeding)
        BY <1>0, <2>3, <3>3, UnheedingStep
      <4>2. Unheeding
        BY <2>1, <4>1
      <4>3. PlaceInv(Wire)' /\ Remembered' /\ Judged'
        BY <1>0, <4>2, UnheedingKeeps
      <4>4. Reported'
        BY <1>0, <3>1, <4>1 DEF Reported
      <4> QED
        BY <4>3, <4>4 DEF PassInv
    <3> QED
      BY <3>2, <3>3
  <2>4. CASE RefuseCall \/ Structure \/ Report \/ Discover
    <3>1. Unheeding
      BY <1>0, <2>1, <2>4, OtherStages
    <3>2. PlaceInv(Wire)' /\ Remembered' /\ Judged'
      BY <1>0, <3>1, UnheedingKeeps
    <3>3. Reported'
      BY <1>0, <2>4, ReportedKept
    <3> QED
      BY <3>2, <3>3 DEF PassInv
  <2> QED
    BY <2>2, <2>3, <2>4
<1>2. ASSUME UNCHANGED <<check, request, result, heard>> PROVE PassInv(Wire)'
  <2>1. /\ at' = at /\ findings' = findings /\ facts' = facts /\ report' = report
        /\ heard' = heard
    BY <1>2 DEF check, result
  <2>2. Unheeding
    BY <2>1, PlacesAre DEF Unheeding, Place
  <2>3. PlaceInv(Wire)' /\ Remembered' /\ Judged'
    BY <1>0, <2>2, UnheedingKeeps
  <2>4. Reported'
    BY <1>0, <2>1 DEF Reported, Broke
  <2> QED
    BY <2>3, <2>4 DEF PassInv
<1> QED
  BY <1>1, <1>2, Zenon

LEMMA PassStarts ==
    ASSUME NEW Wire, CheckInit, FolderStart, HeardStart
    PROVE  PassInv(Wire)
<1>1. /\ at = "structure" /\ findings = {} /\ facts = Unheard /\ report = NoReport
      /\ heard = <<>> /\ Heard = {}
  BY DEF CheckInit, FolderStart, FolderInit, HeardStart, Heard
<1>2. PlaceInv(Wire)
  BY <1>1 DEF PlaceInv
<1>3. RecordsHeard = 0
  BY <1>1, NoRecords
<1>4. Remembered
  BY <1>1, <1>3 DEF Remembered, Unheard
<1>5. Judged
  BY <1>1 DEF Judged, AllFrames, InTurn, Gapless, Announced, TotalTold
<1>6. Reported
  BY <1>1 DEF Reported
<1> QED
  BY <1>2, <1>4, <1>5, <1>6 DEF PassInv

\* What the check remembers and has found speaks for all lines it has read, of
\* any plugin, whatever it writes and when.
THEOREM PassInvariance ==
    ASSUME NEW CONSTANT Wire, \A g \in Wire : FrameOK(g)
    PROVE  AnyPlugin(Wire) => []PassInv(Wire)
<1>1. CheckInit /\ FolderStart /\ HeardStart => PassInv(Wire)
  BY PassStarts
<1>2. /\ PassInv(Wire) /\ stdout \in Seq(Wire)
      /\ [\E file : HeardNext(file)]_<<check, request, result, heard>>
      => PassInv(Wire)'
  BY PassStep
<1> QED
  BY <1>1, <1>2, PTL DEF AnyPlugin

\* A plugin the check passes with every rule of behaviour has kept to the
\* protocol in all it wrote (PassIsEarned).
THEOREM PassesAreEarned ==
    ASSUME NEW CONSTANT Wire, \A g \in Wire : FrameOK(g)
    PROVE  AnyPlugin(Wire) => []PassIsEarned
<1>1. PassInv(Wire) => PassIsEarned
  <2> SUFFICES ASSUME PassInv(Wire), at = "reported", BehaviorRules \subseteq report.passed
               PROVE  AllFrames /\ InTurn /\ Gapless /\ Announced /\ TotalTold
    BY Zenon DEF PassIsEarned
  <2>1. \A rule \in BehaviorRules : ~Broke(rule)
    BY Zenon DEF PassInv, Reported
  <2>2. {"BEH-02", "BEH-03", "BEH-04", "BEH-05", "BEH-06", "BEH-08", "BEH-09"} \subseteq BehaviorRules
    BY DEF BehaviorRules
  <2>3. /\ ~Broke("BEH-02") /\ ~Broke("BEH-03") /\ ~Broke("BEH-04") /\ ~Broke("BEH-05")
        /\ ~Broke("BEH-06") /\ ~Broke("BEH-08") /\ ~Broke("BEH-09")
    BY <2>1, <2>2
  <2> QED
    BY <2>3, Zenon DEF PassInv, Judged
<1> QED
  BY <1>1, PassInvariance, PTL

(***************************************************************************)
(* The CSV plugin: what the sample shows of a file, and what load freezes  *)
(***************************************************************************)
\* What Min gives of a set of numbers.
LEMMA LeastIs ==
    ASSUME NEW S \in SUBSET Nat, S # {}
    PROVE  Min(S) \in S /\ \A y \in S : Min(S) <= y
<1>1. \E x \in S : \A y \in S : x =< y
  BY LeastElement
<1> QED
  BY <1>1, Zenon DEF Min

\* The column found is 0 or one of those there are.
LEMMA ColumnFound ==
    ASSUME NEW S, NEW names \in Seq(S), NEW config
    PROVE  ResolveTimeColumn(names, config) \in 0 .. Len(names)
<1> DEFINE Test(n) == IF config.timeColumn = "auto" THEN n \in TimeNames ELSE n = Timestamp
           I == {i \in 1 .. Len(names) : Test(names[i])}
<1>1. ResolveTimeColumn(names, config) = IF I # {} THEN Min(I) ELSE 0
  BY Zenon DEF ResolveTimeColumn, SelectInSeq
<1>2. I # {} => Min(I) \in 1 .. Len(names)
  <2>1. I \in SUBSET Nat /\ I \subseteq 1 .. Len(names)
    OBVIOUS
  <2> QED
    BY <2>1, LeastIs
<1> HIDE DEF I
<1> QED
  BY <1>1, <1>2

\* What the host's sample and load see of a file, each for itself.
HeadOf(lines, i) == IF i <= Len(lines) THEN lines[i] ELSE NoLine
ClaimTimed(lines, config) ==
    LET delimiter == Delimiter(HeadOf(lines, 1), config)
        cols   == SplitLine(HeadOf(lines, 1), delimiter)
        second == SplitLine(HeadOf(lines, 2), delimiter)
        header == LooksLikeHeader(cols, second, config)
        data   == IF header THEN second ELSE cols
        column == ResolveTimeColumn(Names(cols, header), config)
        c      == IF column = 0 THEN 1 ELSE column
    IN  Len(cols) >= 2 /\ c <= Len(data) /\ ParseTime(data[c], config.format) # {}

\* can_handle's answer speaks of the first two lines, read as UTF-8.
LEMMA ClaimIsTimed ==
    ASSUME NEW file, NEW config, NEW hits, ClaimOf(file, config, hits).timed
    PROVE  ClaimTimed(Decode(file, "utf-8"), config)
  BY Zenon DEF ClaimOf, NoClaim, ClaimTimed, HeadOf

\* The cells and the line that stand for what is not there have their types.
LEMMA CellTypes == EmptyCell \in Cell /\ Garbage \in Cell /\ NoLine \in CsvLine
<1>1. <<>> \in Seq(Cell)
  OBVIOUS
<1> QED
  BY <1>1 DEF EmptyCell, Garbage, NoLine, Cell, CsvLine, Separators, NoName

\* Splitting gives one cell at least.
LEMMA SplitType ==
    ASSUME NEW line \in CsvLine, NEW delimiter
    PROVE  SplitLine(line, delimiter) \in Seq(Cell) /\ Len(SplitLine(line, delimiter)) >= 1
<1>1. line.cells \in Seq(Cell)
  BY DEF CsvLine
<1>2. EmptyCell \in Cell /\ Garbage \in Cell
  BY CellTypes
<1>3. CASE line.cells = <<>>
  <2>1. SplitLine(line, delimiter) = <<EmptyCell>>
    BY <1>3 DEF SplitLine
  <2> QED
    BY <2>1, <1>2
<1>4. CASE line.cells # <<>> /\ line.sep # delimiter /\ Len(line.cells) > 1
  <2>1. SplitLine(line, delimiter) = <<Garbage>>
    BY <1>4 DEF SplitLine
  <2> QED
    BY <2>1, <1>2
<1>5. CASE line.cells # <<>> /\ ~(line.sep # delimiter /\ Len(line.cells) > 1)
  <2>1. SplitLine(line, delimiter) = line.cells
    BY <1>5 DEF SplitLine
  <2> QED
    BY <2>1, <1>1, <1>5
<1> QED
  BY <1>3, <1>4, <1>5

\* A name for each column.
LEMMA NamesType ==
    ASSUME NEW cells \in Seq(Cell), NEW hasHeader
    PROVE  Names(cells, hasHeader) \in Seq(Nat) /\ Len(Names(cells, hasHeader)) = Len(cells)
<1>1. \A j \in DOMAIN cells : cells[j] \in Cell /\ j \in Nat
  OBVIOUS
<1>2. \A j \in DOMAIN cells : (IF hasHeader THEN cells[j].name ELSE 50 + j) \in Nat
  BY <1>1 DEF Cell
<1> QED
  BY <1>2 DEF Names

\* A cell is at most one time.
LEMMA OneTime ==
    ASSUME NEW c, NEW format
    PROVE  ParseTime(c, format) = {} \/ ParseTime(c, format) = {c.v}
  BY Zenon DEF ParseTime

\* Cells no time can be read from.
LEMMA NoTimes ==
    ASSUME NEW format
    PROVE  ParseTime(EmptyCell, format) = {} /\ ParseTime(Garbage, format) = {}
  BY DEF ParseTime, EmptyCell, Garbage

\* A decoded file has lines; it is the file itself, or there is nothing in it
\* that can be read.
LEMMA DecodeType ==
    ASSUME NEW file \in CsvFile, NEW encoding
    PROVE  /\ Decode(file, encoding) \in Seq(CsvLine) /\ Decode(file, encoding) # <<>>
           /\ \/ Decode(file, encoding) = file.lines
              \/ \A i \in DOMAIN Decode(file, encoding) :
                    LET cells == Decode(file, encoding)[i].cells IN
                       cells # <<>> /\ \A j \in DOMAIN cells : cells[j] = Garbage
<1> DEFINE L == file.lines
           out == Decode(file, encoding)
<1>0. L \in Seq(CsvLine) /\ L # <<>>
  BY DEF CsvFile
<1>1. Garbage \in Cell
  BY CellTypes
<1>2. CASE file.coding = "bytes" /\ encoding = "utf-16le"
  <2>1. out = <<[sep |-> ",", cells |-> <<Garbage>>]>>
    BY <1>2, Zenon DEF Decode
  <2>2. <<Garbage>> \in Seq(Cell) /\ <<Garbage>> # <<>> /\ DOMAIN <<Garbage>> = {1}
        /\ <<Garbage>>[1] = Garbage
    BY <1>1
  <2>3. [sep |-> ",", cells |-> <<Garbage>>] \in CsvLine
    BY <2>2 DEF CsvLine, Separators
  <2>4. DOMAIN out = {1} /\ out[1].cells = <<Garbage>> /\ out # <<>> /\ out \in Seq(CsvLine)
    <3> DEFINE line == [sep |-> ",", cells |-> <<Garbage>>]
    <3>1. line \in CsvLine /\ line.cells = <<Garbage>> /\ out = <<line>>
      BY <2>1, <2>3
    <3> HIDE DEF line, out
    <3> QED
      BY <3>1
  <2> QED
    BY <2>2, <2>4, Zenon
<1>3. CASE /\ ~(file.coding = "bytes" /\ encoding = "utf-16le")
           /\ \/ file.coding = "utf-16 bare" /\ encoding # "utf-16le"
              \/ file.coding = "utf-16" /\ encoding = "utf-8"
  <2> DEFINE blur(cells) == IF cells = <<>> THEN <<Garbage>> ELSE [j \in DOMAIN cells |-> Garbage]
  <2>1. out = [i \in DOMAIN L |-> [L[i] EXCEPT !.cells = blur(@)]]
    BY <1>3, Zenon DEF Decode
  <2>2. ASSUME NEW cells \in Seq(Cell)
        PROVE  /\ blur(cells) \in Seq(Cell) /\ blur(cells) # <<>>
               /\ \A j \in DOMAIN blur(cells) : blur(cells)[j] = Garbage
    BY <1>1
  <2> HIDE DEF blur
  <2>3. ASSUME NEW i \in DOMAIN L
        PROVE  /\ out[i] \in CsvLine /\ out[i].cells = blur(L[i].cells)
               /\ L[i].cells \in Seq(Cell)
    <3>1. L[i] \in CsvLine
      BY <1>0
    <3>2. L[i].cells \in Seq(Cell)
      BY <3>1 DEF CsvLine
    <3>3. out[i] = [L[i] EXCEPT !.cells = blur(L[i].cells)]
      BY <2>1
    <3> QED
      BY <3>1, <3>2, <3>3, <2>2 DEF CsvLine
  <2>4. out \in Seq(CsvLine) /\ DOMAIN out = DOMAIN L /\ out # <<>>
    <3>1. DOMAIN L = 1 .. Len(L) /\ Len(L) \in Nat \ {0}
      BY <1>0
    <3>2. out \in [1 .. Len(L) -> CsvLine]
      BY <2>1, <2>3, <3>1
    <3> QED
      BY <3>1, <3>2
  <2> QED
    BY <2>2, <2>3, <2>4
<1>4. CASE /\ ~(file.coding = "bytes" /\ encoding = "utf-16le")
           /\ ~(file.coding = "utf-16 bare" /\ encoding # "utf-16le")
           /\ ~(file.coding = "utf-16" /\ encoding = "utf-8")
  <2>1. out = L
    BY <1>4, Zenon DEF Decode
  <2> QED
    BY <2>1, <1>0
<1> QED
  BY <1>2, <1>3, <1>4

\* The column ClaimTimed looks at is one of the data.
LEMMA ColumnOf ==
    ASSUME NEW cells \in Seq(Cell), NEW hasHeader, NEW config, NEW c,
           c = IF ResolveTimeColumn(Names(cells, hasHeader), config) = 0 THEN 1
               ELSE ResolveTimeColumn(Names(cells, hasHeader), config)
    PROVE  c \in Nat /\ c >= 1
<1>1. ResolveTimeColumn(Names(cells, hasHeader), config) \in Nat
  BY NamesType, ColumnFound
<1> QED
  BY <1>1

\* A sample of which nothing can be read has no time in it.
LEMMA GarbageHasNoTime ==
    ASSUME NEW lines \in Seq(CsvLine), lines # <<>>, NEW config,
           \A i \in DOMAIN lines :
              lines[i].cells # <<>> /\ \A j \in DOMAIN lines[i].cells : lines[i].cells[j] = Garbage
    PROVE  ~ClaimTimed(lines, config)
<1> DEFINE delimiter == Delimiter(HeadOf(lines, 1), config)
           cols   == SplitLine(HeadOf(lines, 1), delimiter)
           second == SplitLine(HeadOf(lines, 2), delimiter)
           header == LooksLikeHeader(cols, second, config)
           data   == IF header THEN second ELSE cols
           column == ResolveTimeColumn(Names(cols, header), config)
           c      == IF column = 0 THEN 1 ELSE column
<1>1. ASSUME NEW i \in {1, 2}
      PROVE  /\ HeadOf(lines, i) \in CsvLine
             /\ HeadOf(lines, i) = NoLine
                \/ /\ HeadOf(lines, i).cells # <<>>
                   /\ \A j \in DOMAIN HeadOf(lines, i).cells : HeadOf(lines, i).cells[j] = Garbage
  <2>1. CASE i <= Len(lines)
    <3>1. HeadOf(lines, i) = lines[i] /\ i \in DOMAIN lines /\ lines[i] \in CsvLine
      BY <2>1 DEF HeadOf
    <3> QED
      BY <3>1
  <2>2. CASE ~(i <= Len(lines))
    BY <2>2, CellTypes DEF HeadOf
  <2> QED
    BY <2>1, <2>2
<1>2. ASSUME NEW line \in CsvLine, NEW d,
             line = NoLine \/ /\ line.cells # <<>>
                              /\ \A j \in DOMAIN line.cells : line.cells[j] = Garbage
      PROVE  \A j \in DOMAIN SplitLine(line, d) : SplitLine(line, d)[j] \in {Garbage, EmptyCell}
  <2>1. CASE line.cells = <<>>
    <3>1. SplitLine(line, d) = <<EmptyCell>>
      BY <2>1 DEF SplitLine
    <3> QED
      BY <3>1
  <2>2. CASE line.cells # <<>>
    <3>1. \A j \in DOMAIN line.cells : line.cells[j] = Garbage
      <4>1. NoLine.cells = <<>>
        BY DEF NoLine
      <4> QED
        BY <4>1, <1>2, <2>2, Zenon
    <3>2. SplitLine(line, d) = <<Garbage>> \/ SplitLine(line, d) = line.cells
      BY <2>2 DEF SplitLine
    <3> QED
      BY <3>1, <3>2
  <2> QED
    BY <2>1, <2>2
<1>3. /\ cols \in Seq(Cell) /\ second \in Seq(Cell)
      /\ \A j \in DOMAIN cols : cols[j] \in {Garbage, EmptyCell}
      /\ \A j \in DOMAIN second : second[j] \in {Garbage, EmptyCell}
  BY <1>1, <1>2, SplitType
<1>4. c \in Nat /\ c >= 1
  BY <1>3, ColumnOf
<1> HIDE DEF cols, second, header, c
<1>5. data \in Seq(Cell) /\ \A j \in DOMAIN data : data[j] \in {Garbage, EmptyCell}
  BY <1>3
<1>6. c <= Len(data) => ParseTime(data[c], config.format) = {}
  <2>1. c <= Len(data) => c \in DOMAIN data
    BY <1>4, <1>5
  <2> QED
    BY <2>1, <1>5, NoTimes
<1> QED
  BY <1>6, Zenon DEF ClaimTimed, cols, second, header, c

\* So a sample with a time in it was read as it was written.
LEMMA TimedIsRead ==
    ASSUME NEW file \in CsvFile, NEW config, ClaimTimed(Decode(file, "utf-8"), config)
    PROVE  Decode(file, "utf-8") = file.lines
  BY DecodeType, GarbageHasNoTime

\* The first line that is not empty, where it is the first of all.
LEMMA FirstLine ==
    ASSUME NEW lines \in Seq(CsvLine), lines # <<>>, lines[1].cells # <<>>
    PROVE  /\ Filled(lines) # {} /\ FirstOf(lines, Filled(lines)) = lines[1]
           /\ DataRows(lines, TRUE) = {i \in Filled(lines) : i > 1}
           /\ DataRows(lines, FALSE) = Filled(lines)
<1>1. Filled(lines) \in SUBSET Nat /\ 1 \in Filled(lines) /\ \A i \in Filled(lines) : i >= 1
  BY DEF Filled
<1>2. Min(Filled(lines)) = 1
  <2>1. Min(Filled(lines)) \in Nat /\ Min(Filled(lines)) \in Filled(lines) /\ Min(Filled(lines)) <= 1
    BY <1>1, LeastIs
  <2> QED
    BY <2>1, <1>1
<1>3. FirstOf(lines, Filled(lines)) = lines[1]
  BY <1>1, <1>2 DEF FirstOf
<1>4. DataRows(lines, TRUE) = {i \in Filled(lines) : i > 1}
  BY <1>1 DEF DataRows
<1>5. DataRows(lines, FALSE) = Filled(lines)
  BY DEF DataRows
<1> QED
  BY <1>1, <1>3, <1>4, <1>5

\* The second line, where it is not empty, is the first below a header.
LEMMA SecondLine ==
    ASSUME NEW lines \in Seq(CsvLine), lines # <<>>, lines[1].cells # <<>>,
           Len(lines) >= 2, lines[2].cells # <<>>
    PROVE  DataRows(lines, TRUE) # {} /\ FirstOf(lines, DataRows(lines, TRUE)) = lines[2]
<1> DEFINE S == DataRows(lines, TRUE)
<1>1. S = {i \in Filled(lines) : i > 1}
  BY FirstLine
<1>2. S \in SUBSET Nat /\ 2 \in S /\ \A i \in S : i >= 2
  <2>1. DOMAIN lines \subseteq Nat /\ 2 \in DOMAIN lines
    OBVIOUS
  <2>f. Filled(lines) \subseteq DOMAIN lines /\ 2 \in Filled(lines)
    BY <2>1 DEF Filled
  <2> HIDE DEF S
  <2>2. 2 \in S /\ S \subseteq DOMAIN lines /\ \A i \in S : i > 1
    BY <1>1, <2>f
  <2> QED
    BY <2>1, <2>2
<1> HIDE DEF S
<1>3. Min(S) \in Nat /\ Min(S) \in S /\ Min(S) <= 2
  BY <1>2, LeastIs
<1>4. Min(S) = 2
  BY <1>2, <1>3
<1> QED
  BY <1>2, <1>4 DEF FirstOf, S

\* What load freezes, named.
FirstCells(lines, config) ==
    SplitLine(FirstOf(lines, Filled(lines)), Delimiter(FirstOf(lines, Filled(lines)), config))
CellsBelow(lines, config, rows) ==
    SplitLine(FirstOf(lines, rows), Delimiter(FirstOf(lines, Filled(lines)), config))

\* The fields of a loaded file, one by one.
LEMMA FrozenFields ==
    ASSUME NEW file, NEW config, NEW lines, lines = Decode(file, config.encoding),
           NEW d, d = Frozen(file, config)
    PROVE  /\ d.loaded /\ d.lines = lines
           /\ d.hasHeader = (\/ config.header = "yes"
                             \/ /\ DataRows(lines, TRUE) # {}
                                /\ LooksLikeHeader(FirstCells(lines, config),
                                      CellsBelow(lines, config, DataRows(lines, TRUE)), config))
           /\ d.names = Names(FirstCells(lines, config), d.hasHeader)
           /\ d.timeCol = TimeColumn(d.names,
                             CellsBelow(lines, config, DataRows(lines, d.hasHeader)), config)
           /\ d.columns \subseteq DOMAIN d.names
  BY DEF Frozen, FirstCells, CellsBelow, NumberColumns

\* The rows of a loaded file, and those that have a time.
RowsOf(d) == DataRows(d.lines, d.hasHeader)
Timed(d)  == {i \in RowsOf(d) : RowTime(d, i) # {}}

\* load_file counts over the rows parse_file will read, and changes no other
\* field.
LEMMA LoadFields ==
    ASSUME NEW file, NEW config, NEW e, e = Frozen(file, config), NEW d, d = Load(file, config)
    PROVE  /\ d.loaded /\ d.lines = e.lines /\ d.hasHeader = e.hasHeader /\ d.names = e.names
           /\ d.timeCol = e.timeCol /\ d.columns = e.columns
           /\ d.badLines = Cardinality(RowsOf(d) \ Timed(d))
           /\ d.hint = Cardinality(Timed(d)) * Cardinality(d.columns)
           /\ d.times = UNION {RowTime(d, i) : i \in Timed(d)}
<1> DEFINE Keys == {"loaded", "lines", "delimiter", "hasHeader", "names", "timeCol", "format",
                    "columns", "badLines", "hint", "times"}
<1>1. e \in [Keys -> {e[k] : k \in Keys}]
  <2>1. DOMAIN e = Keys /\ e = [k \in DOMAIN e |-> e[k]]
    BY DEF Frozen
  <2> QED
    BY <2>1
<1>l. e.loaded
  BY FrozenFields
<1>2. d = [e EXCEPT !.badLines = Cardinality(RowsOf(e) \ Timed(e)),
                    !.hint  = Cardinality(Timed(e)) * Cardinality(e.columns),
                    !.times = UNION {RowTime(e, i) : i \in Timed(e)}]
  BY Zenon DEF Load, RowsOf, Timed
<1>3. /\ d.loaded = e.loaded /\ d.lines = e.lines /\ d.hasHeader = e.hasHeader
      /\ d.names = e.names /\ d.timeCol = e.timeCol /\ d.columns = e.columns
      /\ d.delimiter = e.delimiter /\ d.format = e.format
  BY <1>1, <1>2
<1>4. /\ d.badLines = Cardinality(RowsOf(e) \ Timed(e))
      /\ d.hint = Cardinality(Timed(e)) * Cardinality(e.columns)
      /\ d.times = UNION {RowTime(e, i) : i \in Timed(e)}
  BY <1>1, <1>2
<1>5. \A i : RowTime(d, i) = RowTime(e, i)
  BY <1>3, Zenon DEF RowTime, RowTs
<1>6. RowsOf(d) = RowsOf(e)
  BY <1>3, Zenon DEF RowsOf
<1>7. Timed(d) = Timed(e)
  BY <1>5, <1>6, Zenon DEF Timed
<1>8. UNION {RowTime(d, i) : i \in Timed(d)} = UNION {RowTime(e, i) : i \in Timed(e)}
  BY <1>5, <1>7, Zenon
<1>9. d.times = UNION {RowTime(d, i) : i \in Timed(d)}
  BY <1>4, <1>8, Zenon
<1>10. d.loaded
  BY <1>3, <1>l, Zenon
<1>11. d.hint = Cardinality(Timed(d)) * Cardinality(d.columns)
  BY <1>3, <1>4, <1>7, Zenon
<1>12. d.badLines = Cardinality(RowsOf(d) \ Timed(d))
  BY <1>4, <1>6, <1>7, Zenon
<1> QED
  BY <1>3, <1>9, <1>10, <1>11, <1>12

\* The three fields the claim is about.
LEMMA LoadHead ==
    ASSUME NEW file, NEW config
    PROVE  /\ Load(file, config).lines = Decode(file, config.encoding)
           /\ Load(file, config).timeCol = Frozen(file, config).timeCol
           /\ Load(file, config).hasHeader = Frozen(file, config).hasHeader
<1> DEFINE e == Frozen(file, config)
           d == Load(file, config)
           Keys == {"loaded", "lines", "delimiter", "hasHeader", "names", "timeCol", "format",
                    "columns", "badLines", "hint", "times"}
<1>1. e \in [Keys -> {e[k] : k \in Keys}]
  <2>1. DOMAIN e = Keys /\ e = [k \in DOMAIN e |-> e[k]]
    BY DEF Frozen
  <2> QED
    BY <2>1
<1>2. e.lines = Decode(file, config.encoding)
  BY DEF Frozen
<1>3. \E x, y, z : d = [e EXCEPT !.badLines = x, !.hint  = y, !.times = z]
  BY Zenon DEF Load
<1> HIDE DEF e, d
<1>4. d.lines = e.lines /\ d.timeCol = e.timeCol /\ d.hasHeader = e.hasHeader
  BY <1>1, <1>3
<1> QED
  BY <1>2, <1>4 DEF e, d

\* With or without a name for it, a column that holds a time in the first row
\* of the data is found.
LEMMA ColumnFrozen ==
    ASSUME NEW names, NEW cells, NEW config, NEW c,
           c = IF ResolveTimeColumn(names, config) = 0 THEN 1 ELSE ResolveTimeColumn(names, config),
           ParseTime(cells[c], config.format) # {}
    PROVE  TimeColumn(names, cells, config) # 0
  BY DEF TimeColumn

\* What the sample shows of the time column, load finds.
LEMMA ClaimKept ==
    ASSUME NEW file \in CsvFile, NEW config, NEW lines, lines = file.lines,
           lines = Decode(file, config.encoding), ClaimTimed(lines, config),
           NEW d, d = Frozen(file, config),
           ~(d.hasHeader /\ Len(lines) > 1 /\ lines[2].cells = <<>>)
    PROVE  d.timeCol # 0
<1> DEFINE delimiter == Delimiter(HeadOf(lines, 1), config)
           cols   == SplitLine(HeadOf(lines, 1), delimiter)
           second == SplitLine(HeadOf(lines, 2), delimiter)
           header == LooksLikeHeader(cols, second, config)
           data   == IF header THEN second ELSE cols
           column == ResolveTimeColumn(Names(cols, header), config)
           c      == IF column = 0 THEN 1 ELSE column
           below  == DataRows(lines, TRUE)
<1>t. lines \in Seq(CsvLine) /\ lines # <<>>
  BY DEF CsvFile
<1>1. Len(cols) >= 2 /\ c <= Len(data) /\ ParseTime(data[c], config.format) # {}
  BY Zenon DEF ClaimTimed
<1>2. HeadOf(lines, 1) = lines[1] /\ lines[1] \in CsvLine
  BY <1>t DEF HeadOf
<1>3. lines[1].cells # <<>>
  <2> SUFFICES ASSUME lines[1].cells = <<>> PROVE FALSE
    OBVIOUS
  <2>1. cols = <<EmptyCell>>
    BY <1>2 DEF SplitLine
  <2> HIDE DEF cols
  <2> QED
    BY <1>1, <2>1
<1>4. /\ FirstOf(lines, Filled(lines)) = lines[1] /\ Filled(lines) # {}
      /\ below = {i \in Filled(lines) : i > 1} /\ DataRows(lines, FALSE) = Filled(lines)
  BY <1>t, <1>3, FirstLine
<1>5. FirstCells(lines, config) = cols
  BY <1>2, <1>4 DEF FirstCells
<1>6. c \in Nat /\ c >= 1
  <2>1. cols \in Seq(Cell)
    BY <1>2, SplitType
  <2> QED
    BY <2>1, ColumnOf
<1>f. /\ d.hasHeader = (\/ config.header = "yes"
                        \/ below # {} /\ LooksLikeHeader(cols, CellsBelow(lines, config, below), config))
      /\ d.names = Names(cols, d.hasHeader)
      /\ d.timeCol = TimeColumn(d.names, CellsBelow(lines, config, DataRows(lines, d.hasHeader)), config)
  <2>1. /\ d.hasHeader = (\/ config.header = "yes"
                           \/ /\ below # {}
                              /\ LooksLikeHeader(FirstCells(lines, config),
                                    CellsBelow(lines, config, below), config))
        /\ d.names = Names(FirstCells(lines, config), d.hasHeader)
        /\ d.timeCol = TimeColumn(d.names,
                          CellsBelow(lines, config, DataRows(lines, d.hasHeader)), config)
    <3> HIDE DEF cols
    <3>1. lines = Decode(file, config.encoding) /\ d = Frozen(file, config)
      OBVIOUS
    <3> QED
      BY <3>1 DEF Frozen, FirstCells, CellsBelow
  <2> HIDE DEF cols, below
  <2> QED
    BY <1>5, <2>1
<1>7. CellsBelow(lines, config, Filled(lines)) = cols
  BY <1>2, <1>4 DEF CellsBelow
\* Both readers judge the header by the same line.
<1>8. CASE Len(lines) >= 2 /\ lines[2].cells # <<>>
  <2>1. HeadOf(lines, 2) = lines[2]
    BY <1>8, <1>t DEF HeadOf
  <2>2. below # {} /\ FirstOf(lines, below) = lines[2]
    BY <1>8, <1>t, <1>3, SecondLine
  <2>3. CellsBelow(lines, config, below) = second
    BY <1>2, <1>4, <2>1, <2>2 DEF CellsBelow
  <2>4. header = d.hasHeader
    <3>1. config.header = "yes" => header = TRUE
      BY Zenon DEF LooksLikeHeader
    <3> HIDE DEF cols, second, below
    <3>2. header \in BOOLEAN
      BY DEF LooksLikeHeader
    <3> QED
      BY <3>1, <3>2, <2>2, <2>3, <1>f
  <2>5. CellsBelow(lines, config, DataRows(lines, d.hasHeader)) = data
    <3>1. d.hasHeader \in BOOLEAN
      BY <1>f
    <3> QED
      BY <3>1, <2>3, <2>4, <1>4, <1>7
  <2> HIDE DEF data, header
  <2> QED
    BY <1>1, <1>f, <2>4, <2>5, ColumnFrozen
\* Nothing follows the first line, or a gap does.
<1>9. CASE ~(Len(lines) >= 2 /\ lines[2].cells # <<>>)
  <2>1. second = <<EmptyCell>>
    <3>1. NoLine.cells = <<>>
      BY DEF NoLine
    <3>2. HeadOf(lines, 2).cells = <<>>
      <4>1. CASE 2 <= Len(lines)
        BY <4>1, <1>9, <1>t DEF HeadOf
      <4>2. CASE ~(2 <= Len(lines))
        BY <4>2, <3>1, Zenon DEF HeadOf
      <4> QED
        BY <4>1, <4>2
    <3> QED
      BY <3>2 DEF SplitLine
  <2>2. ~header
    <3> SUFFICES ASSUME header PROVE FALSE
      OBVIOUS
    <3>1. data = <<EmptyCell>>
      BY <2>1
    <3> HIDE DEF data, c
    <3>2. c = 1
      BY <1>1, <1>6, <3>1
    <3>3. data[c] = EmptyCell
      BY <3>1, <3>2
    <3> QED
      BY <1>1, <3>3, NoTimes
  <2>3. header = FALSE
    <3> HIDE DEF cols, second
    <3>1. header \in BOOLEAN
      BY DEF LooksLikeHeader
    <3> QED
      BY <3>1, <2>2
  <2>4. d.hasHeader = FALSE
    <3>1. config.header # "yes"
      BY <2>3, Zenon DEF LooksLikeHeader
    <3>2. Len(lines) <= 1 => below = {}
      <4>1. Filled(lines) \subseteq 1 .. Len(lines) /\ Len(lines) \in Nat
        BY <1>t DEF Filled
      <4> HIDE DEF below
      <4>2. \A i \in below : i \in 1 .. Len(lines) /\ i > 1
        BY <4>1, <1>4
      <4> QED
        BY <4>1, <4>2
    <3>3. Len(lines) \in Nat
      BY <1>t
    <3> HIDE DEF below
    <3> QED
      BY <3>1, <3>2, <3>3, <1>9, <1>f
  <2>5. CellsBelow(lines, config, DataRows(lines, d.hasHeader)) = cols /\ data = cols
    BY <2>3, <2>4, <1>4, <1>7
  <2> HIDE DEF data, header, cols
  <2> QED
    BY <1>1, <1>f, <2>3, <2>4, <2>5, ColumnFrozen
<1> QED
  BY <1>8, <1>9

(***************************************************************************)
(* The CSV plugin: the batches cut, and what they hold in all              *)
(***************************************************************************)
\* Whole batches: what a quotient leaves is less than the divisor.
LEMMA DivBounds ==
    ASSUME NEW n \in Nat, NEW B \in Nat, B > 0
    PROVE  n \div B \in Nat /\ (n \div B) * B <= n /\ n < (n \div B) * B + B
<1>1. n \div B \in Nat
  OBVIOUS
<1>2. (n \div B) * B <= n
  OBVIOUS
<1>3. n < (n \div B) * B + B
  OBVIOUS
<1> QED
  BY <1>1, <1>2, <1>3

\* What parse gives the sink, with times from T.
Batches(T) == [seq : Nat, times : Seq(T), done : BOOLEAN]

\* n batches, all full, numbered from 0, none the last.
FullBatches(batches, T) ==
    /\ batches \in Seq(Batches(T))
    /\ \A i \in DOMAIN batches :
          batches[i].seq = i - 1 /\ ~batches[i].done /\ Len(batches[i].times) = BatchSize

\* A piece of a sequence, and its length.
LEMMA PieceIs ==
    ASSUME NEW T, NEW s \in Seq(T), NEW lo \in Nat, NEW hi \in Nat,
           lo <= hi, hi <= Len(s)
    PROVE  SubSeq(s, lo + 1, hi) \in Seq(T) /\ Len(SubSeq(s, lo + 1, hi)) = hi - lo
<1>1. \A i \in lo + 1 .. hi : i \in 1 .. Len(s)
  OBVIOUS
<1> QED
  BY <1>1, SubSeqProperties

\* The batches cut from the records at hand, and what is left in the buffer.
CutFrom(n, all) ==
    [b \in 1 .. Full(all) |-> Batch(n + b - 1,
        SubSeq(all, (b - 1) * BatchSize + 1, b * BatchSize), FALSE)]
LeftOf(all) == SubSeq(all, Full(all) * BatchSize + 1, Len(all))

\* Batches cut go on from the batches sent, and no record is lost or doubled
\* on the way from the buffer to the sink.
LEMMA CutIs ==
    ASSUME NEW T, NEW all \in Seq(T), NEW batches, FullBatches(batches, T)
    PROVE  /\ FullBatches(batches \o CutFrom(Len(batches), all), T)
           /\ LeftOf(all) \in Seq(T) /\ Len(LeftOf(all)) < BatchSize
           /\ Len(batches \o CutFrom(Len(batches), all)) * BatchSize + Len(LeftOf(all))
                = Len(batches) * BatchSize + Len(all)
<1> DEFINE B == BatchSize
           L == Len(all)
           q == Full(all)
           n == Len(batches)
           more == CutFrom(n, all)
<1>1. B \in Nat /\ B > 0
  BY CsvAssumption
<1>2. L \in Nat /\ n \in Nat /\ batches \in Seq(Batches(T))
  BY DEF FullBatches
<1>3. q \in Nat /\ q * B <= L /\ L < q * B + B
  <2> HIDE DEF B, L
  <2>1. L \div B \in Nat /\ (L \div B) * B <= L /\ L < (L \div B) * B + B
    BY <1>1, <1>2, DivBounds
  <2>2. q = L \div B
    BY DEF Full, B, L
  <2> QED
    BY <2>1, <2>2
<1>c. more = [b \in 1 .. q |-> Batch(n + b - 1, SubSeq(all, (b - 1) * B + 1, b * B), FALSE)]
  BY Zenon DEF CutFrom
<1> HIDE DEF B, q, n, more, L
<1>4. ASSUME NEW b \in 1 .. q
      PROVE  /\ (b - 1) * B \in Nat /\ b * B \in Nat /\ (b - 1) * B <= b * B /\ b * B <= L
             /\ b * B - (b - 1) * B = B
  <2>1. q * B = b * B + (q - b) * B /\ b * B = (b - 1) * B + B
    BY <1>1, <1>3
  <2>2. (q - b) * B \in Nat /\ (b - 1) * B \in Nat /\ b * B \in Nat
    BY <1>1, <1>3
  <2>3. q * B \in Nat
    BY <1>1, <1>3
  <2> QED
    BY <2>1, <2>2, <2>3, <1>1, <1>2, <1>3
<1>5. ASSUME NEW b \in 1 .. q
      PROVE  /\ more[b] \in Batches(T) /\ more[b].seq = n + b - 1
             /\ ~more[b].done /\ Len(more[b].times) = B
  <2> DEFINE piece == SubSeq(all, (b - 1) * B + 1, b * B)
  <2>1. piece \in Seq(T) /\ Len(piece) = b * B - (b - 1) * B
    BY <1>4, PieceIs DEF L
  <2>2. more[b] = [seq |-> n + b - 1, times |-> piece, done |-> FALSE]
    BY <1>c DEF Batch
  <2>3. n + b - 1 \in Nat
    BY <1>2
  <2> HIDE DEF piece
  <2> QED
    BY <2>1, <2>2, <2>3, <1>4 DEF Batches
<1>6. more \in Seq(Batches(T)) /\ Len(more) = q
  <2>1. more \in [1 .. q -> Batches(T)]
    BY <1>5, <1>c
  <2> QED
    BY <2>1, <1>3
<1>7. /\ batches \o more \in Seq(Batches(T)) /\ Len(batches \o more) = n + q
      /\ \A i \in 1 .. n + q : (batches \o more)[i] = IF i <= n THEN batches[i] ELSE more[i - n]
  BY <1>2, <1>6, ConcatProperties DEF n
<1>8. FullBatches(batches \o more, T)
  <2> SUFFICES ASSUME NEW i \in 1 .. n + q
               PROVE  /\ (batches \o more)[i].seq = i - 1 /\ ~(batches \o more)[i].done
                      /\ Len((batches \o more)[i].times) = BatchSize
    <3> DEFINE out == batches \o more
    <3>1. out \in Seq(Batches(T)) /\ Len(out) = n + q
      BY <1>7
    <3> HIDE DEF out
    <3>2. DOMAIN out = 1 .. n + q
      BY <3>1
    <3>3. \A i \in DOMAIN out : out[i].seq = i - 1 /\ ~out[i].done /\ Len(out[i].times) = BatchSize
      BY <3>2 DEF out
    <3>4. FullBatches(out, T)
      BY <3>1, <3>3, Zenon DEF FullBatches
    <3> QED
      BY <3>4 DEF out
  <2>1. CASE i <= n
    <3>1. i \in DOMAIN batches /\ (batches \o more)[i] = batches[i]
      BY <2>1, <1>2, <1>7 DEF n
    <3> QED
      BY <3>1 DEF FullBatches
  <2>2. CASE ~(i <= n)
    <3>1. i - n \in 1 .. q /\ (batches \o more)[i] = more[i - n]
      BY <2>2, <1>2, <1>3, <1>7
    <3>2. n + (i - n) - 1 = i - 1
      BY <1>2
    <3> QED
      BY <3>1, <3>2, <1>5 DEF B
  <2> QED
    BY <2>1, <2>2
<1>9. LeftOf(all) \in Seq(T) /\ Len(LeftOf(all)) = L - q * B
  <2>1. q * B \in Nat
    BY <1>1, <1>3
  <2>2. LeftOf(all) = SubSeq(all, q * B + 1, L)
    BY Zenon DEF LeftOf, q, B, L
  <2> QED
    BY <2>1, <2>2, <1>2, <1>3, PieceIs DEF L
<1>10. (n + q) * B + (L - q * B) = n * B + L
  <2>1. (n + q) * B = n * B + q * B
    BY <1>1, <1>2, <1>3
  <2>2. n * B \in Nat /\ q * B \in Nat
    BY <1>1, <1>2, <1>3
  <2> QED
    BY <2>1, <2>2, <1>2
<1>11. L - q * B < B
  <2>1. q * B \in Nat
    BY <1>1, <1>3
  <2> QED
    BY <2>1, <1>1, <1>2, <1>3
<1>12. Len(batches \o more) * B + Len(LeftOf(all)) = n * B + L
  BY <1>7, <1>9, <1>10
<1> QED
  BY <1>8, <1>9, <1>11, <1>12 DEF B, n, L, more

\* Batches that hold size records in all, the last of them marked.
AllSent(all, T, size) ==
    /\ all \in Seq(Batches(T))
    /\ Records(all) = size
    /\ \A i \in DOMAIN all : all[i].seq = i - 1 /\ (all[i].done <=> i = Len(all))

\* What the batches hold in all, full ones and one that ends them.
LEMMA RecordsSent ==
    ASSUME NEW T, NEW batches, FullBatches(batches, T), NEW rest \in Seq(T),
           NEW n, n = Len(batches), NEW last, last = Batch(n, rest, TRUE),
           NEW all, all = Append(batches, last)
    PROVE  AllSent(all, T, n * BatchSize + Len(rest))
<1> DEFINE b == [i \in DOMAIN all |-> Len(all[i].times)]
<1>t. n \in Nat /\ batches \in Seq(Batches(T)) /\ DOMAIN batches = 1 .. n
  BY DEF FullBatches
<1>l. last \in Batches(T) /\ last.seq = n /\ last.done /\ last.times = rest
  BY <1>t DEF Batch, Batches
<1>1. /\ all \in Seq(Batches(T)) /\ Len(all) = n + 1 /\ DOMAIN all = 1 .. n + 1
      /\ all[n + 1] = last /\ \A i \in 1 .. n : all[i] = batches[i]
  <2>1. ASSUME NEW E, E = Batches(T), NEW x, x = last PROVE
          /\ Append(batches, x) \in Seq(E) /\ Len(Append(batches, x)) = n + 1
          /\ Append(batches, x)[n + 1] = x
          /\ \A i \in 1 .. n : Append(batches, x)[i] = batches[i]
    <3>1. batches \in Seq(E) /\ x \in E /\ Len(batches) = n
      BY <1>t, <1>l, <2>1
    <3>2. /\ Append(batches, x) \in Seq(E) /\ Len(Append(batches, x)) = Len(batches) + 1
          /\ \A i \in 1 .. Len(batches) : Append(batches, x)[i] = batches[i]
          /\ Append(batches, x)[Len(batches) + 1] = x
      BY ONLY <3>1, AppendProperties
    <3> QED
      BY <3>1, <3>2
  <2>2. /\ all \in Seq(Batches(T)) /\ Len(all) = n + 1
        /\ all[n + 1] = last
        /\ \A i \in 1 .. n : all[i] = batches[i]
    BY <2>1
  <2>3. DOMAIN all = 1 .. n + 1
    BY <2>2
  <2> QED
    BY <2>2, <2>3
<1>2. \A i \in 1 .. n : all[i].seq = i - 1 /\ ~all[i].done /\ Len(all[i].times) = BatchSize
  BY <1>1, <1>t DEF FullBatches
<1>3. Records(all) = Total(b, DOMAIN all)
  <2>1. DOMAIN b = DOMAIN all
    OBVIOUS
  <2>2. Records(all) = MapThenSumSet(LAMBDA i : b[i], DOMAIN b)
    BY DEF Records
  <2> HIDE DEF b
  <2> QED
    BY <2>1, <2>2, Zenon DEF Total
<1>r. Len(rest) \in Nat /\ BatchSize \in Nat /\ n + 1 \in 1 .. n + 1
  BY <1>t, CsvAssumption
<1>4. /\ b \in [1 .. n + 1 -> Nat] /\ b[n + 1] = Len(rest)
      /\ \A i \in 1 .. n : b[i] = BatchSize
  <2>1. Len(all[n + 1].times) = Len(rest)
    BY <1>1, <1>l
  <2>2. ASSUME NEW i \in 1 .. n PROVE Len(all[i].times) = BatchSize
    BY <1>2
  <2>3. ASSUME NEW i \in 1 .. n + 1 PROVE Len(all[i].times) \in Nat
    <3>1. i = n + 1 \/ i \in 1 .. n
      BY <1>t
    <3> QED
      BY <3>1, <2>1, <2>2, <1>r
  <2>4. b = [i \in 1 .. n + 1 |-> Len(all[i].times)]
    BY <1>1
  <2>5. b \in [1 .. n + 1 -> Nat]
    BY <2>3, <2>4
  <2>6. b[n + 1] = Len(rest)
    BY <2>1, <2>4, <1>r
  <2>7. \A i \in 1 .. n : b[i] = BatchSize
    BY <2>2, <2>4, <1>t
  <2> QED
    BY <2>5, <2>6, <2>7
<1> HIDE DEF b
<1>5. ASSUME NEW D, D = 1 .. n, NEW S, S = 1 .. n + 1, NEW k, k = n + 1
      PROVE  Total(b, S) = Len(rest) + n * BatchSize
  <2>1. IsFiniteSet(D) /\ IsFiniteSet(S) /\ Cardinality(D) = n
    <3>1. ASSUME NEW m \in Nat PROVE IsFiniteSet(1 .. m) /\ Cardinality(1 .. m) = m
      <4>1. 1 \in Int /\ m \in Int
        OBVIOUS
      <4>2. IsFiniteSet(1 .. m) /\ Cardinality(1 .. m) = IF 1 > m THEN 0 ELSE m - 1 + 1
        BY <4>1, FS_Interval, Zenon
      <4> QED
        BY <4>2
    <3>2. IsFiniteSet(1 .. n) /\ Cardinality(1 .. n) = n
      BY <1>t, <3>1
    <3>3. IsFiniteSet(1 .. n + 1)
      <4>1. n + 1 \in Nat
        BY <1>t
      <4> QED
        BY <4>1, <3>1
    <3> QED
      BY <3>2, <3>3, <1>5
  <2>2. /\ IsFiniteSet(S) /\ b \in [S -> Nat] /\ D \in SUBSET S /\ k \in S /\ k \notin D
    BY <1>t, <1>4, <1>5, <2>1
  <2>3. S = D \cup {k}
    BY <1>t, <1>5
  <2>4. Total(b, D \cup {k}) = b[k] + Total(b, D)
    BY ONLY <2>2, TotalAdd
  <2> DEFINE d == [x \in D |-> BatchSize]
  <2>5. d \in [D -> Nat] /\ \A x \in D : d[x] = BatchSize
    BY <1>r
  <2>6. \A x \in D : b[x] = d[x]
    BY <2>5, <1>4, <1>5
  <2> HIDE DEF d
  <2>7. Total(b, D) = Total(d, D)
    BY ONLY <2>6, TotalSame
  <2>8. IsFiniteSet(D) /\ d \in [D -> Nat] /\ BatchSize \in Nat /\ \A x \in D : d[x] = BatchSize
    BY <2>1, <2>5, <1>r
  <2>9. Total(d, D) = Cardinality(D) * BatchSize
    BY ONLY <2>8, TotalEqual
  <2>10. b[k] = Len(rest)
    BY <1>4, <1>5
  <2> QED
    BY <2>1, <2>3, <2>4, <2>7, <2>9, <2>10
<1>6. Total(b, 1 .. n + 1) = Len(rest) + n * BatchSize
  BY <1>5
<1>7. Records(all) = n * BatchSize + Len(rest)
  <2>1. n * BatchSize \in Nat
    BY <1>t, <1>r
  <2>2. Records(all) = Len(rest) + n * BatchSize
    BY <1>1, <1>3, <1>6
  <2>3. \A x, y \in Nat : x + y = y + x
    OBVIOUS
  <2> QED
    BY <2>1, <2>2, <2>3, <1>r, Zenon
<1>8. ASSUME NEW i \in DOMAIN all
      PROVE  all[i].seq = i - 1 /\ (all[i].done <=> i = Len(all))
  <2>1. i = n + 1 \/ i \in 1 .. n
    BY <1>1, <1>t
  <2>2. CASE i = n + 1
    <3>1. all[i] = last
      BY <2>2, <1>1, Zenon
    <3>2. Len(all) = i /\ i - 1 = n
      BY <2>2, <1>1, <1>t
    <3> QED
      BY <3>1, <3>2, <1>l
  <2>3. CASE i \in 1 .. n
    <3>1. i # n + 1 /\ all[i].seq = i - 1 /\ ~all[i].done
      BY <2>3, <1>2, <1>t
    <3> QED
      BY <3>1, <1>1
  <2> QED
    BY <2>1, <2>2, <2>3
<1> QED
  BY <1>1, <1>7, <1>8 DEF AllSent

(***************************************************************************)
(* The CSV plugin, line by line                                            *)
(***************************************************************************)
\* Those above a line.
Above(S, r) == {i \in S : i < r}

\* A loaded file: lines, a finite number of columns, and the counts as stored.
LEMMA LoadedFile ==
    ASSUME NEW file \in CsvFile, NEW config, NEW d, d = Load(file, config)
    PROVE  /\ d.loaded /\ d.lines \in Seq(CsvLine) /\ d.lines # <<>>
           /\ d.badLines = Cardinality(RowsOf(d) \ Timed(d))
           /\ d.hint = Cardinality(Timed(d)) * Cardinality(d.columns)
           /\ d.times = UNION {RowTime(d, i) : i \in Timed(d)}
           /\ IsFiniteSet(d.columns) /\ Cardinality(d.columns) \in Nat
           /\ IsFiniteSet(RowsOf(d)) /\ RowsOf(d) \subseteq 1 .. Len(d.lines)
<1> DEFINE e == Frozen(file, config)
           lines == Decode(file, config.encoding)
<1>1. lines \in Seq(CsvLine) /\ lines # <<>>
  BY DecodeType, Zenon
<1> HIDE DEF e, lines
<1>2. /\ e.lines = lines /\ e.columns \subseteq DOMAIN e.names
      /\ e.names = Names(FirstCells(lines, config), e.hasHeader)
  BY FrozenFields, Zenon DEF e, lines
<1>3. /\ d.loaded /\ d.lines = e.lines /\ d.names = e.names /\ d.columns = e.columns
      /\ d.badLines = Cardinality(RowsOf(d) \ Timed(d))
      /\ d.hint = Cardinality(Timed(d)) * Cardinality(d.columns)
      /\ d.times = UNION {RowTime(d, i) : i \in Timed(d)}
  <2>1. e = Frozen(file, config)
    BY DEF e
  <2> QED
    BY <2>1, LoadFields
<1>7. IsFiniteSet(DOMAIN e.names)
  <2>1. FirstOf(lines, Filled(lines)) \in CsvLine
    <3>1. CASE Filled(lines) = {}
      BY <3>1, CellTypes DEF FirstOf
    <3>2. CASE Filled(lines) # {}
      <4>1. Filled(lines) \in SUBSET Nat /\ Filled(lines) \subseteq DOMAIN lines
        BY <1>1 DEF Filled
      <4>2. Min(Filled(lines)) \in DOMAIN lines
        BY <3>2, <4>1, LeastIs
      <4>3. FirstOf(lines, Filled(lines)) = lines[Min(Filled(lines))]
        BY <3>2 DEF FirstOf
      <4> QED
        BY <1>1, <4>2, <4>3
    <3> QED
      BY <3>1, <3>2
  <2>2. FirstCells(lines, config) \in Seq(Cell)
    BY <2>1, SplitType DEF FirstCells
  <2>3. e.names \in Seq(Nat)
    BY <2>2, <1>2, NamesType
  <2>4. DOMAIN e.names = 1 .. Len(e.names) /\ Len(e.names) \in Nat
    BY <2>3
  <2> QED
    BY <2>4, FS_Interval
<1>8. IsFiniteSet(d.columns) /\ Cardinality(d.columns) \in Nat
  BY <1>2, <1>3, <1>7, FS_Subset, FS_CardinalityType
<1>9. RowsOf(d) \subseteq 1 .. Len(d.lines)
  BY <1>1, <1>2, <1>3 DEF RowsOf, DataRows, Filled
<1>10. IsFiniteSet(1 .. Len(d.lines))
  <2>1. Len(d.lines) \in Nat
    BY <1>1, <1>2, <1>3
  <2> QED
    BY <2>1, FS_Interval
<1> QED
  BY <1>1, <1>2, <1>3, <1>8, <1>9, <1>10, FS_Subset

\* As long as the first line names columns only if parse_file skips it, the
\* rows parse_file takes are those load_file counted.
LEMMA SameRows ==
    ASSUME NEW i \in Nat, i \in 1 .. Len(doc.lines), doc.lines \in Seq(CsvLine),
           doc.lines # <<>>, HeaderFirst
    PROVE  IsRow(i) <=> i \in RowsOf(doc)
<1>1. DOMAIN doc.lines = 1 .. Len(doc.lines) /\ 1 \in DOMAIN doc.lines
  OBVIOUS
<1>2. CASE ~doc.hasHeader
  BY <1>1, <1>2 DEF IsRow, RowsOf, DataRows, Filled
<1>3. CASE doc.hasHeader
  <2>1. 1 \in Filled(doc.lines)
    BY <1>1, <1>3 DEF HeaderFirst, Filled
  <2>2. \A k \in Filled(doc.lines) : k \in Nat /\ k >= 1
    BY <1>1 DEF Filled
  <2>3. i \in RowsOf(doc) <=> i \in Filled(doc.lines) /\ i # 1
    BY <1>3, <2>1, <2>2 DEF RowsOf, DataRows
  <2>4. IsRow(i) <=> i \in Filled(doc.lines) /\ i # 1
    BY <1>1, <1>3 DEF IsRow, Filled
  <2> QED
    BY <2>3, <2>4
<1> QED
  BY <1>2, <1>3

\* A row has at most one time.
LEMMA OneRowTime ==
    ASSUME NEW d, NEW i
    PROVE  RowTime(d, i) = {} \/ \E t : RowTime(d, i) = {t}
<1> DEFINE cells == SplitLine(d.lines[i], d.delimiter)
<1>1. RowTime(d, i) = RowTs(cells, d)
  BY Zenon DEF RowTime
<1> HIDE DEF cells
<1>2. RowTs(cells, d) = {} \/ RowTs(cells, d) = ParseTime(cells[d.timeCol], d.format)
  BY Zenon DEF RowTs
<1> QED
  BY <1>1, <1>2, OneTime

\* One line more: what is above it, counted.
LEMMA OneMore ==
    ASSUME NEW S, IsFiniteSet(S), S \in SUBSET Nat, NEW r \in Nat
    PROVE  /\ IsFiniteSet(Above(S, r)) /\ Cardinality(Above(S, r)) \in Nat
           /\ r \in S => Cardinality(Above(S, r + 1)) = Cardinality(Above(S, r)) + 1
           /\ r \notin S => Above(S, r + 1) = Above(S, r)
<1>1. IsFiniteSet(Above(S, r)) /\ Cardinality(Above(S, r)) \in Nat
  <2>1. Above(S, r) \subseteq S
    BY DEF Above
  <2> QED
    BY <2>1, FS_Subset, FS_CardinalityType
<1>o. \A i \in S : i < r + 1 <=> i < r \/ i = r
  <2>1. \A i \in Nat : i < r + 1 <=> i < r \/ i = r
    OBVIOUS
  <2> QED
    BY <2>1
<1>n. ~(r < r)
  OBVIOUS
<1>2. r \in S => Above(S, r + 1) = Above(S, r) \cup {r} /\ r \notin Above(S, r)
  BY <1>o, <1>n, Zenon DEF Above
<1>3. r \notin S => Above(S, r + 1) = Above(S, r)
  BY <1>o, Zenon DEF Above
<1>4. ASSUME r \in S PROVE Cardinality(Above(S, r + 1)) = Cardinality(Above(S, r)) + 1
  BY <1>1, <1>2, <1>4, FS_AddElement
<1> QED
  BY <1>1, <1>3, <1>4

\* The lines read so far: what is sent and buffered, and the bad ones.
MidParse ==
    /\ FullBatches(sent, doc.times) /\ buf \in Seq(doc.times) /\ Len(buf) < BatchSize
    /\ Len(sent) * BatchSize + Len(buf)
         = Cardinality(Above(Timed(doc), row)) * Cardinality(doc.columns)
    /\ bad.parse = Cardinality(Above(RowsOf(doc) \ Timed(doc), row))

\* The inductive invariant of the CSV plugin.
CsvInv ==
    /\ table \in CsvTable
    /\ bad \in [{"load", "parse"} -> Nat]
    /\ ~doc.loaded => buf = <<>> /\ sent = <<>> /\ bad.parse = 0
    /\ doc.loaded =>
         /\ doc = Load(table.file, table.config) /\ bad.load = doc.badLines
         /\ \E hits \in 0 .. 1 : claim = ClaimOf(table.file, table.config, hits)
         /\ row \in -1 .. Len(doc.lines) + 1
         /\ HeaderFirst /\ row > 0 => MidParse
    /\ TwoPassesAgree

\* The claim is kept: the first line, its header and the row below it are the
\* ones can_handle saw in the sample.
LEMMA KeepsClaim == CsvInv => LoadKeepsClaim
<1> SUFFICES ASSUME CsvInv, doc.loaded, claim.timed, ~HeaderOverGap,
                    Decode(table.file, table.config.encoding) = table.file.lines
             PROVE  doc.timeCol # 0
  BY Zenon DEF LoadKeepsClaim
<1> DEFINE file == table.file
           config == table.config
           e == Frozen(file, config)
<1>1. file \in CsvFile
  BY DEF CsvInv, CsvTable
<1>2. doc = Load(file, config)
  BY Zenon DEF CsvInv
<1>3. PICK hits \in 0 .. 1 : claim = ClaimOf(file, config, hits)
  BY Zenon DEF CsvInv
<1>4. ClaimOf(file, config, hits).timed
  BY <1>3, Zenon
<1>5. Decode(file, config.encoding) = file.lines
  OBVIOUS
<1> HIDE DEF file, config
<1>6. ClaimTimed(Decode(file, "utf-8"), config)
  BY <1>4, ClaimIsTimed
<1>7. ClaimTimed(file.lines, config)
  BY <1>1, <1>6, TimedIsRead
<1>e. e = Frozen(file, config)
  BY DEF e
<1> HIDE DEF e
<1>8. doc.lines = file.lines /\ doc.hasHeader = e.hasHeader /\ doc.timeCol = e.timeCol
  BY <1>2, <1>5, <1>e, LoadHead, Zenon
<1>10. ~(e.hasHeader /\ Len(file.lines) > 1 /\ file.lines[2].cells = <<>>)
  BY <1>8, Zenon DEF HeaderOverGap
<1>11. e.timeCol # 0
  BY <1>1, <1>5, <1>7, <1>10, ClaimKept, Zenon DEF e
<1> QED
  BY <1>8, <1>11

\* What is known of a file being parsed.
LEMMA Loaded ==
    ASSUME CsvInv, doc.loaded
    PROVE  /\ doc.lines \in Seq(CsvLine) /\ doc.lines # <<>> /\ Len(doc.lines) \in Nat
           /\ doc.badLines = Cardinality(RowsOf(doc) \ Timed(doc))
           /\ doc.hint = Cardinality(Timed(doc)) * Cardinality(doc.columns)
           /\ doc.times = UNION {RowTime(doc, i) : i \in Timed(doc)}
           /\ Cardinality(doc.columns) \in Nat
           /\ RowsOf(doc) \in SUBSET Nat /\ RowsOf(doc) \subseteq 1 .. Len(doc.lines)
           /\ IsFiniteSet(Timed(doc)) /\ IsFiniteSet(RowsOf(doc) \ Timed(doc))
           /\ Timed(doc) \subseteq RowsOf(doc)
<1>1. table.file \in CsvFile
  BY DEF CsvInv, CsvTable
<1>2. doc = Load(table.file, table.config)
  BY Zenon DEF CsvInv
<1>3. /\ doc.lines \in Seq(CsvLine) /\ doc.lines # <<>>
      /\ doc.badLines = Cardinality(RowsOf(doc) \ Timed(doc))
      /\ doc.hint = Cardinality(Timed(doc)) * Cardinality(doc.columns)
      /\ doc.times = UNION {RowTime(doc, i) : i \in Timed(doc)}
      /\ Cardinality(doc.columns) \in Nat
      /\ IsFiniteSet(RowsOf(doc)) /\ RowsOf(doc) \subseteq 1 .. Len(doc.lines)
  <2> DEFINE P(d) ==
           /\ d.lines \in Seq(CsvLine) /\ d.lines # <<>>
           /\ d.badLines = Cardinality(RowsOf(d) \ Timed(d))
           /\ d.hint = Cardinality(Timed(d)) * Cardinality(d.columns)
           /\ d.times = UNION {RowTime(d, i) : i \in Timed(d)}
           /\ Cardinality(d.columns) \in Nat
           /\ IsFiniteSet(RowsOf(d)) /\ RowsOf(d) \subseteq 1 .. Len(d.lines)
  <2>1. \A file \in CsvFile : \A config : \A d : d = Load(file, config) => P(d)
    BY LoadedFile, Zenon
  <2> HIDE DEF P
  <2>2. P(doc)
    BY <1>1, <1>2, <2>1, Zenon
  <2> QED
    BY <2>2 DEF P
<1>4. Len(doc.lines) \in Nat
  BY <1>3
<1>5. RowsOf(doc) \in SUBSET Nat
  BY <1>3, <1>4
<1>6. Timed(doc) \subseteq RowsOf(doc)
  BY DEF Timed
<1>7. RowsOf(doc) \ Timed(doc) \subseteq RowsOf(doc)
  OBVIOUS
<1>8. IsFiniteSet(Timed(doc)) /\ IsFiniteSet(RowsOf(doc) \ Timed(doc))
  BY <1>3, <1>6, <1>7, FS_Subset
<1> QED
  BY <1>3, <1>4, <1>5, <1>6, <1>8

\* The same record over and over.
LEMMA Repeated ==
    ASSUME NEW T, NEW t \in T, NEW n \in Nat
    PROVE  [x \in 1 .. n |-> t] \in Seq(T) /\ Len([x \in 1 .. n |-> t]) = n
  OBVIOUS

\* A line parsed: its records, if it has a time, or one bad line more.
LEMMA RowParsed ==
    ASSUME CsvInv, ParseRow, HeaderFirst
    PROVE  MidParse'
<1> DEFINE B == BatchSize
           R == RowsOf(doc)
           G == Timed(doc)
           W == R \ G
           m == Cardinality(doc.columns)
           ts == IF IsRow(row) THEN RowTime(doc, row) ELSE {}
           added == [n \in 1 .. Cardinality(ts) * m |-> CHOOSE t \in ts : TRUE]
           all == buf \o added
           k == IF row \in G THEN 1 ELSE 0
<1>1. doc.loaded /\ row \in 1 .. Len(doc.lines) /\ row' = row + 1 /\ doc' = doc
  BY Zenon DEF ParseRow
<1>2. sent' = sent \o CutFrom(Len(sent), all)
  BY Zenon DEF ParseRow, CutFrom
<1>3. buf' = LeftOf(all)
  BY Zenon DEF ParseRow, LeftOf
<1>4. bad' = IF IsRow(row) /\ ts = {} THEN [bad EXCEPT !.parse = @ + 1] ELSE bad
  BY Zenon DEF ParseRow
<1>5. /\ doc.lines \in Seq(CsvLine) /\ doc.lines # <<>> /\ Len(doc.lines) \in Nat
      /\ doc.times = UNION {RowTime(doc, i) : i \in G}
      /\ m \in Nat /\ R \in SUBSET Nat /\ IsFiniteSet(G) /\ IsFiniteSet(W)
      /\ G \subseteq R
  BY <1>1, Loaded
<1>6. row \in Nat /\ row > 0
  BY <1>1, <1>5
<1>7. MidParse
  BY <1>1, <1>6 DEF CsvInv
<1>8. IsRow(row) <=> row \in R
  BY <1>1, <1>5, <1>6, SameRows
<1>9. row \in G <=> row \in R /\ RowTime(doc, row) # {}
  BY DEF Timed
<1>10. IF row \in G THEN \E t \in doc.times : ts = {t} ELSE ts = {}
  <2>1. CASE row \in G
    <3>1. ts = RowTime(doc, row) /\ ts # {}
      BY <2>1, <1>8, <1>9
    <3>2. PICK t : RowTime(doc, row) = {t}
      BY <3>1, OneRowTime, Zenon
    <3>3. t \in doc.times
      BY <3>2, <2>1, <1>5
    <3> QED
      BY <2>1, <3>1, <3>2, <3>3
  <2>2. CASE row \notin G
    BY <2>2, <1>8, <1>9
  <2> QED
    BY <2>1, <2>2
<1>11. row \in W <=> IsRow(row) /\ ts = {}
  BY <1>8, <1>9, <1>10
<1> HIDE DEF ts, R, G, m
<1>12. Cardinality(ts) = k /\ k \in Nat
  BY <1>10, FS_EmptySet, FS_Singleton
<1>13. added \in Seq(doc.times) /\ Len(added) = k * m
  <2>1. CASE row \in G
    <3>1. PICK t \in doc.times : ts = {t}
      BY <2>1, <1>10
    <3>2. (CHOOSE x \in ts : TRUE) = t
      BY <3>1
    <3>3. k * m = m /\ k = 1
      BY <2>1, <1>5
    <3>4. added = [n \in 1 .. m |-> t]
      BY <3>2, <3>3, <1>12
    <3> HIDE DEF added, k
    <3> QED
      BY <3>3, <3>4, <1>5, Repeated
  <2>2. CASE row \notin G
    <3>1. k * m = 0
      BY <2>2, <1>5
    <3>2. added = <<>>
      BY <3>1, <1>12
    <3> HIDE DEF added, k
    <3>3. <<>> \in Seq(doc.times) /\ Len(<<>>) = 0
      OBVIOUS
    <3> QED
      BY <3>1, <3>2, <3>3
  <2> QED
    BY <2>1, <2>2
<1> HIDE DEF added
<1>14. /\ FullBatches(sent, doc.times) /\ buf \in Seq(doc.times)
       /\ Len(sent) * B + Len(buf) = Cardinality(Above(G, row)) * m
       /\ bad.parse = Cardinality(Above(W, row))
  BY <1>7 DEF MidParse, G, R, m
<1>k. k = 0 \/ k = 1
  OBVIOUS
<1>15. all \in Seq(doc.times) /\ Len(all) = Len(buf) + k * m
  BY <1>13, <1>14, ConcatProperties
<1> HIDE DEF all
<1>16. /\ FullBatches(sent', doc.times) /\ buf' \in Seq(doc.times) /\ Len(buf') < B
       /\ Len(sent') * B + Len(buf') = Len(sent) * B + Len(all)
  BY <1>2, <1>3, <1>14, <1>15, CutIs
<1>17. /\ Cardinality(Above(G, row + 1)) = Cardinality(Above(G, row)) + k
       /\ Cardinality(Above(G, row)) \in Nat
  <2>1. G \in SUBSET Nat
    BY <1>5
  <2>2. CASE row \in G
    <3>1. Cardinality(Above(G, row + 1)) = Cardinality(Above(G, row)) + 1
      BY <2>1, <2>2, <1>5, <1>6, OneMore
    <3> QED
      BY <2>1, <2>2, <3>1, <1>5, <1>6, OneMore
  <2>3. CASE row \notin G
    <3>1. Above(G, row + 1) = Above(G, row) /\ Cardinality(Above(G, row)) \in Nat
      BY <2>1, <2>3, <1>5, <1>6, OneMore
    <3> QED
      BY <2>3, <3>1
  <2> QED
    BY <2>2, <2>3
<1>18. Len(sent') * B + Len(buf') = Cardinality(Above(G, row + 1)) * m
  <2> DEFINE c == Cardinality(Above(G, row))
             s == Len(sent) * B
  <2>1. (c + k) * m = c * m + k * m
    BY <1>17, <1>12, <1>5
  <2>2. s \in Nat /\ Len(buf) \in Nat /\ k * m \in Nat
    <3>1. Len(sent) \in Nat /\ B \in Nat
      BY <1>14, CsvAssumption DEF FullBatches
    <3> QED
      BY <3>1, <1>12, <1>14, <1>5
  <2> HIDE DEF c, s, k
  <2>3. s + Len(all) = (s + Len(buf)) + k * m
    BY <1>15, <2>2
  <2> QED
    BY <2>1, <2>3, <1>14, <1>16, <1>17 DEF c, s
<1>19. bad'.parse = Cardinality(Above(W, row + 1))
  <2>1. W \in SUBSET Nat
    BY <1>5
  <2>2. bad \in [{"load", "parse"} -> Nat]
    BY DEF CsvInv
  <2>3. CASE row \in W
    <3>1. bad'.parse = bad.parse + 1
      BY <2>2, <2>3, <1>4, <1>11
    <3>2. Cardinality(Above(W, row + 1)) = Cardinality(Above(W, row)) + 1
      BY <2>1, <2>3, <1>5, <1>6, OneMore
    <3> QED
      BY <3>1, <3>2, <1>14
  <2>4. CASE row \notin W
    <3>1. bad' = bad
      BY <2>4, <1>4, <1>11
    <3>2. Above(W, row + 1) = Above(W, row)
      BY <2>1, <2>4, <1>5, <1>6, OneMore
    <3> QED
      BY <3>1, <3>2, <1>14
  <2> QED
    BY <2>3, <2>4
<1> QED
  BY <1>1, <1>16, <1>18, <1>19 DEF MidParse, G, R, W, m, B

\* A file just loaded has nothing of it parsed.
LEMMA TableLoaded ==
    ASSUME CsvInv, LoadTable
    PROVE  CsvInv'
<1> DEFINE P(d) == /\ d.loaded /\ Len(d.lines) \in Nat /\ Cardinality(d.columns) \in Nat
                   /\ d.badLines \in Nat /\ RowsOf(d) \subseteq 1 .. Len(d.lines)
<1>1. /\ ~doc.loaded /\ doc' = Load(table.file, table.config) /\ row' = 1
      /\ table' = table /\ buf' = buf /\ sent' = sent
      /\ \E hits \in 0 .. 1 : claim' = ClaimOf(table.file, table.config, hits)
      /\ bad' = [bad EXCEPT !.load = doc'.badLines]
  BY Zenon DEF LoadTable
<1>2. table \in CsvTable /\ bad \in [{"load", "parse"} -> Nat]
  BY DEF CsvInv
<1>3. buf = <<>> /\ sent = <<>> /\ bad.parse = 0
  BY <1>1, Zenon DEF CsvInv
<1>4. P(doc')
  <2>1. \A file \in CsvFile : \A config : \A d : d = Load(file, config) => P(d)
    <3> SUFFICES ASSUME NEW file \in CsvFile, NEW config, NEW d, d = Load(file, config)
                 PROVE  P(d)
      BY Zenon
    <3>1. /\ d.loaded /\ d.lines \in Seq(CsvLine) /\ Cardinality(d.columns) \in Nat
          /\ d.badLines = Cardinality(RowsOf(d) \ Timed(d))
          /\ IsFiniteSet(RowsOf(d)) /\ RowsOf(d) \subseteq 1 .. Len(d.lines)
      BY LoadedFile, Zenon
    <3>2. Cardinality(RowsOf(d) \ Timed(d)) \in Nat
      <4>1. RowsOf(d) \ Timed(d) \subseteq RowsOf(d)
        OBVIOUS
      <4> QED
        BY <3>1, <4>1, FS_Subset, FS_CardinalityType
    <3>3. Len(d.lines) \in Nat
      BY <3>1
    <3> QED
      BY <3>1, <3>2, <3>3
  <2>2. table.file \in CsvFile
    BY <1>2 DEF CsvTable
  <2> HIDE DEF P
  <2> QED
    BY <1>1, <2>1, <2>2, Zenon
<1>5. bad' \in [{"load", "parse"} -> Nat] /\ bad'.load = doc'.badLines /\ bad'.parse = 0
  BY <1>1, <1>2, <1>3, <1>4
<1>6. row' \in -1 .. Len(doc'.lines) + 1
  BY <1>1, <1>4
<1>7. MidParse'
  <2>1. Above(Timed(doc'), 1) = {} /\ Above(RowsOf(doc') \ Timed(doc'), 1) = {}
    <3>1. \A i \in RowsOf(doc') : ~(i < 1)
      BY <1>4
    <3>2. Timed(doc') \subseteq RowsOf(doc')
      BY DEF Timed
    <3> QED
      BY <3>1, <3>2 DEF Above
  <2>2. FullBatches(sent', doc'.times)
    BY <1>1, <1>3 DEF FullBatches
  <2>3. buf' \in Seq(doc'.times) /\ Len(buf') = 0 /\ Len(sent') = 0 /\ Len(buf') < BatchSize
    BY <1>1, <1>3, CsvAssumption
  <2>4. Cardinality({}) = 0
    BY FS_EmptySet
  <2>5. 0 * BatchSize + 0 = 0 * Cardinality(doc'.columns)
    BY <1>4, CsvAssumption
  <2>6. Len(sent') * BatchSize + Len(buf')
          = Cardinality(Above(Timed(doc'), row')) * Cardinality(doc'.columns)
    BY <1>1, <2>1, <2>3, <2>4, <2>5
  <2>7. bad'.parse = Cardinality(Above(RowsOf(doc') \ Timed(doc'), row'))
    BY <1>1, <1>5, <2>1, <2>4
  <2> QED
    BY <2>2, <2>3, <2>6, <2>7, Zenon DEF MidParse
<1>8. doc'.loaded /\ ~Ended'
  BY <1>1, <1>4 DEF Ended
<1>9. \E hits \in 0 .. 1 : claim' = ClaimOf(table'.file, table'.config, hits)
  BY <1>1, Zenon
<1>10. doc' = Load(table'.file, table'.config)
  BY <1>1, Zenon
<1> QED
  BY <1>1, <1>2, <1>5, <1>6, <1>7, <1>8, <1>9, <1>10, Zenon DEF CsvInv, TwoPassesAgree

\* The parse at its end: what was announced was sent.
LEMMA ParseEnded ==
    ASSUME CsvInv, LastBatch, HeaderFirst
    PROVE  TwoPassesAgree'
<1> DEFINE T == doc.times
           n == Len(sent)
           last == Batch(n, buf, TRUE)
           R == RowsOf(doc)
           G == Timed(doc)
           W == R \ G
<1>1. /\ doc.loaded /\ row = Len(doc.lines) + 1 /\ row' = 0 /\ doc' = doc /\ bad' = bad
      /\ sent' = Append(sent, last)
  BY Zenon DEF LastBatch
<1>2. /\ Len(doc.lines) \in Nat /\ doc.badLines = Cardinality(W)
      /\ doc.hint = Cardinality(G) * Cardinality(doc.columns)
      /\ R \subseteq 1 .. Len(doc.lines) /\ G \subseteq R
  BY <1>1, Loaded
<1>3. row > 0
  BY <1>1, <1>2
<1>4. /\ FullBatches(sent, T) /\ buf \in Seq(T)
      /\ n * BatchSize + Len(buf) = Cardinality(Above(G, row)) * Cardinality(doc.columns)
      /\ bad.parse = Cardinality(Above(W, row)) /\ bad.load = doc.badLines
  BY <1>1, <1>3 DEF CsvInv, MidParse
<1>5. Above(G, row) = G /\ Above(W, row) = W
  <2>1. \A i \in R : i < row
    BY <1>1, <1>2
  <2> QED
    BY <2>1, <1>2 DEF Above
<1> HIDE DEF R, G, T, last, n
<1>6. /\ sent' \in Seq(Batches(T))
      /\ Records(sent') = n * BatchSize + Len(buf)
      /\ \A i \in DOMAIN sent' : sent'[i].seq = i - 1 /\ (sent'[i].done <=> i = Len(sent'))
  <2>1. AllSent(Append(sent, last), T, n * BatchSize + Len(buf))
    <3>1. n = Len(sent) /\ last = Batch(n, buf, TRUE)
      BY DEF n, last
    <3> QED
      BY <3>1, <1>4, RecordsSent
  <2>2. AllSent(sent', T, n * BatchSize + Len(buf))
    BY <1>1, <2>1, Zenon
  <2> QED
    BY <2>2 DEF AllSent
<1>7. Records(sent') = doc.hint
  BY <1>2, <1>4, <1>5, <1>6
<1>8. bad.parse = bad.load
  BY <1>2, <1>4, <1>5
<1>9. \A b \in Range(sent') : Range(b.times) \subseteq T
  <2> SUFFICES ASSUME NEW i \in DOMAIN sent' PROVE Range(sent'[i].times) \subseteq T
    BY DEF Range
  <2>1. sent'[i] \in Batches(T)
    BY <1>6
  <2>2. sent'[i].times \in Seq(T)
    BY <2>1 DEF Batches
  <2> QED
    BY <2>2 DEF Range
<1> QED
  BY <1>1, <1>6, <1>7, <1>8, <1>9, Zenon DEF TwoPassesAgree, T

\* Nothing is loaded or sent at the start.
LEMMA CsvStart == CsvInit(CsvTable) => CsvInv
<1> SUFFICES ASSUME CsvInit(CsvTable) PROVE CsvInv
  OBVIOUS
<1>1. ~doc.loaded /\ buf = <<>> /\ sent = <<>> /\ table \in CsvTable
  BY DEF CsvInit, NoDoc
<1>2. bad \in [{"load", "parse"} -> Nat] /\ bad.parse = 0
  BY DEF CsvInit
<1> QED
  BY <1>1, <1>2 DEF CsvInv, TwoPassesAgree, Ended

\* Loading, a line, the last batch and the cancel flag: none breaks CsvInv.
LEMMA CsvStep == CsvInv /\ [CsvNext]_csv => CsvInv'
<1> SUFFICES ASSUME CsvInv, [CsvNext]_csv PROVE CsvInv'
  OBVIOUS
<1>1. CASE LoadTable
  BY <1>1, TableLoaded
<1>2. CASE ParseRow
  <2>1. /\ doc.loaded /\ row \in 1 .. Len(doc.lines) /\ row' = row + 1
        /\ doc' = doc /\ table' = table /\ claim' = claim
    BY <1>2, Zenon DEF ParseRow
  <2>2. bad' = bad \/ bad' = [bad EXCEPT !.parse = @ + 1]
    BY <1>2, Zenon DEF ParseRow
  <2>3. bad \in [{"load", "parse"} -> Nat] /\ bad.load = doc.badLines
    BY <2>1 DEF CsvInv
  <2>4. bad' \in [{"load", "parse"} -> Nat] /\ bad'.load = doc'.badLines
    BY <2>1, <2>2, <2>3
  <2>5. Len(doc.lines) \in Nat
    BY <2>1, Loaded
  <2>6. row' \in -1 .. Len(doc'.lines) + 1 /\ row' # 0
    BY <2>1, <2>5
  <2>7. HeaderFirst' => MidParse'
    <3>1. HeaderFirst' = HeaderFirst
      BY <2>1 DEF HeaderFirst
    <3> QED
      BY <3>1, <1>2, RowParsed
  <2>8. TwoPassesAgree'
    BY <2>6 DEF TwoPassesAgree, Ended
  <2>9. /\ table' \in CsvTable /\ doc'.loaded /\ doc' = Load(table'.file, table'.config)
        /\ \E hits \in 0 .. 1 : claim' = ClaimOf(table'.file, table'.config, hits)
    BY <2>1, Zenon DEF CsvInv
  <2> QED
    BY <2>4, <2>6, <2>7, <2>8, <2>9, Zenon DEF CsvInv
<1>3. CASE LastBatch
  <2>1. /\ doc.loaded /\ row' = 0 /\ bad' = bad
        /\ doc' = doc /\ table' = table /\ claim' = claim
    BY <1>3, Zenon DEF LastBatch
  <2>2. Len(doc.lines) \in Nat
    BY <2>1, Loaded
  <2>3. row' \in -1 .. Len(doc'.lines) + 1 /\ ~(row' > 0)
    BY <2>1, <2>2
  <2>4. TwoPassesAgree'
    <3>1. CASE HeaderFirst
      BY <3>1, <1>3, ParseEnded
    <3>2. CASE ~HeaderFirst
      <4>1. ~HeaderFirst'
        BY <2>1, <3>2 DEF HeaderFirst
      <4> QED
        BY <4>1, Zenon DEF TwoPassesAgree
    <3> QED
      BY <3>1, <3>2
  <2>5. /\ table' \in CsvTable /\ doc'.loaded /\ doc' = Load(table'.file, table'.config)
        /\ bad' \in [{"load", "parse"} -> Nat] /\ bad'.load = doc'.badLines
        /\ \E hits \in 0 .. 1 : claim' = ClaimOf(table'.file, table'.config, hits)
    BY <2>1, Zenon DEF CsvInv
  <2> QED
    BY <2>3, <2>4, <2>5, Zenon DEF CsvInv
<1>4. CASE StopParse
  <2>1. /\ doc.loaded /\ row' = -1 /\ bad' = bad
        /\ doc' = doc /\ table' = table /\ claim' = claim
    BY <1>4, Zenon DEF StopParse
  <2>2. Len(doc.lines) \in Nat
    BY <2>1, Loaded
  <2>3. row' \in -1 .. Len(doc'.lines) + 1 /\ ~(row' > 0) /\ row' # 0
    BY <2>1, <2>2
  <2>4. TwoPassesAgree'
    BY <2>3 DEF TwoPassesAgree, Ended
  <2>5. /\ table' \in CsvTable /\ doc'.loaded /\ doc' = Load(table'.file, table'.config)
        /\ bad' \in [{"load", "parse"} -> Nat] /\ bad'.load = doc'.badLines
        /\ \E hits \in 0 .. 1 : claim' = ClaimOf(table'.file, table'.config, hits)
    BY <2>1, Zenon DEF CsvInv
  <2> QED
    BY <2>3, <2>4, <2>5, Zenon DEF CsvInv
<1>5. CASE UNCHANGED csv
  BY <1>5 DEF csv, CsvInv, MidParse, TwoPassesAgree, Ended, HeaderFirst
<1> QED
  BY <1>1, <1>2, <1>3, <1>4, <1>5 DEF CsvNext

\* Types, the claim, the frozen counts and what is sent of them hold together
\* in every run of the CSV plugin, on any file under any configuration.
THEOREM CsvInvariance == CsvSpec => []CsvInv
<1> QED
  BY CsvStart, CsvStep, PTL DEF CsvSpec

\* TwoPassesAgree (CsvEngine): for every file, configuration and batch size,
\* parse_file sends as many records as load_file put into total_records_hint,
\* without a gap, inside its time range, and counts the same bad lines
\* (engine.rs:340-387, 506-620).
THEOREM PassesAgree == CsvSpec => []TwoPassesAgree
<1>1. CsvInv => TwoPassesAgree
  BY Zenon DEF CsvInv
<1> QED
  BY <1>1, CsvInvariance, PTL

\* LoadKeepsClaim (CsvEngine): a file can_handle claimed for its time column has
\* one when load_file freezes the columns (engine.rs:454, 206-340).
THEOREM ClaimsKept == CsvSpec => []LoadKeepsClaim
<1> QED
  BY KeepsClaim, CsvInvariance, PTL

===============================================================================
