------------------------------- MODULE EventHub -------------------------------
(***************************************************************************)
(* From the host's and the pipeline's events to a client's SSE frames:     *)
(* the forwarder of core/ab-server/src/hub.rs with the conversion, the     *)
(* plugin facts and the throttle of core/ab-engine/src/events.rs, the      *)
(* hub's broadcast ring, and the task and bounded queue of a subscriber.   *)
(*                                                                         *)
(* A broadcast ring keeps its last events: a receiver that falls behind    *)
(* its capacity is told that it has lagged and goes on at the oldest event *)
(* that is left.  The rings are whole histories here; a receiver is its    *)
(* position.                                                               *)
(***************************************************************************)
EXTENDS Naturals, Sequences

CONSTANTS
  Plugin, File,   \* the plugin and the file the events are about
  Filters,        \* the filters a client may ask for: sets of ids it wants
  HostCap,        \* capacity of the host's event channel
  HubCap,         \* HUB_CAPACITY
  QueueCap,       \* SUBSCRIBER_QUEUE
  MaxHost,        \* bound on the host's events
  MaxPipeline     \* bound on the pipeline's events

ASSUME HubAssumption == HostCap \in Nat /\ HubCap \in Nat

VARIABLES
  host,       \* every event the host has sent
  hostPos,    \* how many of them the forwarder has passed
  pipeline,   \* events in the unbounded channel of the coordinator
  produced,   \* how many it has sent
  failures,   \* sessions of the plugin that have ended
  forwarder,  \* the forwarder task
  lastError,  \* PluginMeta::last_errors: the failure it tells of, 0 if none
  published,  \* every event the hub has sent
  sub,        \* the subscriber's task
  start,      \* published events before it subscribed
  pos,        \* events the task has received
  held,       \* the item it is about to put into its queue
  queue,      \* the queue between it and the stream
  filter, emitted, done,  \* SseEventStream: filter, files with a last_emit, done
  frames      \* what the client has got: positions in published, Lag for error

sourceVars == <<host, pipeline, produced, failures>>
hubVars    == <<hostPos, forwarder, lastError, published>>
subVars    == <<sub, start, pos, held>>
streamVars == <<filter, emitted, done, frames>>
hubAllVars == <<sourceVars, hubVars, subVars, queue, streamVars>>

Lag == 0
Event(k, i, v, n) == [kind |-> k, id |-> i, val |-> v, n |-> n, detail |-> 0]

HubInit ==
  /\ host = <<>> /\ pipeline = <<>> /\ produced = 0 /\ failures = 0
  /\ hostPos = 0 /\ forwarder = "on" /\ lastError = 0 /\ published = <<>>
  /\ sub = "none" /\ start = 0 /\ pos = 0 /\ held = <<>> /\ queue = <<>>
  /\ filter = {} /\ emitted = {} /\ done = FALSE /\ frames = <<>>

-----------------------------------------------------------------------------
(* The sources *)

\* The session says crashed first and sends its SessionTerminated, with the
\* summary of stderr, some time after.
Ended == \E i \in 1 .. Len(host) : host[i].kind = "end" /\ host[i].n = failures
Up    == failures = 0 \/ Ended

HostEvent ==
  LET Send(e) == host' = Append(host, e)
  IN  /\ Len(host) < MaxHost
      /\ \/ Up /\ Send(Event("state", Plugin, "ready", 0)) /\ UNCHANGED failures
         \/ Up /\ failures' = failures + 1 /\ Send(Event("state", Plugin, "crashed", failures + 1))
         \/ ~Up /\ Send(Event("end", Plugin, "crashed", failures)) /\ UNCHANGED failures
         \/ \E k \in {"log", "reloaded"} : Send(Event(k, Plugin, "", 0)) /\ UNCHANGED failures
         \/ /\ \E v \in {"part", "full"} : Send(Event("progress", File, v, 0))
            /\ UNCHANGED failures
      /\ UNCHANGED <<pipeline, produced, hubVars, subVars, queue, streamVars>>

PipelineEvent ==
  /\ produced < MaxPipeline /\ produced' = produced + 1
  /\ \E v \in {"part", "full"} : pipeline' = Append(pipeline, Event("progress", File, v, 0))
  /\ UNCHANGED <<host, failures, hubVars, subVars, queue, streamVars>>

-----------------------------------------------------------------------------
(* The forwarder *)

\* PluginMeta::record
Record(e) ==
  lastError' = CASE e.kind = "state" /\ e.val = "ready" -> 0
                 [] e.kind = "end" -> e.n
                 [] OTHER -> lastError

\* convert: SessionTerminated is not mapped.
Convert(e) == IF e.kind = "end" THEN <<>> ELSE <<e>>

\* A failed state without a detail takes the plugin's last failure summary.
Detail(e) == IF e.kind = "state" /\ e.val = "crashed" THEN lastError' ELSE 0

Publish(es) ==
  published' = published \o [i \in 1 .. Len(es) |-> [es[i] EXCEPT !.detail = Detail(es[i])]]

\* forward_host
ForwardHost ==
  /\ forwarder = "on" /\ hostPos < Len(host) /\ Len(host) - hostPos <= HostCap
  /\ LET e == host[hostPos + 1] IN Record(e) /\ Publish(Convert(e))
  /\ hostPos' = hostPos + 1
  /\ UNCHANGED <<sourceVars, forwarder, subVars, queue, streamVars>>

\* Lagged: the loop just goes on, with the oldest event that is left.
ForwarderLags ==
  /\ forwarder = "on" /\ Len(host) - hostPos > HostCap
  /\ hostPos' = Len(host) - HostCap
  /\ UNCHANGED <<sourceVars, forwarder, lastError, published, subVars, queue, streamVars>>

\* convert_pipeline: only ParseProgress is mapped, and the forwarder's own
\* throttle has no window.
ForwardPipeline ==
  /\ forwarder = "on" /\ pipeline # <<>>
  /\ published' = Append(published, Head(pipeline))
  /\ pipeline' = Tail(pipeline)
  /\ UNCHANGED <<host, produced, failures, hostPos, forwarder, lastError, subVars, queue,
                 streamVars>>

\* Either channel closes: the other one is not read to its end.
ForwarderEnds ==
  /\ forwarder = "on" /\ (hostPos = Len(host) \/ pipeline = <<>>)
  /\ forwarder' = "off"
  /\ UNCHANGED <<sourceVars, hostPos, lastError, published, subVars, queue, streamVars>>

-----------------------------------------------------------------------------
(* A subscriber *)

\* GET /events: its task starts where the ring is now.
Subscribe ==
  /\ sub = "none" /\ sub' = "recv"
  /\ start' = Len(published) /\ pos' = Len(published)
  /\ filter' \in Filters
  /\ UNCHANGED <<sourceVars, hubVars, held, queue, emitted, done, frames>>

\* Mutant: a lag is skipped over, as the forwarder does.
ReceiveSkipping ==
  /\ sub = "recv" /\ pos < Len(published)
  /\ IF Len(published) - pos > HubCap
     THEN pos' = Len(published) - HubCap /\ UNCHANGED <<held, sub>>
     ELSE held' = <<pos + 1>> /\ pos' = pos + 1 /\ sub' = "send"
  /\ UNCHANGED <<sourceVars, hubVars, start, queue, streamVars>>

\* The task receives the next event, or hears that it has lagged.
Receive ==
  /\ sub = "recv" /\ pos < Len(published)
  /\ IF Len(published) - pos > HubCap
     THEN held' = <<Lag>> /\ pos' = Len(published) - HubCap
     ELSE held' = <<pos + 1>> /\ pos' = pos + 1
  /\ sub' = "send"
  /\ UNCHANGED <<sourceVars, hubVars, start, queue, streamVars>>

\* It waits for room in the queue.  After a lag it stops.
Deliver ==
  /\ sub = "send" /\ ~done /\ Len(queue) < QueueCap
  /\ queue' = queue \o held /\ held' = <<>>
  /\ sub' = IF held = <<Lag>> THEN "closed" ELSE "recv"
  /\ UNCHANGED <<sourceVars, hubVars, start, pos, streamVars>>

\* The client is gone: the next send fails and the task ends.
SendFails ==
  /\ sub = "send" /\ done /\ held' = <<>> /\ sub' = "closed"
  /\ UNCHANGED <<sourceVars, hubVars, start, pos, queue, streamVars>>

Wanted(e) == e.kind = "reloaded" \/ e.id \in filter
Full(e)   == e.kind = "progress" /\ e.val = "full"

\* ProgressThrottle::accept: a full progress always passes, another one if the
\* file has no last_emit or its window is over.
Accepts(e, windowOver) == Full(e) \/ e.id \notin emitted \/ windowOver

\* SseEventStream::poll_next with visible.
Poll ==
  /\ queue # <<>> /\ ~done /\ queue' = Tail(queue)
  /\ IF Head(queue) = Lag
     THEN done' = TRUE /\ frames' = Append(frames, Lag) /\ UNCHANGED emitted
     ELSE LET e == published[Head(queue)] IN
          \E windowOver \in BOOLEAN :
            LET seen == Wanted(e) /\ (e.kind # "progress" \/ Accepts(e, windowOver)) IN
            /\ frames' = IF seen THEN Append(frames, Head(queue)) ELSE frames
            /\ emitted' = IF seen /\ e.kind = "progress" THEN emitted \cup {e.id} ELSE emitted
            /\ UNCHANGED done
  /\ UNCHANGED <<sourceVars, hubVars, subVars, filter>>

Disconnect ==
  /\ sub # "none" /\ ~done /\ done' = TRUE /\ queue' = <<>>
  /\ UNCHANGED <<sourceVars, hubVars, subVars, filter, emitted, frames>>

HubNext ==
  \/ HostEvent \/ PipelineEvent
  \/ ForwardHost \/ ForwarderLags \/ ForwardPipeline \/ ForwarderEnds
  \/ Subscribe \/ Receive \/ Deliver \/ SendFails \/ Poll \/ Disconnect

HubSpec == HubInit /\ [][HubNext]_hubAllVars

-----------------------------------------------------------------------------
(* Properties *)

\* What a subscriber must see: what its filter wants, but for a progress the
\* throttle may swallow, which the one at 100% is not.
Owed(p) == Wanted(published[p]) /\ (published[p].kind # "progress" \/ Full(published[p]))

Among(p, s) == \E i \in 1 .. Len(s) : s[i] = p

\* A client's frames have no silent gap: they come in the hub's order, and of
\* all events from its subscription up to one of its frames none it is owed is
\* missing.  A gap shows as the error frame, and that is the last one.
NoSilentGap ==
  /\ \A i \in 1 .. Len(frames) : frames[i] = Lag => i = Len(frames)
  /\ \A i, j \in 1 .. Len(frames) : i < j /\ frames[j] # Lag => frames[i] < frames[j]
  /\ \A i \in 1 .. Len(frames), p \in start + 1 .. Len(published) :
       p < frames[i] /\ Owed(p) => Among(p, frames)

\* The subscription keeps ListenerPromise: from the ring over the subscriber's
\* task, its queue and its stream, each frame is the next one the client may be
\* shown, none it is owed is stepped over, and it hears of a lag only if it has
\* fallen behind the ring.
Listener == IF sub = "none" THEN "away" ELSE IF done THEN "gone" ELSE "listening"
Promise  == INSTANCE ListenerPromise
              WITH Kept <- HubCap, Lost <- Lag, events <- published, client <- Listener,
                   since <- start, shown <- frames
HubPromise == Promise!Spec

-----------------------------------------------------------------------------
(* The inductive invariant of ServerProofs *)

Events == [kind : {"state", "end", "log", "reloaded", "progress"}, id : {Plugin, File},
           val : {"ready", "crashed", "", "part", "full"}, n : Nat, detail : Nat]

HubTypeOK ==
  /\ host \in Seq(Events) /\ pipeline \in Seq(Events) /\ produced \in Nat
  /\ failures \in Nat /\ hostPos \in 0 .. Len(host) /\ forwarder \in {"on", "off"} /\ lastError \in Nat
  /\ published \in Seq(Events)
  /\ sub \in {"none", "recv", "send", "closed"} /\ start \in Nat /\ pos \in Nat
  /\ held \in Seq(Nat) /\ queue \in Seq(Nat) /\ done \in BOOLEAN /\ frames \in Seq(Nat)

\* The task has one item in hand while it sends; nothing is there before the
\* subscription, or in the queue once the stream is done.
TaskInv ==
  /\ start <= pos /\ pos <= Len(published)
  /\ sub = "none" => queue = <<>> /\ frames = <<>> /\ ~done
  /\ IF sub = "send" THEN start < pos /\ held \in {<<Lag>>, <<pos>>} ELSE held = <<>>
  /\ done => queue = <<>>

\* A receiver's items: positions in the hub's order, up to where the task is;
\* a lag comes last, and the task ends with it.
InOrder(s) ==
  /\ \A i \in 1 .. Len(s) : s[i] = Lag => i = Len(s) /\ sub = "closed"
  /\ \A i \in 1 .. Len(s) : s[i] <= pos /\ (held = <<pos>> => s[i] < pos)
  /\ \A i, j \in 1 .. Len(s) : i < j /\ s[j] # Lag => s[i] < s[j]

OrderInv ==
  /\ InOrder(frames) /\ InOrder(queue)
  /\ ~done => \A i \in 1 .. Len(frames), j \in 1 .. Len(queue) :
                frames[i] # Lag /\ (queue[j] # Lag => frames[i] < queue[j])

\* Nothing owed is lost on the way: below a frame it is a frame, below an item
\* in the queue it is a frame or in the queue, and while no lag is told of that
\* is so of all the task has received but the item in its hand.
PathInv ==
  /\ \A i \in 1 .. Len(frames), p \in start + 1 .. Len(published) :
       p < frames[i] /\ Owed(p) => Among(p, frames)
  /\ \A j \in 1 .. Len(queue), p \in start + 1 .. Len(published) :
       p < queue[j] /\ Owed(p) => Among(p, frames) \/ Among(p, queue)
  /\ ~done /\ (sub = "recv" \/ held = <<pos>>) =>
       \A p \in start + 1 .. pos :
         Owed(p) => Among(p, frames) \/ Among(p, queue) \/ held = <<p>>

HubInv == HubTypeOK /\ TaskInv /\ OrderInv /\ PathInv

\* What the promise needs besides: nothing is queued or shown from before the
\* subscription, and while a lag is in the task's hand or on its way to the client
\* the ring has overtaken the task, which is past all that is shown or queued.
LagInv ==
  /\ \A i \in 1 .. Len(frames) : frames[i] # Lag => start < frames[i]
  /\ \A j \in 1 .. Len(queue) : queue[j] # Lag => start < queue[j]
  /\ held = <<Lag>> \/ Among(Lag, queue) =>
       /\ start < pos /\ pos + HubCap <= Len(published)
       /\ \A i \in 1 .. Len(frames) : frames[i] < pos
       /\ \A j \in 1 .. Len(queue) : queue[j] < pos
=============================================================================
