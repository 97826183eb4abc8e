--------------------------- MODULE ListenerPromise ---------------------------
(***************************************************************************)
(* What a client of GET /events may expect, whatever rings, queues and     *)
(* tasks lie between it and the hub: it sees events of the hub's order one *)
(* by one, steps over none it is due, and when it cannot be shown all of   *)
(* them it is told so and shown nothing more.  It is told so only if more  *)
(* events have come after the last it was shown than the hub keeps.        *)
(***************************************************************************)
EXTENDS Naturals, Sequences

CONSTANTS
  Filters,   \* the filters a client may ask for: sets of ids it wants
  Kept,      \* the number of events the hub keeps for those who are behind
  Lost       \* the notice that events were lost, no position

VARIABLES
  events,    \* the hub's order
  client,    \* "away", "listening" or "gone"
  since,     \* events before it came
  filter,
  shown      \* the events it was shown, by their positions, and the notice

vars == <<events, client, since, filter, shown>>

Init ==
  /\ events = <<>> /\ client = "away" /\ since = 0 /\ filter = {} /\ shown = <<>>

\* The position of the last event the client knows of.
Last == IF shown = <<>> THEN since ELSE shown[Len(shown)]

\* What the client wants, and what of it must be shown: a progress may be
\* passed over for a later one, unless it is the file's last.
Wants(e) == e.kind = "reloaded" \/ e.id \in filter
Due(e)   == Wants(e) /\ (e.kind = "progress" => e.val = "full")

Publish ==
  /\ Len(events') = Len(events) + 1
  /\ \A p \in 1 .. Len(events) : events'[p] = events[p]
  /\ UNCHANGED <<client, since, filter, shown>>

Listen ==
  /\ client = "away" /\ client' = "listening"
  /\ since' = Len(events) /\ filter' \in Filters
  /\ UNCHANGED <<events, shown>>

Show(p) ==
  /\ client = "listening"
  /\ Last < p /\ Wants(events[p])
  /\ \A q \in Last + 1 .. p - 1 : ~Due(events[q])
  /\ shown' = Append(shown, p)
  /\ UNCHANGED <<events, client, since, filter>>

LoseTrack ==
  /\ client = "listening" /\ client' = "gone"
  /\ Len(events) > Last + Kept
  /\ shown' = Append(shown, Lost)
  /\ UNCHANGED <<events, since, filter>>

Leave ==
  /\ client = "listening" /\ client' = "gone"
  /\ UNCHANGED <<events, since, filter, shown>>

Next == Publish \/ Listen \/ (\E p \in 1 .. Len(events) : Show(p)) \/ LoseTrack \/ Leave

Spec == Init /\ [][Next]_vars
=============================================================================
