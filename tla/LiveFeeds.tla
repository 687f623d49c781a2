----------------------------- MODULE LiveFeeds -----------------------------
(***************************************************************************)
(* What the backend shows of a session while it happens: the activity of   *)
(* the agents, stored by a background writer and handed to those who observe *)
(* (observability/activity.py, sessions/routers/ws.py), and interventions, *)
(* sent to every tab of the learner (sessions/ws/gateway.py).              *)
(***************************************************************************)
EXTENDS Absent, Naturals, FiniteSetsExt, SequencesExt

CONSTANTS
  Sockets,       \* of observers and of tabs
  WriteQueue,    \* queue_size
  FrameQueue,    \* maxsize of an observer's queue
  PruneEvery,    \* _PRUNE_EVERY
  Retention,     \* retention_per_session
  MaxEmitted,    \* bound: events, which are numbered in the order of their ts
  MaxHints       \* bound: interventions

ASSUME FeedAssumption ==
  /\ {WriteQueue, FrameQueue, PruneEvery, Retention} \subseteq Nat \ {0}
  /\ {MaxEmitted, MaxHints} \subseteq Nat

VARIABLES
  feed,        \* which feed the behaviour follows: "activity" or "hints"
  emitted,     \* events so far
  writes,      \* the queue of the writer
  writer,      \* the writer: what it has taken, or the step it is at
  since,       \* _since_prune
  saved,       \* events ever committed
  kept,        \* those that are stored
  slips,       \* prunes that failed and processes that ended
  lost,        \* events that the queue, a failed write or the end of the process lost
  socket,      \* the handlers: what is queued for each, what it was shown and what it missed
  registry,    \* _active_connections
  hints,       \* interventions so far
  sending      \* sockets that the intervention under way has yet to be sent to

feedVars == <<feed, emitted, writes, writer, since, saved, kept, slips, lost, socket, registry, hints, sending>>

Gone == [on |-> FALSE, queue |-> <<>>, shown |-> <<>>, from |-> 0, missed |-> {}]
Open(s) == socket[s].on
Idle == [pc |-> "idle", event |-> None]

FeedInit ==
  /\ feed \in {"activity", "hints"}
  /\ emitted = 0 /\ writes = <<>> /\ writer = Idle /\ since = 0 /\ saved = {} /\ kept = {}
  /\ slips = 0 /\ lost = {}
  /\ socket = [s \in Sockets |-> Gone] /\ registry = {} /\ hints = 0 /\ sending = {}
-----------------------------------------------------------------------------
(* AgentActivityLog *)

\* emit: each observer's queue and the writer's take the event, or drop it when full.
Emit ==
  /\ feed = "activity" /\ emitted < MaxEmitted /\ emitted' = emitted + 1
  /\ socket' = [s \in Sockets |->
       IF ~Open(s) THEN socket[s]
       ELSE IF Len(socket[s].queue) < FrameQueue THEN [socket[s] EXCEPT !.queue = Append(@, emitted + 1)]
       ELSE [socket[s] EXCEPT !.missed = @ \cup {emitted + 1}]]
  /\ IF Len(writes) < WriteQueue THEN writes' = Append(writes, emitted + 1) /\ UNCHANGED lost
     ELSE lost' = lost \cup {emitted + 1} /\ UNCHANGED writes
  /\ UNCHANGED <<feed, writer, since, saved, kept, slips, registry, hints, sending>>

WriterTakes ==
  /\ writer.pc = "idle" /\ writes # <<>>
  /\ writer' = [pc |-> "write", event |-> Head(writes)] /\ writes' = Tail(writes)
  /\ UNCHANGED <<feed, emitted, since, saved, kept, slips, lost, socket, registry, hints, sending>>

\* _persist: the row is committed, and counted.
PersistActivity ==
  /\ writer.pc = "write"
  /\ saved' = saved \cup {writer.event} /\ kept' = kept \cup {writer.event}
  /\ IF since + 1 >= PruneEvery THEN since' = 0 /\ writer' = [Idle EXCEPT !.pc = "prune"]
     ELSE since' = since + 1 /\ writer' = Idle
  /\ UNCHANGED <<feed, emitted, writes, slips, lost, socket, registry, hints, sending>>

PersistFails ==
  /\ writer.pc = "write"
  /\ lost' = lost \cup {writer.event} /\ writer' = Idle
  /\ UNCHANGED <<feed, emitted, writes, since, saved, kept, slips, socket, registry, hints, sending>>

\* _prune: what lies beyond the latest Retention events.
Beyond(r) == {e \in r : Cardinality({d \in r : d > e}) >= Retention}
Prune ==
  /\ writer.pc = "prune"
  /\ kept' = kept \ Beyond(kept) /\ writer' = Idle
  /\ UNCHANGED <<feed, emitted, writes, since, saved, slips, lost, socket, registry, hints, sending>>

PruneFails ==
  /\ writer.pc = "prune"
  /\ slips' = slips + 1 /\ writer' = Idle
  /\ UNCHANGED <<feed, emitted, writes, since, saved, kept, lost, socket, registry, hints, sending>>

\* stop lets the queue drain; a process that dies does not.
ProcessEnds(drained) ==
  /\ feed = "activity" /\ emitted > 0 /\ slips = 0
  /\ drained => writes = <<>> /\ writer.pc = "idle"
  /\ lost' = lost \cup ToSet(writes) \cup (IF writer.pc = "write" THEN {writer.event} ELSE {})
  /\ writes' = <<>> /\ writer' = Idle /\ since' = 0 /\ slips' = slips + 1
  /\ socket' = [s \in Sockets |-> Gone] /\ registry' = {}
  /\ UNCHANGED <<feed, emitted, saved, kept, hints, sending>>
-----------------------------------------------------------------------------
(* Sockets *)

\* session_activity_observe_ws, session_interventions_ws; a socket that comes back is a new
\* one, which is not in the round that counts the old one.
Connect(s) ==
  /\ ~Open(s) /\ s \notin sending
  /\ socket' = [socket EXCEPT ![s] = [Gone EXCEPT !.on = TRUE,
                  !.from = IF feed = "activity" THEN emitted ELSE hints]]
  /\ registry' = registry \cup {s}
  /\ UNCHANGED <<feed, emitted, writes, writer, since, saved, kept, slips, lost, hints, sending>>

Pump(s) ==
  /\ feed = "activity" /\ Open(s) /\ socket[s].queue # <<>>
  /\ socket' = [socket EXCEPT ![s].shown = Append(@, Head(socket[s].queue)), ![s].queue = Tail(@)]
  /\ UNCHANGED <<feed, emitted, writes, writer, since, saved, kept, slips, lost, registry, hints, sending>>

\* The client goes, or a frame cannot be sent: the handler leaves every set it is in.
Disconnect(s) ==
  /\ Open(s)
  /\ socket' = [socket EXCEPT ![s] = Gone] /\ registry' = registry \ {s}
  /\ UNCHANGED <<feed, emitted, writes, writer, since, saved, kept, slips, lost, hints, sending>>

\* send_intervention: to the tabs that are open now, one after another.
SendHint ==
  /\ feed = "hints" /\ sending = {} /\ hints < MaxHints
  /\ hints' = hints + 1 /\ sending' = {s \in Sockets : Open(s)}
  /\ UNCHANGED <<feed, emitted, writes, writer, since, saved, kept, slips, lost, socket, registry>>

StopAtFailure(s) == {}     \* mutant: one failure ends the round
GoOn(s) == sending \ {s}
SendTo(s) ==
  /\ s \in sending
  /\ IF Open(s) THEN sending' = sending \ {s} /\ socket' = [socket EXCEPT ![s].shown = Append(@, hints)]
     ELSE sending' = GoOn(s) /\ UNCHANGED socket
  /\ UNCHANGED <<feed, emitted, writes, writer, since, saved, kept, slips, lost, registry, hints>>

FeedNext ==
  \/ Emit \/ WriterTakes \/ PersistActivity \/ PersistFails \/ Prune \/ PruneFails \/ SendHint
  \/ \E drained \in BOOLEAN : ProcessEnds(drained)
  \/ \E s \in Sockets : Connect(s) \/ Pump(s) \/ Disconnect(s) \/ SendTo(s)

FeedSpec == FeedInit /\ [][FeedNext]_feedVars
-----------------------------------------------------------------------------
InOrder(s) == \A i, j \in DOMAIN s : i < j => s[i] < s[j]
Pending == ToSet(writes) \cup (IF writer.pc = "write" THEN {writer.event} ELSE {})

\* Every event is kept, on its way or lost to a full queue, a failed write or the end of
\* the process; one that was kept is gone only if as many newer ones as are retained were
\* kept too, and the rows outgrow the retention by less than a pruning period, and by
\* one more for each prune that failed and each process that ended.  An observer is shown,
\* in order, all that was emitted since they came, but for what found their queue full;
\* a tab gets every intervention sent since it came, also when another one has failed
\* (observability/activity.py:72, 111; gateway.py:71).
FeedSound ==
  /\ 1 .. emitted = saved \cup Pending \cup lost
  /\ \A e \in saved \ kept : Cardinality({d \in saved : d > e}) >= Retention
  /\ Cardinality(kept) < Retention + (slips + 1) * PruneEvery + (IF writer.pc = "prune" THEN 1 ELSE 0)
  /\ \A s \in Sockets : Open(s) =>
       /\ s \in registry
       /\ InOrder(socket[s].shown)
       /\ feed = "activity" =>
            ToSet(socket[s].shown \o socket[s].queue) \cup socket[s].missed = socket[s].from + 1 .. emitted
       /\ feed = "hints" /\ sending = {} => ToSet(socket[s].shown) = socket[s].from + 1 .. hints
=============================================================================
