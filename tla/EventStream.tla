---------------------------- MODULE EventStream ----------------------------
(***************************************************************************)
(* The events of a lab on their way from GNS3 to those who watch: the      *)
(* forwarder stores what belongs to the history and publishes the rest     *)
(* (gns3_ws_proxy.py), each replica publishes the rows that PostgreSQL     *)
(* tells it of (history_listener_pg.py) on the session's Redis stream      *)
(* (events_broker.py), each watcher follows the stream from its end        *)
(* (routers/ws.py), and the activity is read in pages (routers/history.py).*)
(***************************************************************************)
EXTENDS Naturals, Sequences, FiniteSetsExt, SequencesExt

CONSTANTS
  Desks,        \* replicas of gns3-service
  Watchers,     \* sockets of those who watch
  StreamLen,    \* maxlen of the stream
  PageLimit,    \* limit of a page of the activity
  MaxNotices,   \* bound: notifications of GNS3
  MaxEntries,   \* bound: entries of the stream
  MaxFaults     \* bound: connections that drop

ASSUME StreamAssumption ==
  /\ IsFiniteSet(Desks)
  /\ {StreamLen, PageLimit} \subseteq Nat \ {0}
  /\ {MaxNotices, MaxEntries, MaxFaults} \subseteq Nat

VARIABLES
  follow,     \* how the events are followed: by their "stream" or by "pages" of the activity
  notices,    \* what GNS3 has sent: "updated" of a node, or "made" of a node or link
  wire,       \* those on the forwarder's connection
  forwarder,  \* the step it is at
  history,    \* the rows, in the order of their timestamps
  listening,  \* replicas whose LISTEN stands
  due,        \* publish tasks of each replica
  stream,     \* entries ever added
  trimmed,    \* how many of the first of them are gone
  watch,      \* the handlers
  reading,    \* the reader of the activity
  faults      \* connections that have dropped

eventStreamVars ==
  <<follow, notices, wire, forwarder, history, listening, due, stream, trimmed, watch, reading, faults>>

Away == [pc |-> "off", last |-> 0, from |-> 0, shown |-> <<>>]
NoReader == [pc |-> "off", had |-> 0, cursor |-> 0, got |-> <<>>]

StreamOfEventsInit ==
  /\ notices = <<>> /\ wire = <<>> /\ forwarder = "off" /\ history = <<>>
  /\ follow \in {"stream", "pages"} /\ listening = (IF follow = "stream" THEN Desks ELSE {})
  /\ due = [d \in Desks |-> {}]
  /\ stream = <<>> /\ trimmed = 0 /\ faults = 0
  /\ watch = [w \in Watchers |-> Away] /\ reading = NoReader

\* publish: XADD trims to about maxlen, never below; or it fails.
Add(type, n) ==
  /\ Len(stream) < MaxEntries
  /\ stream' = Append(stream, [type |-> type, of |-> n])
  /\ trimmed' \in {trimmed} \cup {k \in trimmed .. Len(stream) + 1 : k + StreamLen <= Len(stream) + 1}
Publish(type, n) == Add(type, n) \/ UNCHANGED <<stream, trimmed>>
-----------------------------------------------------------------------------
(* Gns3WsProxy *)

Notify(kind) ==
  /\ Len(notices) < MaxNotices
  /\ notices' = Append(notices, kind)
  /\ wire' = IF forwarder \in {"read", "status"} THEN Append(wire, Len(notices) + 1) ELSE wire
  /\ UNCHANGED <<follow, forwarder, history, listening, due, stream, trimmed, watch, reading, faults>>

\* start_project: with the session, at the startup of a replica, or for a watcher.
Attach ==
  /\ forwarder = "off" /\ forwarder' = "dial"
  /\ UNCHANGED <<follow, notices, wire, history, listening, due, stream, trimmed, watch, reading, faults>>

Dial ==
  /\ forwarder = "dial" /\ forwarder' = "read"
  /\ UNCHANGED <<follow, notices, wire, history, listening, due, stream, trimmed, watch, reading, faults>>

\* What GNS3 sends until the next connection is never seen; watchers are told that.
ConnectionDrops ==
  /\ forwarder = "read" /\ faults < MaxFaults
  /\ forwarder' = "retry" /\ wire' = <<>> /\ faults' = faults + 1
  /\ UNCHANGED <<follow, notices, history, listening, due, stream, trimmed, watch, reading>>

Degraded ==
  /\ forwarder = "retry" /\ forwarder' = "dial"
  /\ Publish("degraded", 0)
  /\ UNCHANGED <<follow, notices, wire, history, listening, due, watch, reading, faults>>

\* _forward_loop: the row is committed, and the trigger tells whoever listens; or the
\* write fails and nobody is told.
After(n) == IF notices[n] = "updated" THEN "status" ELSE "read"
KeepHistory ==
  /\ forwarder = "read" /\ wire # <<>>
  /\ forwarder' = After(Head(wire))
  /\ wire' = IF After(Head(wire)) = "status" THEN wire ELSE Tail(wire)
  /\ \/ /\ history' = Append(history, Head(wire))
        /\ due' = [d \in Desks |-> IF d \in listening THEN due[d] \cup {Head(wire)} ELSE due[d]]
     \/ UNCHANGED <<history, due>>
  /\ UNCHANGED <<follow, notices, listening, stream, trimmed, watch, reading, faults>>

PublishStatus ==
  /\ forwarder = "status" /\ forwarder' = "read" /\ wire' = Tail(wire)
  /\ Publish("status", Head(wire))
  /\ UNCHANGED <<follow, notices, history, listening, due, watch, reading, faults>>
-----------------------------------------------------------------------------
(* HistoryPgListener *)

ListenerDrops(d) ==
  /\ d \in listening /\ faults < MaxFaults /\ faults' = faults + 1
  /\ listening' = listening \ {d}
  /\ UNCHANGED <<follow, notices, wire, forwarder, history, due, stream, trimmed, watch, reading>>

Listen(d) ==
  /\ follow = "stream" /\ d \notin listening /\ listening' = listening \cup {d}
  /\ UNCHANGED <<follow, notices, wire, forwarder, history, due, stream, trimmed, watch, reading, faults>>

\* _on_notify makes a task of each publication, and tasks may overtake each other.
PublishHistory(d, n) ==
  /\ n \in due[d] /\ due' = [due EXCEPT ![d] = @ \ {n}]
  /\ Publish("history", n)
  /\ UNCHANGED <<follow, notices, wire, forwarder, history, listening, watch, reading, faults>>
-----------------------------------------------------------------------------
(* ws_session_events *)

Come(w) ==
  /\ follow = "stream" /\ watch[w].pc = "off" /\ watch' = [watch EXCEPT ![w].pc = "tail"]
  /\ forwarder' = IF forwarder = "off" THEN "dial" ELSE forwarder
  /\ UNCHANGED <<follow, notices, wire, history, listening, due, stream, trimmed, reading, faults>>

\* XREAD: after the entry last seen, and from the end of the stream before the first.
StaysAtEnd(w) == Len(stream)     \* mutant: last_id stays "$"
ReadFrom(w) == IF watch[w].last = 0 THEN Len(stream) ELSE watch[w].last
Read(w) ==
  /\ watch[w].pc = "tail"
  /\ watch' = [watch EXCEPT ![w].pc = "blocked", ![w].from = ReadFrom(w)]
  /\ UNCHANGED <<follow, notices, wire, forwarder, history, listening, due, stream, trimmed, reading, faults>>

Deliver(w) ==
  /\ watch[w].pc = "blocked" /\ Len(stream) > watch[w].from
  /\ LET first == Max({watch[w].from, trimmed}) + 1 IN
     /\ first <= Len(stream)
     /\ watch' = [watch EXCEPT ![w] = [pc |-> "tail", last |-> Len(stream), from |-> 0,
                    shown |-> @.shown \o [i \in 1 .. Len(stream) - first + 1 |-> first + i - 1]]]
  /\ UNCHANGED <<follow, notices, wire, forwarder, history, listening, due, stream, trimmed, reading, faults>>

\* Nothing for five seconds, or the call fails.
ReadEnds(w) ==
  /\ watch[w].pc = "blocked"
  /\ watch' = [watch EXCEPT ![w].pc = "tail", ![w].from = 0]
  /\ UNCHANGED <<follow, notices, wire, forwarder, history, listening, due, stream, trimmed, reading, faults>>

\* Either side closes, and the relay of the backend closes the other.
Leave(w) ==
  /\ watch[w].pc # "off" /\ watch' = [watch EXCEPT ![w] = Away]
  /\ UNCHANGED <<follow, notices, wire, forwarder, history, listening, due, stream, trimmed, reading, faults>>
-----------------------------------------------------------------------------
(* get_session_activity *)

\* The newest rows before the cursor, and one more that tells whether others follow.
FetchOneMore == PageLimit + 1
ActivityPage ==
  /\ follow = "pages" /\ reading.pc # "done"
  /\ \E older \in 0 .. Len(history) :
       /\ \A i \in DOMAIN history : i <= older <=> reading.pc = "off" \/ history[i] < reading.cursor
       /\ LET fetched == Min({FetchOneMore, older})
              page == [i \in 1 .. Min({PageLimit, fetched}) |-> history[older + 1 - i]]
          IN reading' = [pc |-> IF fetched > PageLimit THEN "more" ELSE "done",
                         had |-> IF reading.pc = "off" THEN Len(history) ELSE reading.had,
                         cursor |-> IF fetched > PageLimit THEN Last(page) ELSE 0,
                         got |-> reading.got \o page]
  /\ UNCHANGED <<follow, notices, wire, forwarder, history, listening, due, stream, trimmed, watch, faults>>

StreamOfEventsNext ==
  \/ \E kind \in {"updated", "made"} : Notify(kind)
  \/ Attach \/ Dial \/ ConnectionDrops \/ Degraded \/ KeepHistory \/ PublishStatus \/ ActivityPage
  \/ \E d \in Desks : ListenerDrops(d) \/ Listen(d) \/ \E n \in due[d] : PublishHistory(d, n)
  \/ \E w \in Watchers : Come(w) \/ Read(w) \/ Deliver(w) \/ ReadEnds(w) \/ Leave(w)

StreamOfEventsSpec == StreamOfEventsInit /\ [][StreamOfEventsNext]_eventStreamVars
-----------------------------------------------------------------------------
Increasing(s) == \A i, j \in DOMAIN s : i < j => s[i] < s[j]
Entries(type, n) == {i \in DOMAIN stream : stream[i] = [type |-> type, of |-> n]}

\* From the first entry on, a watcher is shown each entry once and in the order of the
\* stream, and misses none but those the stream has let go of; a status is published
\* once, and a row by each replica once at most, though in any order, and never before it
\* is stored.  The pages of the activity, from the newest on, never repeat a row, and end
\* with every row shown that was there at the first (events_broker.py:50,
\* history_listener_pg.py:94, history.py:96).
StreamSound ==
  /\ \A w \in Watchers : LET shown == watch[w].shown IN
       /\ Increasing(shown)
       /\ shown # <<>> => \A i \in shown[1] .. Last(shown) : i \in ToSet(shown) \/ i <= trimmed
  /\ \A n \in DOMAIN notices :
       /\ Cardinality(Entries("status", n)) <= 1
       /\ Cardinality(Entries("history", n)) <= Cardinality(Desks)
       /\ Entries("history", n) # {} => n \in ToSet(history)
  /\ Increasing(Reverse(reading.got))
  /\ reading.pc = "done" => \A i \in 1 .. reading.had : history[i] \in ToSet(reading.got)
=============================================================================
