-------------------------- MODULE BehavioralEvents --------------------------
(* The collector that polls a session's actions, logs and errors over MCP and *)
(* stores them (analytics/runtime/collector.py), and the ring buffer of the   *)
(* MCP server the logs and errors come from (gns3-mcp/src/log_buffer.py).     *)
(* What happens in the lab is numbered in the order of its timestamps.        *)
EXTENDS Naturals, Sequences, FiniteSets, FiniteSetsExt, SequencesExt

CONSTANTS ActionWindow,  \* mcp_actions_limit
          LogWindow,     \* mcp_logs_limit
          DedupSize,     \* dedup_max_size
          RingSize,      \* max_entries of the log buffer
          MaxHappened,   \* bound on what happens in the lab
          MaxCollectors  \* bound on the collectors started for the session

ASSUME EventAssumption ==
    /\ {ActionWindow, LogWindow, DedupSize, RingSize} \subseteq Nat
    /\ {MaxHappened, MaxCollectors} \subseteq Nat

VARIABLES happened,  \* what happened in the lab: "action", "info" or "error"
          listener,  \* the buffer's WebSocket: "off", "connecting" or "on"
          ring,      \* the log entries the buffer holds, oldest first
          poll,      \* the collector's cycle: where it is, its batch, a reply
          seen,      \* _seen: the keys taken, the oldest first
          watermark, \* _last_error_poll, 0 for None
          stored,    \* the keys of behavioral_events
          taken,     \* every key this collector took as new
          faulty,    \* every error this collector took
          gap,       \* the errors logged between a reply and its watermark
          collectors \* the collectors started so far

eventVars == <<happened, listener, ring, poll, seen, watermark, stored, taken, faulty, gap,
               collectors>>
collector == <<seen, watermark, taken, faulty, gap>>

Resting == [pc |-> "asleep", batch |-> <<>>, reply |-> <<>>, at |-> 0]

EventInit ==
    /\ happened = <<>> /\ listener = "off" /\ ring = <<>>
    /\ poll = Resting /\ seen = <<>> /\ watermark = 0
    /\ stored = {} /\ taken = <<>> /\ faulty = <<>> /\ gap = {} /\ collectors = 1

Latest(s, n) == IF Len(s) <= n THEN s ELSE SubSeq(s, Len(s) - n + 1, Len(s))
IsError(i) == happened[i] = "error"

(* The members of s that are in keep, in their order.                          *)
Those(s, keep) ==
    LET those[n \in 0 .. Len(s)] ==
          IF n = 0 THEN <<>>
          ELSE IF s[n] \in keep THEN Append(those[n - 1], s[n]) ELSE those[n - 1]
    IN those[Len(s)]

(* _listen: an entry that arrives while the socket is down is never buffered.  *)
Happens(kind) ==
    /\ Len(happened) < MaxHappened
    /\ happened' = Append(happened, kind)
    /\ ring' = IF kind # "action" /\ listener = "on"
               THEN Latest(Append(ring, Len(happened) + 1), RingSize) ELSE ring
    /\ UNCHANGED <<listener, poll, collector, stored, collectors>>

Listening == /\ listener = "connecting" /\ listener' = "on"
             /\ UNCHANGED <<happened, ring, poll, collector, stored, collectors>>
Disconnected == /\ listener # "off" /\ listener' = "off"
                /\ UNCHANGED <<happened, ring, poll, collector, stored, collectors>>
EnsureConnected == listener' = IF listener = "off" THEN "connecting" ELSE listener

(* _is_new over a reply, in its order: a key that is remembered is skipped, a  *)
(* new one is remembered and the oldest is forgotten above dedup_max_size.     *)
EvictNewest(keys) == SubSeq(keys, 1, IF Len(keys) < DedupSize THEN Len(keys) ELSE DedupSize)   \* mutant
Evict(keys) == Latest(keys, DedupSize)
Remember(keys, k) == IF k \in ToSet(keys) THEN keys ELSE Evict(Append(keys, k))
TakeOne(k, s) == IF k \in ToSet(s.seen) THEN s
                 ELSE [seen |-> Remember(s.seen, k), new |-> Append(s.new, k)]
TakeNew(reply) ==
    LET after[n \in 0 .. Len(reply)] ==
          IF n = 0 THEN [seen |-> seen, new |-> <<>>] ELSE TakeOne(reply[n], after[n - 1])
    IN after[Len(reply)]

Took(reply, next) ==
    LET r == TakeNew(reply) IN
    /\ seen' = r.seen
    /\ taken' = taken \o r.new
    /\ poll' = [poll EXCEPT !.pc = next, !.batch = @ \o r.new]

(* _fetch_actions: the newest actions first.  Any of the three fetches may     *)
(* fail or be refused by the consent seam, which leaves it empty.  Of the row   *)
(* that normalize_* makes of an entry, what tells it from others is its kind   *)
(* and number.                                                                 *)
Key(kind, i) == <<kind, i>>
NewestActions ==
    LET acts == Those([i \in DOMAIN happened |-> i], {i \in DOMAIN happened : happened[i] = "action"})
        window == Reverse(Latest(acts, ActionWindow)) IN
    [n \in DOMAIN window |-> Key("action", window[n])]
FetchActions ==
    /\ poll.pc = "asleep"
    /\ Took(NewestActions, "logs")
    /\ UNCHANGED <<happened, listener, ring, watermark, stored, faulty, gap, collectors>>

FetchLogs ==
    /\ poll.pc = "logs"
    /\ EnsureConnected
    /\ LET window == Latest(ring, LogWindow) IN
       Took([n \in DOMAIN window |-> Key("log", window[n])], "errors")
    /\ UNCHANGED <<happened, ring, watermark, stored, faulty, gap, collectors>>

FetchFails ==
    /\ poll.pc \in {"asleep", "logs", "errors", "reply"}
    /\ poll' = [poll EXCEPT !.reply = <<>>, !.at = 0,
                  !.pc = CASE poll.pc = "asleep" -> "logs"
                           [] poll.pc = "logs" -> "errors"
                           [] OTHER -> "persist"]
    /\ UNCHANGED <<happened, listener, ring, collector, stored, collectors>>

(* _fetch_errors: the buffer answers with what is not older than `since'; the  *)
(* watermark is the time at which the answer is handled.                       *)
AskErrors ==
    /\ poll.pc = "errors"
    /\ EnsureConnected
    /\ poll' = [poll EXCEPT !.pc = "reply",
                  !.reply = Those(ring, {i \in DOMAIN happened : IsError(i) /\ i > watermark}),
                  !.at = Len(happened)]
    /\ UNCHANGED <<happened, ring, collector, stored, collectors>>

Watermark == Len(happened)
TakeErrors ==
    /\ poll.pc = "reply"
    /\ watermark' = Watermark
    /\ gap' = gap \cup (poll.at + 1 .. Len(happened))
    /\ faulty' = faulty \o poll.reply
    /\ poll' = [poll EXCEPT !.pc = "persist", !.reply = <<>>, !.at = 0,
                  !.batch = @ \o [n \in DOMAIN poll.reply |-> Key("error", poll.reply[n])]]
    /\ UNCHANGED <<happened, listener, ring, seen, taken, stored, collectors>>

(* _persist: a write that fails is logged, its events are not offered again.   *)
Persist ==
    /\ poll.pc = "persist"
    /\ stored' \in {stored, stored \cup ToSet(poll.batch)}
    /\ poll' = Resting
    /\ UNCHANGED <<happened, listener, ring, collector, collectors>>

(* stop() cancels the cycle where it is; the next start, of this process or of *)
(* the next one, is a new collector that remembers nothing.                    *)
Restarted ==
    /\ collectors < MaxCollectors
    /\ collectors' = collectors + 1
    /\ poll' = Resting /\ seen' = <<>> /\ watermark' = 0
    /\ taken' = <<>> /\ faulty' = <<>> /\ gap' = {}
    /\ UNCHANGED <<happened, listener, ring, stored>>

EventNext ==
    \/ \E kind \in {"action", "info", "error"} : Happens(kind)
    \/ Listening \/ Disconnected
    \/ FetchActions \/ FetchLogs \/ FetchFails \/ AskErrors \/ TakeErrors
    \/ Persist \/ Restarted

EventSpec == EventInit /\ [][EventNext]_eventVars
-----------------------------------------------------------------------------
EventTypeOK ==
    /\ Len(ring) <= RingSize /\ Len(seen) <= DedupSize
    /\ watermark \in 0 .. Len(happened)
    /\ stored \subseteq {"action", "log", "error"} \X DOMAIN happened

(* How often an event is stored: a collector takes an action or a log entry    *)
(* again only after dedup_max_size newer keys pushed it out of its memory, and *)
(* an error never again; and it passes over an error that its buffer held only *)
(* if the error was logged while the answer of a poll was under way            *)
(* (collector.py:168-186, 219-226).                                            *)
TakenOnce ==
    /\ EventTypeOK
    /\ \A i, j \in DOMAIN taken : i < j /\ taken[i] = taken[j] => j - i > DedupSize
    /\ \A i, j \in DOMAIN faulty : faulty[i] = faulty[j] => i = j
    /\ \A e \in ToSet(ring) :
          IsError(e) /\ e <= watermark /\ e \notin ToSet(faulty)
          => e \in gap
=============================================================================
