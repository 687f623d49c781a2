-------------------------- MODULE SessionLifecycle --------------------------
(***************************************************************************)
(* The life of a learning session in the backend: the launch endpoint, the *)
(* paths that end a session (the learner, the reaper, the orphan sweep in  *)
(* the state query), account erasure and a restart of the process.         *)
(*                                                                         *)
(* Every handler is a coroutine.  It is cut at each await that reaches     *)
(* Postgres, Redis or gns3-service, and what it read before an await it    *)
(* still uses after it, as the code does: a launcher keeps is_new_launch,  *)
(* a closer keeps the ended_at and status of the row object it loaded.     *)
(***************************************************************************)
EXTENDS SessionQueue, FiniteSets

CONSTANTS
  Rows,         \* primary keys of learning_sessions, all that may ever be used
  Launchers,    \* concurrent executions of POST /sessions
  Closers,      \* concurrent executions of a path that may end a session
  Reaper,       \* the closer that is the session_reaper_loop task
  MaxPerUser,   \* capacity.max_sessions_per_user
  MaxCrashes,   \* bound: restarts of the backend process
  Perils,       \* what the environment may do, see PerilNames
  None

(***************************************************************************)
(* "gns3"      a call to gns3-service fails, or times out once done        *)
(* "redis"     a call to Redis fails after the slot was taken              *)
(* "lost"      gns3-service forgets a session (its database was rebuilt)   *)
(* "crash"     the backend process restarts                                *)
(* "erase"     an account is erased                                        *)
(* "overlap"   one learner's requests overlap an end of their session      *)
(* "endFailed" a learner ends a session whose provisioning failed          *)
(***************************************************************************)
PerilNames == {"gns3", "redis", "lost", "crash", "erase", "overlap", "endFailed"}

ASSUME LifecycleAssumption ==
  /\ IsFiniteSet(Rows) /\ IsFiniteSet(Launchers) /\ IsFiniteSet(Closers)
  /\ Reaper \in Closers
  /\ MaxPerUser \in Nat \ {0}
  /\ MaxCrashes \in Nat
  /\ Perils \subseteq PerilNames
  /\ None \notin Rows \cup Users \cup Labs

VARIABLES
  rows,         \* the table learning_sessions; sid: meta holds a gns3 session id
  launch,       \* the launchers
  close,        \* the closers
  gns3,         \* per row, the gns3-service session created for it
  metrics,      \* per row, how many experiment_metrics rows it has
  gauge,        \* active_sessions_gauge, in the memory of the process
  due,          \* rows past expires_at, or provisioning for over 15 minutes
  selected,     \* what the reaper still has to handle of its last selection: rows,
                \* each with whether meta held a gns3 session id when it was selected
  accounts,     \* users that have not been erased
  crashes       \* restarts so far

vars == <<queueVars, rows, launch, close, gns3, metrics, gauge, due, selected, accounts, crashes>>

Live == {"provisioning", "active"}
Statuses == {"none", "erased", "error", "ended"} \cup Live
LaunchPcs == {"idle", "acquire", "dequeue", "enqueue", "lookup", "insert", "provision",
              "finalize", "fail", "start", "publish", "release"}
ClosePcs == {"idle", "reread", "ask", "mark", "measure", "free", "teardown"}

NoRow == [status |-> "none", ended |-> FALSE, user |-> None, lab |-> None, sid |-> FALSE]
IdleLaunch == [pc |-> "idle", user |-> None, lab |-> None, isNew |-> FALSE, row |-> None]
IdleClose == [pc |-> "idle", kind |-> "end", row |-> None, lab |-> None,
              ended |-> FALSE, wasActive |-> FALSE, sid |-> FALSE]

RowStates == [status : Statuses, ended : BOOLEAN, user : Users \cup {None},
              lab : Labs \cup {None}, sid : BOOLEAN]
LaunchStates == [pc : LaunchPcs, user : Users \cup {None}, lab : Labs \cup {None},
                 isNew : BOOLEAN, row : Rows \cup {None}]
CloseStates == [pc : ClosePcs, kind : {"end", "reap", "state"}, row : Rows \cup {None},
                lab : Labs \cup {None}, ended : BOOLEAN, wasActive : BOOLEAN, sid : BOOLEAN]

TypeOK ==
  /\ QueueTypeOK
  /\ rows \in [Rows -> RowStates]
  /\ launch \in [Launchers -> LaunchStates]
  /\ close \in [Closers -> CloseStates]
  /\ gns3 \in [Rows -> {"none", "up", "lost", "deleted"}]
  /\ metrics \in [Rows -> Nat]
  /\ gauge \in [Labs -> Int]
  /\ due \subseteq Rows
  /\ selected \subseteq Rows \X BOOLEAN
  /\ accounts \subseteq Users
  /\ crashes \in 0 .. MaxCrashes

Init ==
  /\ QueueInit
  /\ rows = [r \in Rows |-> NoRow]
  /\ launch = [p \in Launchers |-> IdleLaunch]
  /\ close = [e \in Closers |-> IdleClose]
  /\ gns3 = [r \in Rows |-> "none"]
  /\ metrics = [r \in Rows |-> 0]
  /\ gauge = [l \in Labs |-> 0]
  /\ due = {}
  /\ selected = {}
  /\ accounts = Users
  /\ crashes = 0

\* What the queries over learning_sessions select.
LiveRows(u) == {r \in Rows : rows[r].user = u /\ rows[r].status \in Live}
LiveRowsOn(u, l) == {r \in LiveRows(u) : rows[r].lab = l}
ActiveRowsOn(u, l) == {r \in LiveRowsOn(u, l) : rows[r].status = "active"}
Exists(r) == rows[r].status \notin {"none", "erased"}

Launching(u) == \E p \in Launchers : launch[p].pc # "idle" /\ launch[p].user = u
Closing(u) == \E e \in Closers : close[e].row # None /\ rows[close[e].row].user = u
-----------------------------------------------------------------------------
(* POST /sessions *)

LaunchAt(p, pc) == launch[p].pc = pc
LaunchTo(p, pc) == launch' = [launch EXCEPT ![p].pc = pc]

\* Mutants of Leave: a resumed or refused launch keeps the slot it took; every
\* launch that creates nothing gives one back.
LeaveKeepingSlot(p) == launch' = [launch EXCEPT ![p] = IdleLaunch]

\* The endpoint answers without a session of its own: it gives back the slot
\* it took, if it took one.
Leave(p) ==
  launch' = [launch EXCEPT ![p] =
               IF launch[p].isNew THEN [launch[p] EXCEPT !.pc = "release", !.row = None]
                                  ELSE IdleLaunch]

\* Bound: a launch starts only while enough unused rows are left for it.
RoomForRow ==
  Cardinality({p \in Launchers : launch[p].pc \in {"acquire", "dequeue", "lookup", "insert"}})
    < Cardinality({r \in Rows : rows[r].status = "none"})

\* The endpoint's own get_active_session decides is_new_launch.
Ask(p, u, l) ==
  /\ LaunchAt(p, "idle")
  /\ u \in accounts
  /\ RoomForRow
  /\ "overlap" \in Perils \/ ~Closing(u)
  /\ LET new == ActiveRowsOn(u, l) = {}
     IN launch' = [launch EXCEPT ![p] =
                     [pc |-> IF new THEN "acquire" ELSE "lookup",
                      user |-> u, lab |-> l, isNew |-> new, row |-> None]]
  /\ UNCHANGED <<queueVars, rows, close, gns3, metrics, gauge, due, selected, accounts, crashes>>

TryAcquire(p) ==
  /\ LaunchAt(p, "acquire")
  /\ \/ AcquireSlot(launch[p].lab) /\ LaunchTo(p, "dequeue")
     \/ RejectSlot(launch[p].lab) /\ LaunchTo(p, "enqueue")
  /\ UNCHANGED <<rows, close, gns3, metrics, gauge, due, selected, accounts, crashes>>

\* try_acquire takes the caller out of the waiting list, in a call of its own;
\* if that call fails, nobody gives the slot back.
LeaveQueue(p) ==
  /\ LaunchAt(p, "dequeue")
  /\ \/ Dequeue(launch[p].user, launch[p].lab) /\ LaunchTo(p, "lookup")
     \/ /\ "redis" \in Perils
        /\ launch' = [launch EXCEPT ![p] = IdleLaunch]
        /\ UNCHANGED queueVars
  /\ UNCHANGED <<rows, close, gns3, metrics, gauge, due, selected, accounts, crashes>>

JoinQueue(p) ==
  /\ LaunchAt(p, "enqueue")
  /\ Enqueue(launch[p].user, launch[p].lab)
  /\ launch' = [launch EXCEPT ![p] = IdleLaunch]
  /\ UNCHANGED <<rows, close, gns3, metrics, gauge, due, selected, accounts, crashes>>

\* launch_session's own lookup: resume, or go on if the learner is under the
\* limit and the lab exists and is enabled (an administrator may turn it off).
Lookup(p) ==
  /\ LaunchAt(p, "lookup")
  /\ \/ Leave(p)
     \/ /\ ActiveRowsOn(launch[p].user, launch[p].lab) = {}
        /\ Cardinality(LiveRows(launch[p].user)) < MaxPerUser
        /\ LaunchTo(p, "insert")
  /\ UNCHANGED <<queueVars, rows, close, gns3, metrics, gauge, due, selected, accounts, crashes>>

\* _create_provisioning_row: under the learner's advisory lock, recount, then
\* insert; the partial unique index refuses a twin, the foreign key an erased user.
NoRecount(u) == TRUE    \* mutant: the first count is trusted
UnderUserCap(u) == Cardinality(LiveRows(u)) < MaxPerUser

InsertRow(p) ==
  /\ LaunchAt(p, "insert")
  /\ LET u == launch[p].user
         l == launch[p].lab
         accepted == UnderUserCap(u) /\ LiveRowsOn(u, l) = {} /\ u \in accounts
     IN \/ ~accepted /\ Leave(p) /\ UNCHANGED rows
        \/ /\ accepted
           /\ \E r \in Rows :
                /\ rows[r].status = "none"
                /\ rows' = [rows EXCEPT ![r] = [status |-> "provisioning", ended |-> FALSE,
                                                user |-> u, lab |-> l, sid |-> FALSE]]
                /\ launch' = [launch EXCEPT ![p].pc = "provision", ![p].row = r]
  /\ UNCHANGED <<queueVars, close, gns3, metrics, gauge, due, selected, accounts, crashes>>

\* gns3_client.create_session.  A call that times out may have been served.
Provision(p) ==
  /\ LaunchAt(p, "provision")
  /\ \/ gns3' = [gns3 EXCEPT ![launch[p].row] = "up"] /\ LaunchTo(p, "finalize")
     \/ /\ "gns3" \in Perils
        /\ LaunchTo(p, "fail")
        /\ \/ UNCHANGED gns3
           \/ gns3' = [gns3 EXCEPT ![launch[p].row] = "up"]
  /\ UNCHANGED <<queueVars, rows, close, metrics, gauge, due, selected, accounts, crashes>>

NoIndex(r) == TRUE      \* mutant: no unique index

\* Setting a row to active runs into the unique index when another live row
\* has appeared for the same learner and lab.
NoTwinOf(r) == LiveRowsOn(rows[r].user, rows[r].lab) \subseteq {r}

\* Mutant: finalizing reopens the row.
Reopened(row) == [row EXCEPT !.status = "active", !.sid = TRUE, !.ended = FALSE]
Finalized(row) == [row EXCEPT !.status = "active", !.sid = TRUE]

\* _finalize_session_row(.., "active", meta): whatever the row has become.
FinalizeActive(p) ==
  /\ LaunchAt(p, "finalize")
  /\ LET r == launch[p].row
     IN \/ /\ Exists(r) /\ NoTwinOf(r)
           /\ rows' = [rows EXCEPT ![r] = Finalized(@)]
           /\ LaunchTo(p, "start")
        \/ /\ ~(Exists(r) /\ NoTwinOf(r))
           /\ Leave(p)
           /\ UNCHANGED rows
  /\ UNCHANGED <<queueVars, close, gns3, metrics, gauge, due, selected, accounts, crashes>>

\* _finalize_session_row(.., "error", None): ended_at stays NULL.
FinalizeError(p) ==
  /\ LaunchAt(p, "fail")
  /\ LET r == launch[p].row
     IN rows' = IF Exists(r) THEN [rows EXCEPT ![r].status = "error"] ELSE rows
  /\ Leave(p)
  /\ UNCHANGED <<queueVars, close, gns3, metrics, gauge, due, selected, accounts, crashes>>

\* The row is read back, the nodes are started as far as possible, and the
\* ticket is issued, which is a Redis call.  A session that is found ended is
\* answered but not counted.
StartNodes(p) ==
  /\ LaunchAt(p, "start")
  /\ LET status == rows[launch[p].row].status
     IN \/ status = "active" /\ LaunchTo(p, "publish")
        \/ /\ Exists(launch[p].row) /\ status # "active"
           /\ launch' = [launch EXCEPT ![p] = IdleLaunch]
        \/ ~Exists(launch[p].row) /\ Leave(p)
        \/ "redis" \in Perils /\ Leave(p)
  /\ UNCHANGED <<queueVars, rows, close, gns3, metrics, gauge, due, selected, accounts, crashes>>

\* The monitor is started (see the README) and the session is counted.
Publish(p) ==
  /\ LaunchAt(p, "publish")
  /\ gauge' = [gauge EXCEPT ![launch[p].lab] = @ + 1]
  /\ launch' = [launch EXCEPT ![p] = IdleLaunch]
  /\ UNCHANGED <<queueVars, rows, close, gns3, metrics, due, selected, accounts, crashes>>

GiveBack(p) ==
  /\ LaunchAt(p, "release")
  /\ \/ ReleaseSlot(launch[p].lab)
     \/ "redis" \in Perils /\ UNCHANGED queueVars
  /\ launch' = [launch EXCEPT ![p] = IdleLaunch]
  /\ UNCHANGED <<rows, close, gns3, metrics, gauge, due, selected, accounts, crashes>>

LaunchStep(p) ==
  \/ TryAcquire(p) \/ LeaveQueue(p) \/ JoinQueue(p) \/ Lookup(p) \/ InsertRow(p)
  \/ Provision(p) \/ FinalizeActive(p) \/ FinalizeError(p) \/ StartNodes(p)
  \/ Publish(p) \/ GiveBack(p)
-----------------------------------------------------------------------------
(* The paths that end a session *)

CloseAt(e, pc) == close[e].pc = pc
CloseTo(e, pc) == close' = [close EXCEPT ![e].pc = pc]

\* What a closer keeps of the row object it has loaded.
Loaded(e, kind, r, sid, pc) ==
  close' = [close EXCEPT ![e] =
              [pc |-> pc, kind |-> kind, row |-> r, lab |-> rows[r].lab, ended |-> rows[r].ended,
               wasActive |-> rows[r].status = "active", sid |-> sid]]

\* Without "overlap", nothing else is at work for the learner.
Apart(r) == \/ "overlap" \in Perils
            \/ ~Launching(rows[r].user) /\ ~Closing(rows[r].user)

TeardownFirst == "teardown"     \* mutant: end_lab tears down before it finalizes
FinalizeFirst == "mark"

\* POST /sessions/{id}/end loads the row, then stops the monitor.
EndAsked(e, r) ==
  /\ CloseAt(e, "idle") /\ e # Reaper
  /\ Exists(r)
  /\ Apart(r)
  /\ rows[r].status = "error" => "endFailed" \in Perils
  /\ "overlap" \notin Perils => rows[r].status # "provisioning"
  /\ Loaded(e, "end", r, rows[r].sid, FinalizeFirst)
  /\ UNCHANGED <<queueVars, rows, launch, gns3, metrics, gauge, due, selected, accounts, crashes>>

OverdueActive(r) == r \in due /\ rows[r].status = "active"  \* mutant: no crash debris
Overdue(r) == r \in due /\ rows[r].status \in Live

\* reap_expired_sessions selects the overdue live rows once ...
ReapSelect ==
  /\ CloseAt(Reaper, "idle") /\ selected = {}
  /\ \E r \in Rows : Overdue(r)
  /\ selected' = {<<r, rows[r].sid>> : r \in {q \in Rows : Overdue(q)}}
  /\ UNCHANGED <<queueVars, rows, launch, close, gns3, metrics, gauge, due, accounts, crashes>>

\* ... and handles them one by one, whatever they have become: _end_one stops
\* the monitor and saves the configs, by the gns3 id of the selection, ...
ReapPick(r) ==
  /\ CloseAt(Reaper, "idle")
  /\ Apart(r)
  /\ \E sid \in BOOLEAN :
       /\ <<r, sid>> \in selected
       /\ selected' = selected \ {<<r, sid>>}
       /\ Loaded(Reaper, "reap", r, sid, "reread")
  /\ UNCHANGED <<queueVars, rows, launch, gns3, metrics, gauge, due, accounts, crashes>>

\* ... and loads the row again.
ReapReread(e) ==
  /\ CloseAt(e, "reread")
  /\ LET r == close[e].row
     IN IF Exists(r)
        THEN close' = [close EXCEPT ![e].pc = "mark", ![e].ended = rows[r].ended,
                                    ![e].wasActive = (rows[r].status = "active")]
        ELSE CloseTo(e, "teardown")
  /\ UNCHANGED <<queueVars, rows, launch, gns3, metrics, gauge, due, selected, accounts, crashes>>

\* get_session_state loads the row, then asks gns3-service for the state.
StateAsked(e, r) ==
  /\ CloseAt(e, "idle") /\ e # Reaper
  /\ Exists(r) /\ rows[r].sid
  /\ Apart(r)
  /\ Loaded(e, "state", r, rows[r].sid, "ask")
  /\ UNCHANGED <<queueVars, rows, launch, gns3, metrics, gauge, due, selected, accounts, crashes>>

\* A 404 makes the platform session an orphan; any other answer ends nothing.
StateAnswered(e) ==
  /\ CloseAt(e, "ask")
  /\ IF gns3[close[e].row] = "lost"
     THEN CloseTo(e, "mark")
     ELSE close' = [close EXCEPT ![e] = IdleClose]
  /\ UNCHANGED <<queueVars, rows, launch, gns3, metrics, gauge, due, selected, accounts, crashes>>

\* The guard of _mark_ended_and_finalize is on the object loaded before, and
\* the update names the row by its key alone.  It raises if the row is gone.
MarkEnded(e) ==
  /\ CloseAt(e, "mark")
  /\ LET r == close[e].row
     IN \/ /\ close[e].ended
           /\ CloseTo(e, "teardown")
           /\ UNCHANGED rows
        \/ /\ ~close[e].ended /\ Exists(r)
           /\ rows' = [rows EXCEPT ![r].status = "ended", ![r].ended = TRUE]
           /\ close' = [close EXCEPT ![e].pc = "measure",
                          ![e].sid = IF close[e].kind = "reap" THEN @ ELSE rows[r].sid]
        \/ /\ ~close[e].ended /\ ~Exists(r)
           /\ close' = [close EXCEPT ![e] = IdleClose]
           /\ UNCHANGED rows
  /\ UNCHANGED <<queueVars, launch, gns3, metrics, gauge, due, selected, accounts, crashes>>

\* _finalize_experiment_metrics, best effort: a failure is logged and passed over.
Measure(e) ==
  /\ CloseAt(e, "measure")
  /\ \/ Exists(close[e].row) /\ metrics' = [metrics EXCEPT ![close[e].row] = @ + 1]
     \/ UNCHANGED metrics
  /\ CloseTo(e, "free")
  /\ UNCHANGED <<queueVars, rows, launch, gns3, gauge, due, selected, accounts, crashes>>

\* _release_slot: a failing release is logged, the gauge goes down regardless.
FreeSlot(e) ==
  /\ CloseAt(e, "free")
  /\ \/ ReleaseSlot(close[e].lab)
     \/ "redis" \in Perils /\ UNCHANGED queueVars
  /\ gauge' = IF close[e].wasActive THEN [gauge EXCEPT ![close[e].lab] = @ - 1] ELSE gauge
  /\ CloseTo(e, "teardown")
  /\ UNCHANGED <<rows, launch, gns3, metrics, due, selected, accounts, crashes>>

\* Best effort, by end_lab and the reaper only, when they know a gns3 id.
Teardown(e) ==
  /\ CloseAt(e, "teardown")
  /\ \/ /\ close[e].kind \in {"end", "reap"} /\ close[e].sid
        /\ gns3[close[e].row] = "up"
        /\ gns3' = [gns3 EXCEPT ![close[e].row] = "deleted"]
     \/ /\ \/ close[e].kind = "state" \/ ~close[e].sid
           \/ gns3[close[e].row] # "up" \/ "gns3" \in Perils
        /\ UNCHANGED gns3
  /\ close' = [close EXCEPT ![e] = IdleClose]
  /\ UNCHANGED <<queueVars, rows, launch, metrics, gauge, due, selected, accounts, crashes>>

CloseStep(e) ==
  \/ ReapReread(e) \/ StateAnswered(e) \/ MarkEnded(e) \/ Measure(e)
  \/ FreeSlot(e) \/ Teardown(e)
-----------------------------------------------------------------------------
(* The environment *)

InFlight(r) == \E p \in Launchers : launch[p].row = r

\* expires_at passes, or a row has been provisioning for STALE_PROVISIONING_MIN,
\* which is longer than a launch that is still running can take.
FallDue(r) ==
  /\ rows[r].status \in Live /\ r \notin due
  /\ ~InFlight(r)
  /\ due' = due \cup {r}
  /\ UNCHANGED <<queueVars, rows, launch, close, gns3, metrics, gauge, selected, accounts, crashes>>

LoseGns3(r) ==
  /\ "lost" \in Perils
  /\ gns3[r] = "up"
  /\ gns3' = [gns3 EXCEPT ![r] = "lost"]
  /\ UNCHANGED <<queueVars, rows, launch, close, metrics, gauge, due, selected, accounts, crashes>>

\* erase_subject: the account and its rows go; the slots stay taken.
Erase(u) ==
  /\ "erase" \in Perils
  /\ u \in accounts
  /\ accounts' = accounts \ {u}
  /\ rows' = [r \in Rows |-> IF rows[r].user = u THEN [NoRow EXCEPT !.status = "erased"]
                                                 ELSE rows[r]]
  /\ metrics' = [r \in Rows |-> IF rows[r].user = u THEN 0 ELSE metrics[r]]
  /\ UNCHANGED <<queueVars, launch, close, gns3, gauge, due, selected, crashes>>

\* The coroutines and the gauge are gone; Postgres, Redis and GNS3 are not.
Crash ==
  /\ "crash" \in Perils
  /\ crashes < MaxCrashes
  /\ crashes' = crashes + 1
  /\ launch' = [p \in Launchers |-> IdleLaunch]
  /\ close' = [e \in Closers |-> IdleClose]
  /\ gauge' = [l \in Labs |-> 0]
  /\ selected' = {}
  /\ UNCHANGED <<queueVars, rows, gns3, metrics, due, accounts>>

\* Seven days after the last acquisition on a lab (on any lab), which no
\* session and no request survives.
AtRest(l) ==
  /\ \A r \in Rows : rows[r].lab = l => rows[r].ended \/ rows[r].status \notin Live
  /\ \A p \in Launchers : launch[p].lab # l
  /\ \A e \in Closers : close[e].lab # l

CountersExpire ==
  /\ \/ \E l \in Labs : AtRest(l) /\ ExpireLabCounter(l)
     \/ (\A l \in Labs : AtRest(l)) /\ ExpireTotalCounter
  /\ UNCHANGED <<rows, launch, close, gns3, metrics, gauge, due, selected, accounts, crashes>>

QueueExpires ==
  /\ \E l \in Labs : ExpireQueue(l)
  /\ UNCHANGED <<rows, launch, close, gns3, metrics, gauge, due, selected, accounts, crashes>>

Next ==
  \/ \E p \in Launchers : LaunchStep(p) \/ \E u \in Users, l \in Labs : Ask(p, u, l)
  \/ \E e \in Closers : CloseStep(e) \/ \E r \in Rows : EndAsked(e, r) \/ StateAsked(e, r)
  \/ ReapSelect
  \/ \E r \in Rows : ReapPick(r) \/ FallDue(r) \/ LoseGns3(r)
  \/ \E u \in Users : Erase(u)
  \/ Crash \/ CountersExpire \/ QueueExpires

Spec == Init /\ [][Next]_vars

(***************************************************************************)
(* A coroutine that has started goes on: every call it awaits has a        *)
(* timeout.  The reaper's loop survives every exception, so it selects     *)
(* again and again and handles what it has selected.                       *)
(* Requests, deadlines and faults are owed by nobody.                      *)
(***************************************************************************)
Fairness ==
  /\ \A p \in Launchers : WF_vars(LaunchStep(p))
  /\ \A e \in Closers : WF_vars(CloseStep(e))
  /\ WF_vars(ReapSelect) /\ WF_vars(\E r \in Rows : ReapPick(r))

FairSpec == Spec /\ Fairness
-----------------------------------------------------------------------------
(* Safety *)

\* A learner has at most one live session on a lab, whichever launches, failed
\* provisionings and late finalizations interleave: the promise of the partial
\* unique index in models/learning.py.
OneLivePerLab ==
  \A r1, r2 \in Rows :
    /\ rows[r1].status \in Live /\ rows[r2].status \in Live
    /\ rows[r1].user = rows[r2].user /\ rows[r1].lab = rows[r2].lab
    => r1 = r2

OpenRows(u) == {r \in LiveRows(u) : ~rows[r].ended}

\* A learner never has more than max_sessions_per_user sessions open, even
\* when launches on different labs pass the first count together: what the
\* advisory lock and the recount of _enforce_user_cap are for.
UserCapHolds == \A u \in Users : Cardinality(OpenRows(u)) <= MaxPerUser

\* Everything that may still give back a slot of lab l: a launch holding one
\* it has not passed on to a row, a live row that has not ended, and a closer
\* that has ended a row and not yet released.
Claims(l) ==
  ({"launch"} \X {p \in Launchers : /\ launch[p].lab = l /\ launch[p].isNew
                                    /\ launch[p].pc \in {"dequeue", "lookup", "insert", "release"}})
  \cup ({"row"} \X {r \in Rows : rows[r].lab = l /\ rows[r].status \in Live /\ ~rows[r].ended})
  \cup ({"close"} \X {e \in Closers : close[e].lab = l /\ close[e].pc \in {"measure", "free"}})

\* As long as the process does not restart, no account is erased and Redis
\* answers, no slot is lost: each taken slot of a lab has somebody who will
\* give it back, on every early return and error path of a launch.
NoSlotLeak == \A l \in Labs : labCount[l] <= Cardinality(Claims(l))

\* lifecycle.py: "a repeat call cannot double-release": an open active session
\* keeps a slot counted for it until it ends.
OpenSessionsCounted ==
  \A l \in Labs : Cardinality({r \in Rows : rows[r].lab = l /\ rows[r].status = "active"
                                            /\ ~rows[r].ended}) <= labCount[l]

\* When a learner's requests do not overlap the end of their session, the
\* counters are exact until the process restarts or an account is erased: no
\* slot leaks, and no session is without one; not even after a restart or an
\* erasure is an open session without a slot that is counted.
SlotsExact ==
  /\ crashes = 0 /\ accounts = Users =>
       /\ \A l \in Labs : labCount[l] = Cardinality(Claims(l))
       /\ total = Cardinality(UNION {Claims(l) : l \in Labs})
  /\ OpenSessionsCounted

\* end_lab and the reaper finalize the row before they tear its GNS3 session
\* down, so a session that has lost its GNS3 project is never still open.
TeardownAfterEnd ==
  \A r \in Rows : gns3[r] = "deleted" => rows[r].ended \/ rows[r].status = "erased"

\* A finished session stays finished: once ended_at is set it is never cleared,
\* and its metadata is only completed, never lost.
EndedForGood ==
  [][\A r \in Rows : rows[r].ended =>
       rows'[r].status = "erased" \/ (rows'[r].ended /\ (rows[r].sid => rows'[r].sid))]_vars

\* What makes the above inductive: a launch knows its learner and lab, owns its
\* row from the insert on, and until it finalizes that row nobody else makes it
\* active; a closer has a row, and what it takes for ended has ended.
LaunchesSound ==
  \A p \in Launchers :
    LET r == launch[p].row
    IN /\ launch[p].pc # "idle" => launch[p].user \in Users /\ launch[p].lab \in Labs
       /\ r # None <=> launch[p].pc \in {"provision", "finalize", "fail", "start", "publish"}
       /\ r # None => rows[r].status # "none"
       /\ launch[p].pc \in {"provision", "finalize"} =>
            rows[r].status \in {"provisioning", "erased"} \/ rows[r].ended
       /\ \A q \in Launchers : r # None /\ launch[q].row = r => q = p

ClosesSound ==
  \A e \in Closers :
    LET r == close[e].row
    IN close[e] # IdleClose =>
         /\ r # None /\ rows[r].status # "none"
         /\ close[e].pc \in {"measure", "free", "teardown"} \/ close[e].ended =>
              rows[r].ended \/ rows[r].status = "erased"

SelectionSound == \A x \in selected : rows[x[1]].status # "none"

UnusedRowsSound == \A r \in Rows : rows[r].status \in {"none", "erased"} => ~rows[r].ended

LifecycleInv ==
  /\ TypeOK
  /\ OneLivePerLab
  /\ UserCapHolds
  /\ TeardownAfterEnd
  /\ LaunchesSound
  /\ ClosesSound
  /\ SelectionSound
  /\ UnusedRowsSound

(* Liveness *)

\* Every launch is answered: with a session, a place in the queue or an error.
LaunchAnswered == \A p \in Launchers : ~LaunchAt(p, "idle") ~> LaunchAt(p, "idle")

\* The reaper ends what is overdue, including the provisioning rows that a
\* crash left behind, even if the process restarts again meanwhile.
OverdueEnds ==
  \A r \in Rows : (r \in due /\ rows[r].status \in Live /\ ~rows[r].ended)
                     ~> (rows[r].ended \/ rows[r].status = "erased")

(* What the documentation says and the code does not do *)

\* lifecycle.py: "a repeat call cannot ... double-count": a session's
\* measurements are recorded at most once.
MeasuredOnce == \A r \in Rows : metrics[r] <= 1

\* reaper.py: it "ends sessions past their deadline, and frees what they held":
\* an overdue row stops being live, and with it the learner's one place on the lab.
OverdueFreesTheLab ==
  \A r \in Rows : (r \in due /\ rows[r].status \in Live) ~> rows[r].status \notin Live
=============================================================================
