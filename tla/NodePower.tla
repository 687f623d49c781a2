----------------------------- MODULE NodePower -----------------------------
(***************************************************************************)
(* Stopping and starting the nodes of one active session: the idle         *)
(* reclaimer (worker/idle_reclaim.py), the learner's node actions          *)
(* (services/proxy.py), stop and restart of the lab (services/lifecycle.py)*)
(* over the state snapshots of gns3-service, which are cached.  A VPCS     *)
(* node keeps what was typed into it in RAM until it is saved.             *)
(***************************************************************************)
EXTENDS Absent, Naturals

CONSTANTS
  Requests,    \* executions of the learner's endpoints
  Reclaimer,   \* the idle_reclaim_loop task
  MaxEdits,    \* bound: configurations typed
  MaxReclaims  \* bound: iterations that select the session

ASSUME PowerAssumption ==
  /\ Reclaimer \notin Requests /\ None \notin BOOLEAN
  /\ MaxEdits \in Nat /\ MaxReclaims \in Nat

Actors == Requests \cup {Reclaimer}

VARIABLES
  node,      \* whether the nodes run, and what their RAM and their disk hold
  edits,     \* configurations typed so far
  paused,    \* paused_at of the row
  idle,      \* whether last_seen_at is older than the threshold
  snapshot,  \* gns3-service's cache of the state: whether the nodes run; None if expired
  actor,     \* the executions
  reclaims,  \* iterations that have selected the session
  loss,      \* how the last stop lost a configuration: "nothing" if it did not
  raced      \* whether a start and a reclaim have overlapped, or a paused session was reloaded

powerVars == <<node, edits, paused, idle, snapshot, actor, reclaims, loss, raced>>

Resting == [pc |-> "idle", kind |-> "none", paused |-> FALSE, on |-> None, save |-> "none", saved |-> 0]

PowerInit ==
  /\ node = [on |-> FALSE, ram |-> 0, disk |-> 0]
  /\ edits = 0 /\ paused = FALSE /\ idle = FALSE /\ snapshot = None
  /\ actor = [a \in Actors |-> Resting]
  /\ reclaims = 0 /\ loss = "nothing" /\ raced = FALSE

ActorAt(a, pc) == actor[a].pc = pc
ActorTo(a, pc) == actor' = [actor EXCEPT ![a].pc = pc]
ActorEnds(a) == actor' = [actor EXCEPT ![a] = Resting]
Busy(a) == ~ActorAt(a, "idle")
Starts == {"start", "restart", "reload"}
-----------------------------------------------------------------------------
(* Who begins *)

\* The learner asks; the request stamps last_seen_at and loads the row.
AskNode(a, kind) ==
  /\ a \in Requests /\ ActorAt(a, "idle")
  /\ actor' = [actor EXCEPT ![a] = [Resting EXCEPT
       !.pc = IF kind = "start" THEN "start" ELSE IF kind = "reload" THEN "stop" ELSE "state",
       !.kind = kind, !.paused = paused]]
  /\ idle' = FALSE
  /\ raced' = (raced \/ (kind \in Starts /\ Busy(Reclaimer)) \/ (kind = "reload" /\ paused))
  /\ UNCHANGED <<node, edits, paused, snapshot, reclaims, loss>>

\* The reclaimer selects sessions that are idle and not paused; one that GNS3 has
\* seen activity in, or that has no GNS3 session, is passed over.
Select ==
  /\ ActorAt(Reclaimer, "idle") /\ reclaims < MaxReclaims
  /\ idle /\ ~paused
  /\ actor' = [actor EXCEPT ![Reclaimer] = [Resting EXCEPT !.pc = "state", !.kind = "reclaim"]]
  /\ reclaims' = reclaims + 1
  /\ raced' = (raced \/ \E a \in Requests : actor[a].kind \in Starts)
  /\ UNCHANGED <<node, edits, paused, idle, snapshot, loss>>
-----------------------------------------------------------------------------
(* persist_volatile_configs *)

\* The state is the cached one, or is fetched and cached when it has come.
LookUp(a) ==
  /\ ActorAt(a, "state") /\ snapshot # None
  /\ actor' = [actor EXCEPT ![a].pc = "save", ![a].on = snapshot]
  /\ UNCHANGED <<node, edits, paused, idle, snapshot, reclaims, loss, raced>>

Fetch(a) ==
  /\ ActorAt(a, "state") /\ snapshot = None
  /\ actor' = [actor EXCEPT ![a].pc = "put", ![a].on = node.on]
  /\ UNCHANGED <<node, edits, paused, idle, snapshot, reclaims, loss, raced>>

Put(a) ==
  /\ ActorAt(a, "put")
  /\ snapshot' = actor[a].on
  /\ ActorTo(a, "save")
  /\ UNCHANGED <<node, edits, paused, idle, reclaims, loss, raced>>

NoState(a) ==
  /\ ActorAt(a, "state")
  /\ actor' = [actor EXCEPT ![a].pc = "stop", ![a].save = "failed"]
  /\ UNCHANGED <<node, edits, paused, idle, snapshot, reclaims, loss, raced>>

\* Nodes that the state shows as started are saved through their console; one
\* that cannot be saved is stopped all the same.
SaveStarted(a) ==
  /\ ActorAt(a, "save")
  /\ \/ /\ actor[a].on = FALSE
        /\ actor' = [actor EXCEPT ![a].pc = "stop", ![a].save = "unseen"] /\ UNCHANGED node
     \/ /\ actor[a].on = TRUE /\ node.on
        /\ actor' = [actor EXCEPT ![a].pc = "stop", ![a].save = "ok", ![a].saved = node.ram]
        /\ node' = [node EXCEPT !.disk = node.ram]
     \/ /\ actor[a].on = TRUE
        /\ actor' = [actor EXCEPT ![a].pc = "stop", ![a].save = "failed"] /\ UNCHANGED node

Persist(a) ==
  /\ SaveStarted(a)
  /\ UNCHANGED <<edits, paused, idle, snapshot, reclaims, loss, raced>>
-----------------------------------------------------------------------------
(* The nodes are stopped and started *)

\* The lab as a whole is stopped and restarted through the MCP server, behind
\* the back of gns3-service; its own actions invalidate its snapshot.
Uncached(a) == IF actor[a].kind \in {"stop_lab", "restart"} THEN snapshot ELSE None

GoesOn(a, pc) ==    \* and needs the outcome of the save no more
  actor' = [actor EXCEPT ![a] = [Resting EXCEPT !.pc = pc, !.kind = actor[a].kind, !.paused = actor[a].paused]]
AfterStop(a) ==
  CASE actor[a].kind = "reclaim" -> GoesOn(a, "mark")
    [] actor[a].kind \in {"restart", "reload"} -> GoesOn(a, "start")
    [] OTHER -> ActorEnds(a)

\* What the save of a had in hand, against what is lost.
Excuse(a) ==
  IF actor[a].kind = "reload" THEN "reload"
  ELSE IF actor[a].save = "ok" /\ actor[a].saved # node.ram THEN "typed after the save"
  ELSE IF actor[a].save = "ok" THEN "none" ELSE actor[a].save

Stop(a) ==
  /\ ActorAt(a, "stop")
  /\ node' = [node EXCEPT !.on = FALSE, !.ram = node.disk]
  /\ loss' = IF node.on /\ node.ram # node.disk THEN Excuse(a) ELSE "nothing"
  /\ snapshot' = Uncached(a)
  /\ AfterStop(a)
  /\ UNCHANGED <<edits, paused, idle, reclaims, raced>>

\* A started node is resumed if the row, as loaded, was paused.
Start(a) ==
  /\ ActorAt(a, "start")
  /\ node' = [node EXCEPT !.on = TRUE]
  /\ snapshot' = Uncached(a)
  /\ IF actor[a].kind \in {"start", "restart"} THEN ActorTo(a, "clear") ELSE ActorEnds(a)
  /\ UNCHANGED <<edits, paused, idle, reclaims, loss, raced>>

KeepPaused(a) == UNCHANGED paused     \* mutant
ClearPaused(a) == paused' = (paused /\ ~actor[a].paused)

ClearPause(a) ==
  /\ ActorAt(a, "clear")
  /\ ClearPaused(a)
  /\ ActorEnds(a)
  /\ UNCHANGED <<node, edits, idle, snapshot, reclaims, loss, raced>>

\* Whatever has become of the session since it was selected.
MarkPaused ==
  /\ ActorAt(Reclaimer, "mark")
  /\ paused' = TRUE
  /\ ActorEnds(Reclaimer)
  /\ UNCHANGED <<node, edits, idle, snapshot, reclaims, loss, raced>>

\* GNS3 or the MCP server does not answer: the execution ends in an error.
Abort(a) ==
  /\ actor[a].pc \in {"stop", "start"}
  /\ ActorEnds(a)
  /\ UNCHANGED <<node, edits, paused, idle, snapshot, reclaims, loss, raced>>
-----------------------------------------------------------------------------
(* The learner and the time *)

Type ==
  /\ node.on /\ edits < MaxEdits
  /\ edits' = edits + 1
  /\ node' = [node EXCEPT !.ram = edits + 1]
  /\ idle' \in {idle, FALSE}
  /\ UNCHANGED <<paused, snapshot, actor, reclaims, loss, raced>>

ReclaimIdle ==
  /\ ~idle /\ \A a \in Requests : ~Busy(a)
  /\ idle' = TRUE
  /\ UNCHANGED <<node, edits, paused, snapshot, actor, reclaims, loss, raced>>

Expire ==
  /\ snapshot # None
  /\ snapshot' = None
  /\ UNCHANGED <<node, edits, paused, idle, actor, reclaims, loss, raced>>

PowerNext ==
  \/ \E a \in Requests, kind \in {"start", "stop", "stop_lab", "restart", "reload"} : AskNode(a, kind)
  \/ \E a \in Actors : LookUp(a) \/ Fetch(a) \/ Put(a) \/ NoState(a) \/ Persist(a) \/ Stop(a) \/ Start(a)
                       \/ ClearPause(a) \/ Abort(a)
  \/ Select \/ MarkPaused \/ Type \/ ReclaimIdle \/ Expire

PowerSpec == PowerInit /\ [][PowerNext]_powerVars
-----------------------------------------------------------------------------
PowerTypeOK ==
  /\ node \in [on : BOOLEAN, ram : 0 .. edits, disk : 0 .. edits]
  /\ snapshot \in BOOLEAN \cup {None}
  /\ \A a \in Actors :
       /\ actor[a].pc \in {"idle", "state", "put", "save", "stop", "start", "clear", "mark"}
       /\ actor[a].kind = "reclaim" => a = Reclaimer

\* A learner's configuration survives every stop, by whoever, unless saving it
\* failed, it was typed after the save, the snapshot in the cache did not show
\* the node as started, or the learner reloads it.  And a paused session is a
\* stopped one, to be resumed by the next start, unless a start has overlapped
\* the reclaimer or the learner has reloaded the nodes instead.
PauseKeepsWork ==
  /\ PowerTypeOK
  /\ loss \in {"nothing", "failed", "typed after the save", "unseen", "reload"}
  /\ ~raced /\ paused => ~node.on \/ \E a \in Requests : Busy(a)
=============================================================================
