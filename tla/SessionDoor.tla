---------------------------- MODULE SessionDoor ----------------------------
(***************************************************************************)
(* What the owner of a session sees of it and how they get in: its state,  *)
(* served through two caches, that of gns3-service                         *)
(* (services/state_snapshot.py) and that of the backend                    *)
(* (sessions/services/state.py), which node actions invalidate; and the    *)
(* tickets that are exchanged once for a token of the session's account    *)
(* (sessions/services/ticket.py).                                          *)
(***************************************************************************)
EXTENDS Absent, Naturals, Sequences, FiniteSetsExt

CONSTANTS
  Viewers,     \* executions of the endpoints that read or redeem
  Tickets,     \* issued in the course of a behaviour
  NearTtl,     \* of gns3-service's snapshot
  FarTtl,      \* of the backend's entry
  TicketTtl,   \* TICKET_TTL_SEC
  MaxWait,     \* bound: the time that one call of gns3-service takes
  MaxChanges   \* bound: changes of the devices

ASSUME DoorAssumption == {NearTtl, FarTtl, TicketTtl, MaxWait, MaxChanges} \subseteq Nat \ {0}

VARIABLES
  door,      \* what the requests are for: the "state" or a "ticket"
  device,    \* the version of the devices' state
  past,      \* how long each earlier version has been past
  near,      \* gns3-service's cache: None, or the version and its age
  far,       \* the backend's cache
  labRow,    \* the session at gns3-service
  owned,     \* the learner's row
  view,      \* the requests
  switch,    \* the node action in progress: None, or the step it is at
  settled,   \* the version that the last answered action left
  late,      \* versions that were past when a cache took them
  pass       \* the tickets: age, whether they are in Redis, and tokens handed out

doorVars == <<door, device, past, near, far, labRow, owned, view, switch, settled, late, pass>>

MaxPast == NearTtl + FarTtl + 2 * MaxWait - 2     \* how long a version may still be shown
NoView == [pc |-> "idle", ver |-> None, floor |-> None, wait |-> 0, ticket |-> None]
Entry(ver) == [ver |-> ver, age |-> 0]

DoorInit ==
  /\ door \in {"state", "ticket"}
  /\ device = 0 /\ past = <<>> /\ near = None /\ far = None
  /\ labRow = "active" /\ owned = "active"
  /\ view = [v \in Viewers |-> NoView]
  /\ switch = None /\ settled = 0 /\ late = {}
  /\ pass = [t \in Tickets |-> [age |-> 0, held |-> FALSE, issued |-> FALSE, handed |-> 0]]

ViewAt(v, pc) == view[v].pc = pc
Stale(ver) == IF ver < device THEN {ver} ELSE {}
Shows(v, ver) == view' = [view EXCEPT ![v] = [NoView EXCEPT !.pc = "shown", !.ver = ver, !.floor = view[v].floor]]
-----------------------------------------------------------------------------
(* get_session_state *)

\* The owner check comes before the cache.
AskState(v) ==
  /\ door = "state" /\ view[v].pc \in {"idle", "shown"} /\ owned # "erased"
  /\ view' = [view EXCEPT ![v] = [NoView EXCEPT !.floor = settled,
       !.pc = IF far = None THEN "near" ELSE "shown", !.ver = IF far = None THEN None ELSE far.ver]]
  /\ UNCHANGED <<door, device, past, near, far, labRow, owned, switch, settled, late, pass>>

\* fetch_state: the snapshot, or the nodes and links as GNS3 has them now.
ReadSnapshot(v) ==
  /\ ViewAt(v, "near") /\ near # None
  /\ view' = [view EXCEPT ![v].pc = "keep", ![v].ver = near.ver]
  /\ UNCHANGED <<door, device, past, near, far, labRow, owned, switch, settled, late, pass>>

FetchState(v) ==
  /\ ViewAt(v, "near") /\ near = None /\ labRow = "active"
  /\ view' = [view EXCEPT ![v].pc = "fetched", ![v].ver = device]
  /\ UNCHANGED <<door, device, past, near, far, labRow, owned, switch, settled, late, pass>>

SetSnapshot(v) ==
  /\ ViewAt(v, "fetched")
  /\ near' = Entry(view[v].ver) /\ late' = late \cup Stale(view[v].ver)
  /\ view' = [view EXCEPT ![v].pc = "keep"]
  /\ UNCHANGED <<door, device, past, far, labRow, owned, switch, settled, pass>>

KeepState(v) ==
  /\ ViewAt(v, "keep")
  /\ far' = Entry(view[v].ver) /\ late' = late \cup Stale(view[v].ver)
  /\ Shows(v, view[v].ver)
  /\ UNCHANGED <<door, device, past, near, labRow, owned, switch, settled, pass>>

\* A session that gns3-service does not know ends; another failure is answered as one.
StateFails(v) ==
  /\ ViewAt(v, "near") /\ near = None
  /\ owned' = IF labRow = "lost" /\ owned = "active" THEN "ended" ELSE owned
  /\ view' = [view EXCEPT ![v] = NoView]
  /\ UNCHANGED <<door, device, past, near, far, labRow, switch, settled, late, pass>>
-----------------------------------------------------------------------------
(* The devices change *)

NextVersion == device' = device + 1 /\ past' = Append(past, 0)

\* By themselves, in the GNS3 interface, or through the tool server.
ChangeUnseen ==
  /\ door = "state" /\ device < MaxChanges /\ labRow = "active" /\ NextVersion
  /\ UNCHANGED <<door, near, far, labRow, owned, view, switch, settled, late, pass>>

\* proxy_node_action: GNS3 acts, gns3-service drops its snapshot, the backend its entry.
ActOnNode ==
  /\ door = "state" /\ switch = None /\ device < MaxChanges /\ labRow = "active" /\ owned # "erased"
  /\ NextVersion /\ switch' = [pc |-> "near", ver |-> device + 1]
  /\ UNCHANGED <<door, near, far, labRow, owned, view, settled, late, pass>>

DropSnapshot ==
  /\ switch # None /\ switch.pc = "near"
  /\ near' = None /\ switch' = [switch EXCEPT !.pc = "far"]
  /\ UNCHANGED <<door, device, past, far, labRow, owned, view, settled, late, pass>>

KeepEntry == UNCHANGED far     \* mutant: the entry is not dropped
DropEntry == far' = None
AnswerAction ==
  /\ switch # None /\ switch.pc = "far"
  /\ DropEntry
  /\ settled' = switch.ver /\ switch' = None
  /\ UNCHANGED <<door, device, past, near, labRow, owned, view, late, pass>>

\* The call to GNS3 fails after it acted: nothing is dropped and an error is answered.
ActionFails ==
  /\ switch # None /\ switch.pc = "near" /\ switch' = None
  /\ UNCHANGED <<door, device, past, near, far, labRow, owned, view, settled, late, pass>>

\* delete_session drops the snapshot before it begins; a lost session leaves it.
CloseLab ==
  /\ door = "ticket" /\ labRow = "active" /\ owned = "active"
  /\ labRow' = "closed" /\ owned' = "ended" /\ near' = None
  /\ UNCHANGED <<door, device, past, far, view, switch, settled, late, pass>>

LoseLab ==
  /\ door = "state" /\ labRow = "active" /\ labRow' = "lost"
  /\ UNCHANGED <<door, device, past, near, far, owned, view, switch, settled, late, pass>>

EraseRow ==
  /\ owned = "ended" /\ owned' = "erased"
  /\ UNCHANGED <<door, device, past, near, far, labRow, view, switch, settled, late, pass>>
-----------------------------------------------------------------------------
(* Tickets *)

\* With a launch, a return to the lab, or with the credentials.
IssueTicket(t) ==
  /\ door = "ticket" /\ owned # "erased" /\ ~pass[t].issued
  /\ pass' = [pass EXCEPT ![t].issued = TRUE, ![t].held = TRUE]
  /\ UNCHANGED <<door, device, past, near, far, labRow, owned, view, switch, settled, late>>

\* redeem takes the ticket out of Redis as it reads it.
TakenOut(t) == pass' = [pass EXCEPT ![t].held = FALSE]
RedeemTicket(v, t) ==
  /\ ViewAt(v, "idle") /\ pass[t].held
  /\ TakenOut(t)
  /\ view' = [view EXCEPT ![v] = [NoView EXCEPT !.pc = "redeem", !.ticket = t]]
  /\ UNCHANGED <<door, device, past, near, far, labRow, owned, switch, settled, late>>

\* The row must be the owner's still, and gns3-service signs in for an open session only.
HandToken(v) ==
  /\ ViewAt(v, "redeem")
  /\ pass' = [pass EXCEPT ![view[v].ticket].handed =
                IF owned # "erased" /\ labRow = "active" THEN @ + 1 ELSE @]
  /\ view' = [view EXCEPT ![v] = NoView]
  /\ UNCHANGED <<door, device, past, near, far, labRow, owned, switch, settled, late>>

HandFails(v) ==
  /\ ViewAt(v, "redeem") /\ view' = [view EXCEPT ![v] = NoView]
  /\ UNCHANGED <<door, device, past, near, far, labRow, owned, switch, settled, late, pass>>

Second ==
  /\ \A v \in Viewers : view[v].pc \in {"near", "fetched", "keep", "redeem"} => view[v].wait < MaxWait
  /\ view' = [v \in Viewers |-> IF view[v].pc \in {"near", "fetched", "keep", "redeem"}
                                THEN [view[v] EXCEPT !.wait = @ + 1] ELSE NoView]
  /\ past' = [n \in DOMAIN past |-> Min({past[n] + 1, MaxPast + 1})]
  /\ near' = IF near # None /\ near.age + 1 < NearTtl THEN [near EXCEPT !.age = @ + 1] ELSE None
  /\ far' = IF far # None /\ far.age + 1 < FarTtl THEN [far EXCEPT !.age = @ + 1] ELSE None
  /\ pass' = [t \in Tickets |-> IF ~pass[t].held THEN pass[t]
                ELSE [pass[t] EXCEPT !.age = @ + 1, !.held = pass[t].age + 1 < TicketTtl]]
  /\ UNCHANGED <<door, device, labRow, owned, switch, settled, late>>

DoorNext ==
  \/ \E v \in Viewers : AskState(v) \/ ReadSnapshot(v) \/ FetchState(v) \/ SetSnapshot(v) \/ KeepState(v)
                        \/ StateFails(v) \/ HandToken(v) \/ HandFails(v)
  \/ \E v \in Viewers, t \in Tickets : RedeemTicket(v, t)
  \/ \E t \in Tickets : IssueTicket(t)
  \/ ChangeUnseen \/ ActOnNode \/ DropSnapshot \/ AnswerAction \/ ActionFails
  \/ CloseLab \/ LoseLab \/ EraseRow \/ Second

DoorSpec == DoorInit /\ [][DoorNext]_doorVars
-----------------------------------------------------------------------------
\* Whoever asks for the state after a node action was answered does not see the devices
\* as they were before it, unless a request that had read them earlier put them into a
\* cache behind the action's back; and nobody sees devices that were past for longer than
\* both caches keep them and the calls that filled them took.  A ticket buys one token at
\* most (services/proxy.py:127, state_snapshot.py:46, ticket.py:43).
DoorSound ==
  /\ \A v \in Viewers : ViewAt(v, "shown") =>
       /\ view[v].ver < view[v].floor => view[v].ver \in late
       /\ view[v].ver < device => past[view[v].ver + 1] <= MaxPast
  /\ \A t \in Tickets : pass[t].handed <= 1
=============================================================================
