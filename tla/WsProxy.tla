------------------------------ MODULE WsProxy ------------------------------
(***************************************************************************)
(* The forwarders of gns3-service (gns3_ws_proxy.py): for each project one *)
(* task in one replica republishes the notifications of GNS3, under a      *)
(* Redis key that the replica renews and whoever crashes leaves to expire. *)
(***************************************************************************)
EXTENDS Naturals, FiniteSets

CONSTANTS
  Projects,     \* GNS3 projects, each made for one creation or reset
  Replicas,     \* processes of gns3-service
  Callers,      \* executions of the handlers that start and stop forwarders
  MaxStops,     \* bound: shutdowns and crashes, all told
  Perils,       \* see PerilNames
  None

(***************************************************************************)
(* "crash"   a replica stops without shutting down                         *)
(* "late"    a key expires although its owner's forwarder runs             *)
(* "overlap" a session is deleted while its forwarder is being started or  *)
(*           stopped                                                       *)
(* "redis"   a call to Redis fails                                         *)
(***************************************************************************)
PerilNames == {"crash", "late", "overlap", "redis"}

ASSUME ProxyAssumption ==
  /\ Perils \subseteq PerilNames
  /\ MaxStops \in Nat
  /\ None \notin Projects

VARIABLES
  phase,        \* of a project: unused, that of an active session, or past
  life,         \* per replica, which start of the process this is: _instance_id
  up,           \* the replicas that run
  attach,       \* per replica, the active projects its startup has still to attach
  lock,         \* lock:ws_proxy:{project}, the instance that set it
  tasks,        \* per replica, _tasks and _heartbeat_tasks
  forwarding,   \* per replica, the projects whose forwarder runs
  call,         \* the callers
  faults        \* what has gone wrong so far: see FaultNames

vars == <<phase, life, up, attach, lock, tasks, forwarding, call, faults>>

(***************************************************************************)
(* "crash" a replica has crashed; "redis" a SET has failed; "lapse" a key  *)
(* has expired while its owner's forwarder ran, or been given back by a    *)
(* handler that met another one at the project                             *)
(***************************************************************************)
FaultNames == {"crash", "redis", "lapse"}

NoLock == <<>>
Lives == 0 .. MaxStops
Instance(r) == <<r, life[r]>>
IdleCall == [pc |-> "idle", at |-> None, project |-> None, next |-> None]

TypeOK ==
  /\ phase \in [Projects -> {"unused", "open", "closed"}]
  /\ life \in [Replicas -> Lives]
  /\ up \subseteq Replicas
  /\ attach \in [Replicas -> SUBSET Projects]
  /\ lock \in [Projects -> (Replicas \X Lives) \cup {NoLock}]
  /\ tasks \in [Replicas -> SUBSET Projects]
  /\ forwarding \in [Replicas -> SUBSET Projects]
  /\ call \in [Callers -> [pc : {"idle", "set", "task", "release", "close"},
                           at : Replicas \cup {None}, project : Projects \cup {None},
                           next : Projects \cup {None}]]
  /\ faults \subseteq FaultNames

Init ==
  /\ phase = [p \in Projects |-> "unused"]
  /\ life = [r \in Replicas |-> 0]
  /\ up = Replicas
  /\ attach = [r \in Replicas |-> {}]
  /\ lock = [p \in Projects |-> NoLock]
  /\ tasks = [r \in Replicas |-> {}]
  /\ forwarding = [r \in Replicas |-> {}]
  /\ call = [c \in Callers |-> IdleCall]
  /\ faults = {}

Open == {p \in Projects : phase[p] = "open"}
Forwarders(p) == {r \in Replicas : p \in forwarding[r]}
Serving == {r \in up : attach[r] = {}}      \* requests come after the startup
InUse(p) == \E r \in Forwarders(p) : lock[p] = Instance(r)
Busy(p) == \E c \in Callers : p \in {call[c].project, call[c].next}

CallAt(c, pc) == call[c].pc = pc
CallTo(c, pc) == call' = [call EXCEPT ![c].pc = pc]
CallEnds(c) == call' = [call EXCEPT ![c] = IdleCall]
Awaits(c, r, p) == CallAt(c, "task") /\ call[c].at = r /\ call[c].project = p
Me(c) == Instance(call[c].at)
-----------------------------------------------------------------------------
(* start_project *)

\* A forwarder and its heartbeat, once the key is ours.
Forward(r, p) ==
  /\ tasks' = [tasks EXCEPT ![r] = @ \cup {p}]
  /\ forwarding' = [forwarding EXCEPT ![r] = @ \cup {p}]

\* create_session has committed its row and calls start_project.
Create(c, r, p) ==
  /\ CallAt(c, "idle") /\ r \in Serving
  /\ phase[p] = "unused"
  /\ phase' = [phase EXCEPT ![p] = "open"]
  /\ call' = [call EXCEPT ![c] = [pc |-> "set", at |-> r, project |-> p, next |-> None]]
  /\ UNCHANGED <<life, up, attach, lock, tasks, forwarding, faults>>

Free(p) == lock[p] = NoLock

\* A SET that fails counts as a key that is taken.
SetFails ==
  /\ "redis" \in Perils
  /\ faults' = faults \cup {"redis"}
  /\ UNCHANGED <<lock, tasks, forwarding>>

\* SET NX; the test for a forwarder of our own comes before the call.
Set(c) ==
  /\ CallAt(c, "set")
  /\ LET r == call[c].at
         p == call[c].project
     IN \/ /\ Free(p) /\ p \notin tasks[r]
           /\ lock' = [lock EXCEPT ![p] = Instance(r)]
           /\ Forward(r, p)
           /\ UNCHANGED faults
        \/ (~Free(p) \/ p \in tasks[r]) /\ UNCHANGED <<lock, tasks, forwarding, faults>>
        \/ SetFails
  /\ CallEnds(c)
  /\ UNCHANGED <<phase, life, up, attach>>

\* The startup attaches the active projects one after the other; one that is
\* taken is skipped for good.
Attach(r, p) ==
  /\ r \in up /\ p \in attach[r]
  /\ attach' = [attach EXCEPT ![r] = @ \ {p}]
  /\ \/ /\ Free(p) /\ Forward(r, p)
        /\ lock' = [lock EXCEPT ![p] = Instance(r)]
        /\ UNCHANGED faults
     \/ ~Free(p) /\ UNCHANGED <<lock, tasks, forwarding, faults>>
     \/ SetFails
  /\ UNCHANGED <<phase, life, up, call>>
-----------------------------------------------------------------------------
(* stop_project *)

\* Mutant: the key is given back before the task has ended.
StopAtOnce(c, r, p, next) ==
  /\ tasks' = [tasks EXCEPT ![r] = @ \ {p}]
  /\ call' = [call EXCEPT ![c] = [pc |-> "release", at |-> r, project |-> p, next |-> next]]

\* The task is popped, cancelled and awaited; then the heartbeat, then the key.
Stop(c, r, p, next) ==
  /\ tasks' = [tasks EXCEPT ![r] = @ \ {p}]
  /\ call' = [call EXCEPT ![c] = [pc |-> IF p \in tasks[r] THEN "task" ELSE "release",
                                  at |-> r, project |-> p, next |-> next]]

\* delete_session stops the forwarder before it closes the row ...
Delete(c, r, p) ==
  /\ CallAt(c, "idle") /\ r \in Serving
  /\ phase[p] = "open"
  /\ "overlap" \in Perils \/ ~Busy(p)
  /\ Stop(c, r, p, None)
  /\ UNCHANGED <<phase, life, up, attach, lock, forwarding, faults>>

\* ... and reset_project after it has committed the new project.  A reset that
\* meets a deletion of the old one is in Gns3Sessions.
Reset(c, r, p, new) ==
  /\ CallAt(c, "idle") /\ r \in Serving
  /\ phase[p] = "open" /\ phase[new] = "unused" /\ ~Busy(p)
  /\ phase' = [phase EXCEPT ![p] = "closed", ![new] = "open"]
  /\ Stop(c, r, p, new)
  /\ UNCHANGED <<life, up, attach, lock, forwarding, faults>>

TaskEnds(c) ==
  /\ CallAt(c, "task")
  /\ forwarding' = [forwarding EXCEPT ![call[c].at] = @ \ {call[c].project}]
  /\ CallTo(c, "release")
  /\ UNCHANGED <<phase, life, up, attach, lock, tasks, faults>>

\* The Lua script deletes the key only if it is ours.
Ours(c) == lock[call[c].project] = Me(c)

\* The key of p goes.
Unlock(p, amiss) ==
  /\ lock' = [lock EXCEPT ![p] = NoLock]
  /\ faults' = IF amiss THEN faults \cup {"lapse"} ELSE faults

\* Another handler has started the project, or is about to stop it, in this replica.
Shared(c) ==
  LET r == call[c].at
      p == call[c].project
  IN p \in tasks[r] \/ \E d \in Callers \ {c} : Awaits(d, r, p)

Release(c) ==
  /\ CallAt(c, "release")
  /\ \/ Ours(c) /\ Unlock(call[c].project, Shared(c))
     \/ (~Ours(c) \/ "redis" \in Perils) /\ UNCHANGED <<lock, faults>>
  /\ IF call[c].next = None
     THEN CallTo(c, "close")
     ELSE call' = [call EXCEPT ![c].pc = "set", ![c].project = call[c].next, ![c].next = None]
  /\ UNCHANGED <<phase, life, up, attach, tasks, forwarding>>

CloseRow(c) ==
  /\ CallAt(c, "close")
  /\ phase' = [phase EXCEPT ![call[c].project] = "closed"]
  /\ CallEnds(c)
  /\ UNCHANGED <<life, up, attach, lock, tasks, forwarding, faults>>

CallStep(c) == Set(c) \/ TaskEnds(c) \/ Release(c) \/ CloseRow(c)
-----------------------------------------------------------------------------
(* Heartbeats, expiry, and the processes *)

\* A heartbeat renews its key well within the TTL, unless Redis or the process
\* is too slow.
Expire(p) ==
  /\ lock[p] # NoLock
  /\ ~InUse(p) \/ "late" \in Perils
  /\ Unlock(p, InUse(p))
  /\ UNCHANGED <<phase, life, up, attach, tasks, forwarding, call>>

\* Mutant: the heartbeat goes on whatever it finds.
Unheeded(r, p) == FALSE

\* A heartbeat that finds its key gone stops the forwarder.
Lost(r, p) ==
  /\ r \in up /\ p \in tasks[r]
  /\ lock[p] # Instance(r)
  /\ tasks' = [tasks EXCEPT ![r] = @ \ {p}]
  /\ forwarding' = [forwarding EXCEPT ![r] = @ \ {p}]
  /\ UNCHANGED <<phase, life, up, attach, lock, call, faults>>

Gone(r) ==
  /\ up' = up \ {r}
  /\ tasks' = [tasks EXCEPT ![r] = {}]
  /\ forwarding' = [forwarding EXCEPT ![r] = {}]
  /\ attach' = [attach EXCEPT ![r] = {}]
  /\ call' = [c \in Callers |-> IF call[c].at = r THEN IdleCall ELSE call[c]]

\* stop_all gives the keys back that are ours.
KeepKeys(r) == lock                 \* mutant: the tasks are only cancelled
HandedBack(r) ==
  [p \in Projects |-> IF p \in tasks[r] /\ lock[p] = Instance(r) THEN NoLock ELSE lock[p]]

\* A shutdown waits for the requests and then stops every forwarder.
Shutdown(r) ==
  /\ r \in Serving /\ life[r] < MaxStops
  /\ \A c \in Callers : call[c].at # r
  /\ lock' = HandedBack(r)
  /\ Gone(r)
  /\ UNCHANGED <<phase, life, faults>>

Crash(r) ==
  /\ "crash" \in Perils
  /\ r \in up /\ life[r] < MaxStops
  /\ Gone(r)
  /\ faults' = faults \cup {"crash"}
  /\ UNCHANGED <<phase, life, lock>>

\* A process starts under a fresh _instance_id.
Boot(r) ==
  /\ r \notin up
  /\ up' = up \cup {r}
  /\ life' = [life EXCEPT ![r] = @ + 1]
  /\ attach' = [attach EXCEPT ![r] = Open]
  /\ UNCHANGED <<phase, lock, tasks, forwarding, call, faults>>

Next ==
  \/ \E c \in Callers :
       \/ CallStep(c)
       \/ \E r \in Replicas, p \in Projects :
            \/ Create(c, r, p) \/ Delete(c, r, p)
            \/ \E new \in Projects : Reset(c, r, p, new)
  \/ \E p \in Projects : Expire(p)
  \/ \E r \in Replicas : Shutdown(r) \/ Crash(r) \/ Boot(r)
  \/ \E r \in Replicas, p \in Projects : Attach(r, p) \/ Lost(r, p)

Spec == Init /\ [][Next]_vars

\* Calls have timeouts, keys expire, heartbeats beat, and a stopped replica is
\* started again.
Fairness ==
  /\ \A c \in Callers : WF_vars(CallStep(c))
  /\ \A p \in Projects : WF_vars(~InUse(p) /\ Expire(p))
  /\ \A r \in Replicas :
       /\ WF_vars(Boot(r))
       /\ \A p \in Projects : WF_vars(Attach(r, p)) /\ WF_vars(Lost(r, p))

FairSpec == Spec /\ Fairness
-----------------------------------------------------------------------------
\* No event is published twice: a project is forwarded by one replica at most,
\* through crashes, takeovers, resets and failures of Redis, because the key is
\* given back after the forwarder has ended.  Only a key that goes under a
\* running forwarder spoils it.
OneForwarder ==
  "lapse" \notin faults =>
    \A p \in Projects : \A r1, r2 \in Forwarders(p) : r1 = r2

\* What makes it so: a forwarder runs under the key of its replica and of this
\* start of it, because a replica that is down has neither forwarders nor handlers,
\* and the forwarders it runs are in _tasks or awaited by the handler that stops them.
KeyedForwarders ==
  "lapse" \notin faults =>
    \A r \in Replicas : \A p \in forwarding[r] : lock[p] = Instance(r)
DownIsEmpty == \A r \in Replicas \ up : forwarding[r] = {} /\ life[r] < MaxStops
HandlersUp ==
  \A c \in Callers : call[c].pc # "idle" => call[c].at \in up /\ call[c].project \in Projects
ForwardersTended ==
  \A r \in Replicas : \A p \in forwarding[r] :
    p \in tasks[r] \/ \E c \in Callers : Awaits(c, r, p)
ProxyInv == TypeOK /\ DownIsEmpty /\ HandlersUp /\ ForwardersTended /\ KeyedForwarders

\* "stop forwarding so the broker doesn't receive duplicates": even then the
\* heartbeats leave one forwarder in the end.
DuplicatesEnd ==
  \A p \in Projects : Cardinality(Forwarders(p)) > 1 ~> Cardinality(Forwarders(p)) <= 1

\* As long as nothing goes wrong, every active project is forwarded, through
\* shutdowns and startups, once the startups and the calls are through.
Forwarded ==
  faults = {} /\ Serving = Replicas =>
    \A p \in Open : ~Busy(p) => Forwarders(p) # {}
=============================================================================
