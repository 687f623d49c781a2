---------------------------- MODULE Gns3Sessions ----------------------------
(***************************************************************************)
(* The sessions of gns3-service (services/session_lifecycle.py): creation  *)
(* with its rollback, reset and deletion, composed with the RBAC gate.     *)
(* A creation is identified with the session whose id it mints.            *)
(***************************************************************************)
EXTENDS RbacGate, Absent, FiniteSets

CONSTANTS
  Projects,     \* ids of GNS3 projects, all that may ever be used
  Workers,      \* concurrent executions of reset-project and of DELETE
  Perils        \* see PerilNames

(***************************************************************************)
(* "account"   creating the GNS3 account fails, or succeeds unheard        *)
(* "copy"      the copy of a creation fails, or succeeds unheard           *)
(* "later"     a creation fails after that: open, roles, ACLs, the token   *)
(* "database"  the commit of a creation fails, or what follows it          *)
(* "reset"     a reset fails, its copy made or not                         *)
(* "cleanup"   deleting an account or a project fails                      *)
(* "overlap"   resets and deletions of one session overlap                 *)
(***************************************************************************)
PerilNames == {"account", "copy", "later", "database", "reset", "cleanup", "overlap"}

Sessions == Writers

ASSUME SessionsAssumption == Perils \subseteq PerilNames /\ None \notin Projects \cup Sessions

VARIABLES
  row,          \* the table sessions of gns3-service
  account,      \* the sessions whose GNS3 account exists
  project,      \* the GNS3 projects: unused, up or deleted, and for which session
  create,       \* POST /sessions; its copying task; created_user_id and created_project_id
  work,         \* the workers
  logged        \* the sessions with a deletion that failed, which the log has, and
                \* those whose reset or deletion a stopping replica has cut off

sessionVars == <<row, account, project, create, work, logged>>
allVars == <<gateVars, sessionVars>>

CreatePcs == {"idle", "user", "await", "open", "acl", "commit", "dropProject", "dropUser",
              "done", "failed"}
WorkPcs == {"idle", "copy", "grant", "commit", "drop", "dropUser", "dropProject", "close"}

IdleCreate == [pc |-> "idle", copying |-> "no", copy |-> None, user |-> FALSE, project |-> None]
IdleWork == [pc |-> "idle", session |-> None, old |-> None, new |-> None]

SessionsTypeOK ==
  /\ GateTypeOK
  /\ row \in [Sessions -> [status : {"none", "active", "closed"}, project : Projects \cup {None}]]
  /\ account \subseteq Sessions
  /\ project \in [Projects -> [state : {"unused", "up", "deleted"}, of : Sessions \cup {None}]]
  /\ create \in [Sessions -> [pc : CreatePcs, copying : {"no", "running", "done", "failed"},
                              copy : Projects \cup {None}, user : BOOLEAN,
                              project : Projects \cup {None}]]
  /\ work \in [Workers -> [pc : WorkPcs, session : Sessions \cup {None},
                           old : Projects \cup {None}, new : Projects \cup {None}]]
  /\ logged \subseteq Sessions

Init ==
  /\ GateInit
  /\ row = [s \in Sessions |-> [status |-> "none", project |-> None]]
  /\ account = {}
  /\ project = [x \in Projects |-> [state |-> "unused", of |-> None]]
  /\ create = [s \in Sessions |-> IdleCreate]
  /\ work = [k \in Workers |-> IdleWork]
  /\ logged = {}

Unused == {x \in Projects : project[x].state = "unused"}
\* GNS3 gives the copy an id never used before; which one is of no matter.
NewProject(x, s) ==
  /\ Unused # {} /\ x = CHOOSE y \in Unused : TRUE
  /\ project' = [project EXCEPT ![x] = [state |-> "up", of |-> s]]

\* DELETE of a project or an account: a failure is logged and passed over.  A
\* project that is gone already answers 404.
Dropped(x) == project' = [project EXCEPT ![x].state = IF @ = "up" THEN "deleted" ELSE @]

Attempted(s, done, undone) ==
  \/ done /\ UNCHANGED logged
  \/ "cleanup" \in Perils /\ undone /\ logged' = logged \cup {s}

DropProject(s, x) == Attempted(s, Dropped(x), UNCHANGED project)
DropAccount(s) == Attempted(s, account' = account \ {s}, UNCHANGED account)
-----------------------------------------------------------------------------
(* create_session *)

CreateAt(s, pc) == create[s].pc = pc
CreateTo(s, pc) == create' = [create EXCEPT ![s].pc = pc]

\* Bound: a project id for each copy that has begun and for the one to begin.
Copying == Cardinality({s \in Sessions : create[s].copying = "running"})
             + Cardinality({k \in Workers : work[k].pc = "copy"})
RoomForProject == Copying < Cardinality(Unused)

\* The copying task starts, and the creation goes to the gate.
Begin(s) ==
  /\ CreateAt(s, "idle")
  /\ RoomForProject
  /\ Enter(s)
  /\ create' = [create EXCEPT ![s].pc = "user", ![s].copying = "running"]
  /\ UNCHANGED <<row, account, project, work, logged>>

\* duplicate_project, beside the gate.
Duplicated(s) ==
  /\ create[s].copying = "running"
  /\ \/ \E x \in Projects :
          NewProject(x, s) /\ create' = [create EXCEPT ![s].copying = "done", ![s].copy = x]
     \/ /\ "copy" \in Perils
        /\ UNCHANGED project \/ \E x \in Projects : NewProject(x, s)
        /\ create' = [create EXCEPT ![s].copying = "failed"]
  /\ UNCHANGED <<gateVars, row, account, work, logged>>

\* The account's name derives from a fresh id, so no orphan is found.  When this
\* fails the copying task goes on, and the rollback knows of nothing to undo.
CreateUser(s) ==
  /\ CreateAt(s, "user")
  /\ Exit(s)
  /\ \/ account' = account \cup {s} /\ CreateTo(s, "await")
     \/ /\ "account" \in Perils
        /\ account' \in {account, account \cup {s}}
        /\ CreateTo(s, "failed")
  /\ UNCHANGED <<row, project, work, logged>>

\* project = await project_task, and only then created_user_id and
\* created_project_id: a failing copy leaves the rollback nothing to undo.
AwaitCopy(s) ==
  /\ CreateAt(s, "await") /\ gate[s] = "out"
  /\ \/ /\ create[s].copying = "done"
        /\ create' = [create EXCEPT ![s].pc = "open", ![s].user = TRUE,
                                    ![s].project = create[s].copy]
     \/ create[s].copying = "failed" /\ CreateTo(s, "failed")
  /\ UNCHANGED <<gateVars, row, account, project, work, logged>>

\* open_project and the roles; then to the gate again.
OpenProject(s) ==
  /\ CreateAt(s, "open")
  /\ \/ Enter(s) /\ CreateTo(s, "acl")
     \/ "later" \in Perils /\ CreateTo(s, "dropProject") /\ UNCHANGED gateVars
  /\ UNCHANGED <<row, account, project, work, logged>>

\* Both ACLs, one after the other.
GrantAccess(s) ==
  /\ CreateAt(s, "acl")
  /\ Exit(s)
  /\ CreateTo(s, "commit") \/ ("later" \in Perils /\ CreateTo(s, "dropProject"))
  /\ UNCHANGED <<row, account, project, work, logged>>

\* The token, the row, and the row read back; a failure after the commit is
\* rolled back like any other.
Commit(s) ==
  /\ CreateAt(s, "commit") /\ gate[s] = "out"
  /\ LET active == row' = [row EXCEPT ![s] = [status |-> "active", project |-> create[s].project]]
     IN \/ active /\ CreateTo(s, "done")
        \/ "database" \in Perils /\ active /\ CreateTo(s, "dropProject")
        \/ {"later", "database"} \cap Perils # {} /\ UNCHANGED row /\ CreateTo(s, "dropProject")
  /\ UNCHANGED <<gateVars, account, project, work, logged>>

\* _rollback_created_resources: what it was told of, the project first.
ForgetProject(s) == UNCHANGED <<project, logged>>    \* mutant: the account only
UndoProject(s) == DropProject(s, create[s].project)

RollBackProject(s) ==
  /\ CreateAt(s, "dropProject") /\ gate[s] = "out"
  /\ UndoProject(s)
  /\ CreateTo(s, "dropUser")
  /\ UNCHANGED <<gateVars, row, account, work>>

RollBackUser(s) ==
  /\ CreateAt(s, "dropUser")
  /\ DropAccount(s)
  /\ CreateTo(s, "failed")
  /\ UNCHANGED <<gateVars, row, project, work>>

CreateStep(s) ==
  \/ Duplicated(s) \/ CreateUser(s) \/ AwaitCopy(s) \/ OpenProject(s) \/ GrantAccess(s)
  \/ Commit(s) \/ RollBackProject(s) \/ RollBackUser(s)
-----------------------------------------------------------------------------
(* reset_project and delete_session *)

WorkAt(k, pc) == work[k].pc = pc
WorkTo(k, pc) == work' = [work EXCEPT ![k].pc = pc]
WorkEnds(k) == work' = [work EXCEPT ![k] = IdleWork]

Working(s) == \E k \in Workers : work[k].session = s

\* Both load the row, refuse or pass over a closed session, and keep the project
\* id they have read.
LoadActive(k, s, pc) ==
  /\ WorkAt(k, "idle")
  /\ row[s].status = "active"
  /\ "overlap" \in Perils \/ ~Working(s)
  /\ work' = [work EXCEPT ![k] = [pc |-> pc, session |-> s, old |-> row[s].project, new |-> None]]
  /\ UNCHANGED <<gateVars, row, account, project, create, logged>>

Reset(k, s) == RoomForProject /\ LoadActive(k, s, "copy")

Delete(k, s) == LoadActive(k, s, "dropUser")

ResetCopy(k) ==
  /\ WorkAt(k, "copy")
  /\ \/ \E x \in Projects : /\ NewProject(x, work[k].session)
                            /\ work' = [work EXCEPT ![k].pc = "grant", ![k].new = x]
     \/ /\ "reset" \in Perils
        /\ UNCHANGED project \/ \E x \in Projects : NewProject(x, work[k].session)
        /\ WorkEnds(k)
  /\ UNCHANGED <<gateVars, row, account, create, logged>>

\* The new project is opened and granted, past the gate; a failure just raises.
ResetGrant(k) ==
  /\ WorkAt(k, "grant")
  /\ WorkTo(k, "commit") \/ ("reset" \in Perils /\ WorkEnds(k))
  /\ UNCHANGED <<gateVars, row, account, project, create, logged>>

\* Mutant: the old project goes before the new one is committed.
DropBeforeCommit(k) == Dropped(work[k].old) /\ UNCHANGED row
SwitchProject(k) ==
  row' = [row EXCEPT ![work[k].session].project = work[k].new] /\ UNCHANGED project

\* The UPDATE writes the one column that has changed.
ResetCommit(k) ==
  /\ WorkAt(k, "commit")
  /\ \/ SwitchProject(k) /\ WorkTo(k, "drop")
     \/ "reset" \in Perils /\ WorkEnds(k) /\ UNCHANGED <<row, project>>
  /\ UNCHANGED <<gateVars, account, create, logged>>

ResetDrop(k) ==
  /\ WorkAt(k, "drop")
  /\ DropProject(work[k].session, work[k].old)
  /\ WorkEnds(k)
  /\ UNCHANGED <<gateVars, row, account, create>>

\* A deletion goes on whatever fails: account, project, then the row is closed.
DeleteUser(k) ==
  /\ WorkAt(k, "dropUser")
  /\ DropAccount(work[k].session)
  /\ WorkTo(k, "dropProject")
  /\ UNCHANGED <<gateVars, row, project, create>>

DeleteProject(k) ==
  /\ WorkAt(k, "dropProject")
  /\ DropProject(work[k].session, work[k].old)
  /\ WorkTo(k, "close")
  /\ UNCHANGED <<gateVars, row, account, create>>

Close(k) ==
  /\ WorkAt(k, "close")
  /\ row' = [row EXCEPT ![work[k].session].status = "closed"]
  /\ WorkEnds(k)
  /\ UNCHANGED <<gateVars, account, project, create, logged>>

WorkStep(k) ==
  \/ ResetCopy(k) \/ ResetGrant(k) \/ ResetCommit(k) \/ ResetDrop(k)
  \/ DeleteUser(k) \/ DeleteProject(k) \/ Close(k)
-----------------------------------------------------------------------------
\* A replica stops with what runs in it; GNS3 and Postgres do not.
Crash(r) ==
  /\ GateCrash(r)
  /\ create' = [s \in Sessions |->
                  IF ReplicaOf[s] = r /\ create[s].pc \notin {"idle", "done", "failed"}
                  THEN [IdleCreate EXCEPT !.pc = "failed"] ELSE create[s]]
  /\ \E dead \in SUBSET {k \in Workers : ~WorkAt(k, "idle")} :
       /\ work' = [k \in Workers |-> IF k \in dead THEN IdleWork ELSE work[k]]
       /\ logged' = logged \cup {work[k].session : k \in dead}
  /\ UNCHANGED <<row, account, project>>

AtGate(s) == GateStep(s) /\ UNCHANGED sessionVars
KeyLapses == KeyExpires /\ UNCHANGED sessionVars

Next ==
  \/ \E s \in Sessions : Begin(s) \/ CreateStep(s) \/ AtGate(s)
  \/ \E k \in Workers : WorkStep(k) \/ \E s \in Sessions : Reset(k, s) \/ Delete(k, s)
  \/ KeyLapses
  \/ \E r \in Replicas : Crash(r)

Spec == Init /\ [][Next]_allVars

\* Every call to GNS3, Redis and Postgres has a timeout; the key has its TTL.
Fairness ==
  /\ \A s \in Sessions : WF_allVars(Duplicated(s)) /\ WF_allVars(AtGate(s))
                           /\ WF_allVars(CreateStep(s))
  /\ \A k \in Workers : WF_allVars(WorkStep(k))
  /\ WF_allVars(KeyLapses)

FairSpec == Spec /\ Fairness
-----------------------------------------------------------------------------
Creating(s) == create[s].pc \notin {"idle", "done", "failed"}
Held(s) == Creating(s) \/ row[s].status = "active" \/ Working(s)

\* The ids a row, a creation and a worker keep are of projects made for their
\* own session, rows are active only with a project, and a creation is at the
\* gate exactly when it has RBAC writes to make.
SessionsSound ==
  /\ SessionsTypeOK
  /\ \A s \in Sessions :
       LET own(x) == x # None => project[x].state # "unused" /\ project[x].of = s
       IN /\ own(row[s].project) /\ own(create[s].copy) /\ own(create[s].project)
          /\ row[s].status # "none" => row[s].project # None
          /\ gate[s] \in {"waiting", "inside"} <=> CreateAt(s, "user") \/ CreateAt(s, "acl")
          /\ CreateAt(s, "open") \/ CreateAt(s, "commit") => create[s].project # None
  /\ \A k \in Workers : work[k] # IdleWork =>
       LET s == work[k].session
       IN /\ s # None /\ row[s].status # "none"
          /\ \A x \in {work[k].old, work[k].new} \ {None} :
               project[x].state # "unused" /\ project[x].of = s

\* What the rollback was told of, and every session that was made, leaves nothing
\* behind in GNS3 unless the log says so, or a replica has stopped in the middle
\* of a reset or a deletion: each account and project belongs to a session that
\* is active or being made or unmade, and an idle session has no project but its
\* own; nor does any row, creation or worker hold the project of another session.
NothingLeftBehind ==
  /\ SessionsSound
  /\ \A s \in Sessions : s \notin logged /\ create[s].user =>
       /\ s \in account => Held(s)
       /\ \A x \in Projects : project[x] = [state |-> "up", of |-> s] =>
            Held(s) /\ (~Creating(s) /\ ~Working(s) => row[s].project = x)

\* A learner who can log in finds the project: as long as the account of an
\* active session exists, so does the project its row names, in the middle of
\* resets and deletions that overlap or are cut off by a crash.
AccountHasProject ==
  \A s \in Sessions : row[s].status = "active" /\ s \in account =>
    project[row[s].project].state = "up"

\* Every creation comes to an end, whatever GNS3, Redis and the replicas do.
CreationEnds == \A s \in Sessions : Creating(s) ~> ~Creating(s)
=============================================================================
