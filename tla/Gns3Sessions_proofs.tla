------------------------- MODULE Gns3Sessions_proofs -------------------------
(***************************************************************************)
(* Theorems about Gns3Sessions for any number of sessions, projects,       *)
(* workers and replicas: what a session owns is its own, what was made is  *)
(* undone or logged, and an account that can log in has its project; and   *)
(* about EventStream for any number of replicas, watchers and faults: the  *)
(* events of a lab reach those who watch and read once, in order, whole.   *)
(***************************************************************************)
EXTENDS Gns3Sessions, RbacGate_proofs, EventStream, FiniteSetTheorems, SequenceTheorems

-----------------------------------------------------------------------------
(* What the three invariants rest on *)

\* An id that is kept is of a project made for that very session.
Own(x, s) == x # None => project[x].state # "unused" /\ project[x].of = s

OwnIds ==
  /\ \A s \in Sessions :
       Own(row[s].project, s) /\ Own(create[s].copy, s) /\ Own(create[s].project, s)
  /\ \A k \in Workers : Own(work[k].old, work[k].session) /\ Own(work[k].new, work[k].session)

\* A creation is at the gate when it has RBAC writes to make, it has a project
\* from the moment its copy was awaited, and so has a row.
Created ==
  \A s \in Sessions :
    /\ gate[s] \in {"waiting", "inside"} <=> create[s].pc \in {"user", "acl"}
    /\ create[s].pc \in {"open", "acl", "commit", "done", "dropProject"} =>
         create[s].project # None
    /\ create[s].copying = "done" => create[s].copy # None
    /\ row[s].status # "none" =>
         row[s].project # None /\ create[s].pc \in {"done", "dropProject", "dropUser", "failed"}

\* A worker has a session whose row was written, and the project it has read.
Loaded ==
  \A k \in Workers :
    IF work[k].pc = "idle"
    THEN work[k].session = None /\ work[k].old = None /\ work[k].new = None
    ELSE /\ work[k].session # None /\ work[k].old # None
         /\ row[work[k].session].status # "none"
         /\ work[k].pc \in {"grant", "commit"} => work[k].new # None

SoundInv == GateInv /\ SessionsTypeOK /\ OwnIds /\ Created /\ Loaded

\* Without failures after a commit, a row is written as its creation ends, and
\* a creation under way has the copy it was given.
Fresh ==
  \A s \in Sessions :
    /\ row[s].status # "none" => create[s].pc = "done"
    /\ create[s].pc \in {"user", "await"} /\ create[s].copying = "done" =>
         project[create[s].copy].state = "up"
    /\ create[s].pc \in {"open", "acl", "commit"} => project[create[s].project].state = "up"

\* The copy of a reset is up, and nobody else knows of it, before its commit.
Unseen ==
  \A k \in Workers : work[k].pc \in {"grant", "commit"} =>
    /\ project[work[k].new].state = "up"
    /\ work[k].new # row[work[k].session].project
    /\ \A j \in Workers : work[j].old # work[k].new /\ (j # k => work[j].new # work[k].new)

\* A reset drops a project that the row has left, and a deletion one whose
\* account is gone.
Spared ==
  \A k \in Workers :
    /\ work[k].pc = "drop" => work[k].old # row[work[k].session].project
    /\ work[k].pc \in {"dropProject", "close"} => work[k].session \notin account

\* The failures that would let an account outlive its project.
AccountPerils == "database" \notin Perils /\ "cleanup" \notin Perils

AccountInv == SoundInv /\ Fresh /\ Unseen /\ Spared /\ AccountHasProject

\* Workers do not overlap: a session that is worked on is active, and its row
\* has the project that was read, or the one a reset has just committed.
OnlyWorker ==
  \A k \in Workers : work[k].pc # "idle" =>
    /\ \A j \in Workers : work[j].session = work[k].session => j = k
    /\ row[work[k].session].status = "active"
    /\ work[k].pc # "drop" => row[work[k].session].project = work[k].old
    /\ work[k].pc = "close" /\ work[k].session \notin logged =>
         project[work[k].old].state # "up"
    /\ work[k].pc \in {"dropProject", "close"} /\ work[k].session \notin logged
       /\ create[work[k].session].user => work[k].session \notin account

\* What the rollback is told of is there before; until then GNS3 has no project
\* of the session but the one copy.
Told ==
  \A s \in Sessions :
    /\ create[s].user =>
         create[s].copying = "done" /\ create[s].pc \notin {"idle", "user", "await"}
    /\ create[s].pc \in {"idle", "user", "await"} =>
         /\ create[s].pc = "idle" => create[s].copying = "no"
         /\ \A x \in Projects : project[x].of = s =>
              create[s].copying \in {"done", "failed"}
              /\ (create[s].copying = "done" => x = create[s].copy)

\* Every account and project of a session that was told of has somebody who
\* will delete it, or belongs to an active row.
Kept(s, x) ==
  \/ row[s].status = "active" /\ x = row[s].project
  \/ create[s].pc \in {"open", "acl", "commit", "dropProject"} /\ x = create[s].project
  \/ \E k \in Workers :
       /\ work[k].session = s
       /\ \/ work[k].pc \in {"grant", "commit"} /\ x = work[k].new
          \/ work[k].pc = "drop" /\ x = work[k].old

Accounted ==
  \A s \in Sessions : s \notin logged /\ create[s].user =>
    /\ s \in account => Creating(s) \/ row[s].status = "active"
    /\ \A x \in Projects : project[x].state = "up" /\ project[x].of = s => Kept(s, x)

\* The failures that the code neither undoes nor logs.
CleanPerils == "reset" \notin Perils /\ "overlap" \notin Perils

CleanInv == SoundInv /\ OnlyWorker /\ Told /\ Accounted
-----------------------------------------------------------------------------
(* The sessions keep to the gate *)

\* A step of the sessions is a step of the gate or leaves it alone.
LEMMA StepOfGate == [Next]_allVars => [GateNext]_gateVars
<1> USE DEF gateVars
<1>1. ASSUME NEW s \in Sessions, Begin(s) \/ CreateStep(s) \/ AtGate(s) PROVE [GateNext]_gateVars
  BY <1>1 DEF Sessions, GateNext, Begin, CreateStep, AtGate, Duplicated, CreateUser, AwaitCopy,
    OpenProject, GrantAccess, Commit, RollBackProject, RollBackUser
<1>2. ASSUME NEW k \in Workers, WorkStep(k) \/ \E s \in Sessions : Reset(k, s) \/ Delete(k, s)
      PROVE [GateNext]_gateVars
  BY <1>2 DEF WorkStep, Reset, Delete, LoadActive, ResetCopy, ResetGrant, ResetCommit, ResetDrop,
    DeleteUser, DeleteProject, Close
<1>3. CASE KeyLapses
  BY <1>3 DEF KeyLapses, GateNext
<1>4. ASSUME NEW r \in Replicas, Crash(r) PROVE [GateNext]_gateVars
  BY <1>4 DEF Crash, GateNext
<1>5. CASE UNCHANGED allVars
  BY <1>5 DEF allVars
<1> QED  BY <1>1, <1>2, <1>3, <1>4, <1>5 DEF Next

\* The sessions use the gate the way it is meant to be used, so that all that is
\* proved of the gate holds of gns3-service.
THEOREM SessionsKeepToTheGate == Spec => GateSpec
<1>1. Init => GateInit
  BY DEF Init
<1> QED  BY <1>1, StepOfGate, PTL DEF Spec, GateSpec

-----------------------------------------------------------------------------
(* Projects, creations and workers, one step on *)

ProjectStates == [Projects -> [state : {"unused", "up", "deleted"}, of : Sessions \cup {None}]]

\* GNS3 makes a project that was not there.
LEMMA ProjectMade ==
  ASSUME SessionsTypeOK, NEW x, NEW s \in Sessions, NewProject(x, s)
  PROVE  /\ x \in Projects /\ project[x].state = "unused"
         /\ project' \in ProjectStates
         /\ project'[x].state = "up" /\ project'[x].of = s
         /\ \A y \in Projects : y # x => project'[y] = project[y]
<1>1. x \in Unused
  BY DEF NewProject
<1> QED  BY <1>1 DEF NewProject, Unused, SessionsTypeOK, ProjectStates

\* A deletion leaves every project what it was, or makes it a deleted one.
LEMMA ProjectDropped ==
  ASSUME SessionsTypeOK, NEW x \in Projects \cup {None}, Dropped(x)
  PROVE  /\ project' \in ProjectStates
         /\ \A y \in Projects :
              /\ y # x => project'[y] = project[y]
              /\ project'[y].of = project[y].of
              /\ project'[y].state = "unused" <=> project[y].state = "unused"
              /\ project'[y].state = "up" <=> project[y].state = "up" /\ y # x
<1>1. project' \in ProjectStates
  <2>1. CASE x \in Projects
    <3> DEFINE c == [project[x] EXCEPT !.state = IF @ = "up" THEN "deleted" ELSE @]
    <3>1. c \in [state : {"unused", "up", "deleted"}, of : Sessions \cup {None}]
      BY <2>1 DEF SessionsTypeOK
    <3>2. project' = [project EXCEPT ![x] = c]
      BY DEF Dropped
    <3> HIDE DEF c
    <3> QED  BY <3>1, <3>2 DEF SessionsTypeOK, ProjectStates
  <2>2. CASE x \notin Projects
    BY <2>2 DEF Dropped, SessionsTypeOK, ProjectStates
  <2> QED  BY <2>1, <2>2
<1>2. \A y \in Projects : y # x => project'[y] = project[y]
  BY DEF Dropped, SessionsTypeOK
<1>3. x \in Projects =>
        /\ project'[x].of = project[x].of
        /\ project'[x].state = IF project[x].state = "up" THEN "deleted" ELSE project[x].state
  BY DEF Dropped, SessionsTypeOK
<1> QED  BY <1>1, <1>2, <1>3

CreateStates == [pc : CreatePcs, copying : {"no", "running", "done", "failed"},
                 copy : Projects \cup {None}, user : BOOLEAN, project : Projects \cup {None}]
WorkStates == [pc : WorkPcs, session : Sessions \cup {None},
               old : Projects \cup {None}, new : Projects \cup {None}]

\* A creation that moves on keeps what it has and knows.
LEMMA CreateMoves ==
  ASSUME SessionsTypeOK, NEW s \in Sessions, NEW pc \in CreatePcs, CreateTo(s, pc)
  PROVE  /\ create' \in [Sessions -> CreateStates] /\ create'[s].pc = pc
         /\ \A t \in Sessions :
              /\ t # s => create'[t] = create[t]
              /\ create'[t].copying = create[t].copying /\ create'[t].copy = create[t].copy
              /\ create'[t].user = create[t].user /\ create'[t].project = create[t].project
BY DEF CreateTo, SessionsTypeOK, CreateStates

\* So does a worker that moves on.
LEMMA WorkMoves ==
  ASSUME SessionsTypeOK, NEW k \in Workers, NEW pc \in WorkPcs, WorkTo(k, pc)
  PROVE  /\ work' \in [Workers -> WorkStates] /\ work'[k].pc = pc
         /\ \A j \in Workers :
              /\ j # k => work'[j] = work[j]
              /\ work'[j].session = work[j].session
              /\ work'[j].old = work[j].old /\ work'[j].new = work[j].new
BY DEF WorkTo, SessionsTypeOK, WorkStates

\* A worker that ends forgets everything.
LEMMA WorkStops ==
  ASSUME SessionsTypeOK, NEW k \in Workers, WorkEnds(k)
  PROVE  /\ work' \in [Workers -> WorkStates] /\ work'[k] = IdleWork /\ work'[k].pc = "idle"
         /\ work'[k].session = None /\ work'[k].old = None /\ work'[k].new = None
         /\ \A j \in Workers : j # k => work'[j] = work[j]
<1>1. IdleWork \in WorkStates
  BY DEF IdleWork, WorkStates, WorkPcs
<1> QED  BY <1>1 DEF WorkEnds, SessionsTypeOK, WorkStates, IdleWork

\* Who stands at the gate, or is in the section behind it.
AtIt(s) == gate[s] \in {"waiting", "inside"}

\* Only Enter and Exit move a creation in or out of a section.
LEMMA GateMoves ==
  ASSUME SessionsTypeOK, NEW s \in Sessions
  PROVE  /\ Enter(s) => gate[s] = "out" /\ \A t \in Sessions : AtIt(t)' <=> AtIt(t) \/ t = s
         /\ Exit(s) => \A t \in Sessions : AtIt(t)' <=> AtIt(t) /\ t # s
         /\ GateStep(s) => \A t \in Sessions : AtIt(t)' <=> AtIt(t)
<1> USE DEF SessionsTypeOK, GateTypeOK, GatePcs, AtIt, Sessions
<1>1. ASSUME Enter(s) PROVE gate[s] = "out" /\ \A t \in Sessions : AtIt(t)' <=> AtIt(t) \/ t = s
  BY <1>1 DEF Enter
<1>2. ASSUME Exit(s) PROVE \A t \in Sessions : AtIt(t)' <=> AtIt(t) /\ t # s
  BY <1>2 DEF Exit, Out
<1>3. ASSUME GateStep(s) PROVE \A t \in Sessions : AtIt(t)' <=> AtIt(t)
  BY <1>3 DEF GateStep, AcquireKey, Admissible, GoWithout, ReadKey, DeleteKey, Out
<1> QED  BY <1>1, <1>2, <1>3

\* The ids that are kept are ids, or None, which is neither a project nor a session.
TypedIds ==
  /\ None \notin Projects /\ None \notin Sessions
  /\ \A s \in Sessions :
       /\ row[s].project \in Projects \cup {None} /\ create[s].copy \in Projects \cup {None}
       /\ create[s].project \in Projects \cup {None}
       /\ create[s].copying \in {"no", "running", "done", "failed"}
       /\ row[s].status \in {"none", "active", "closed"}
  /\ \A k \in Workers :
       /\ work[k].session \in Sessions \cup {None}
       /\ work[k].old \in Projects \cup {None} /\ work[k].new \in Projects \cup {None}

\* They are, in every well-typed state.
LEMMA IdsTyped == SessionsTypeOK => TypedIds
BY SessionsAssumption DEF SessionsTypeOK, TypedIds

-----------------------------------------------------------------------------
(* Each action keeps the three invariants *)

\* A creation that begins has nothing in GNS3 yet.
LEMMA BeginKeeps ==
  ASSUME SoundInv, NEW s \in Sessions, Begin(s), GateInv'
  PROVE  /\ SoundInv'
         /\ AccountPerils /\ AccountInv => AccountInv'
         /\ CleanPerils /\ CleanInv => CleanInv'
<1> USE DEF SoundInv
<1>1. /\ create[s].pc = "idle" /\ create' \in [Sessions -> CreateStates]
      /\ create'[s].pc = "user" /\ create'[s].copying = "running"
      /\ \A t \in Sessions :
           /\ t # s => create'[t] = create[t]
           /\ create'[t].copy = create[t].copy /\ create'[t].user = create[t].user
           /\ create'[t].project = create[t].project
  BY DEF Begin, CreateAt, SessionsTypeOK, CreateStates, CreatePcs
<1>2. \A t \in Sessions : AtIt(t)' <=> AtIt(t) \/ t = s
  BY GateMoves DEF Begin
<1>3. UNCHANGED <<row, account, project, work, logged>>
  BY DEF Begin
<1>4. SessionsTypeOK'
  BY <1>1, <1>2, <1>3 DEF SessionsTypeOK, GateInv, CreateStates, WorkStates, ProjectStates
<1>5. TypedIds /\ TypedIds'
  BY <1>4, IdsTyped, SessionsAssumption DEF SessionsTypeOK, TypedIds
<1>6. OwnIds'
  BY <1>1, <1>2, <1>3, <1>5, SessionsAssumption DEF OwnIds, Own, TypedIds
<1>7. Created'
  BY <1>1, <1>2, <1>3, <1>5 DEF Created, Loaded, AtIt, TypedIds
<1>8. Loaded'
  BY <1>1, <1>2, <1>3, <1>5 DEF Loaded, Created, TypedIds
<1>9. ASSUME AccountPerils, AccountInv PROVE AccountInv'
  <2> USE DEF AccountPerils, AccountInv
  <2>1. Fresh'
    BY <1>9, <1>1, <1>2, <1>3, <1>5 DEF Fresh, Created, Loaded, OwnIds, Own, TypedIds
  <2>2. Unseen'
    BY <1>9, <1>1, <1>2, <1>3, <1>5 DEF Unseen, Fresh, Created, Loaded, OwnIds, Own, TypedIds
  <2>3. Spared'
    BY <1>9, <1>1, <1>2, <1>3, <1>5 DEF Spared, Unseen, Fresh, Created, Loaded, TypedIds
  <2>4. AccountHasProject'
    BY <1>9, <1>1, <1>2, <1>3, <1>5 DEF AccountHasProject, Fresh, Spared, Unseen, OwnIds, Own,
      Created, Loaded, TypedIds
  <2> QED  BY <1>4, <1>6, <1>7, <1>8, <2>1, <2>2, <2>3, <2>4
<1>10. ASSUME CleanPerils, CleanInv PROVE CleanInv'
  <2> USE DEF CleanPerils, CleanInv
  <2>1. OnlyWorker'
    BY <1>10, <1>1, <1>2, <1>3, <1>5 DEF OnlyWorker, OwnIds, Own, Loaded, Created, Told,
      TypedIds
  <2>2. Told'
    BY <1>10, <1>1, <1>2, <1>3, <1>5 DEF Told, Created, Loaded, TypedIds
  <2>3. Accounted'
    BY <1>10, <1>1, <1>2, <1>3, <1>5 DEF Accounted, Kept, Creating, OnlyWorker, Told, Created,
      Loaded, TypedIds
  <2> QED  BY <1>4, <1>6, <1>7, <1>8, <2>1, <2>2, <2>3
<1> QED  BY <1>4, <1>6, <1>7, <1>8, <1>9, <1>10

\* The copy is the first project of a session that is not told of yet, or the
\* second of one whose creation has failed already.
LEMMA DuplicatedKeeps ==
  ASSUME SoundInv, NEW s \in Sessions, Duplicated(s), GateInv'
  PROVE  /\ SoundInv'
         /\ AccountPerils /\ AccountInv => AccountInv'
         /\ CleanPerils /\ CleanInv => CleanInv'
<1> USE DEF SoundInv
<1>1. /\ create[s].copying = "running" /\ create' \in [Sessions -> CreateStates]
      /\ \A t \in Sessions :
           /\ t # s => create'[t] = create[t]
           /\ create'[t].pc = create[t].pc /\ create'[t].user = create[t].user
           /\ create'[t].project = create[t].project
  <2>1. ASSUME NEW x \in Projects,
               create' = [create EXCEPT ![s].copying = "done", ![s].copy = x]
        PROVE  create' \in [Sessions -> CreateStates]
    <3>1. [create[s] EXCEPT !.copying = "done", !.copy = x] \in CreateStates
      BY DEF SessionsTypeOK, CreateStates
    <3> QED  BY <2>1, <3>1 DEF SessionsTypeOK, CreateStates
  <2>2. ASSUME create' = [create EXCEPT ![s].copying = "failed"]
        PROVE  create' \in [Sessions -> CreateStates]
    <3>1. [create[s] EXCEPT !.copying = "failed"] \in CreateStates
      BY DEF SessionsTypeOK, CreateStates
    <3> QED  BY <2>2, <3>1 DEF SessionsTypeOK, CreateStates
  <2>3. create' \in [Sessions -> CreateStates]
    BY <2>1, <2>2 DEF Duplicated
  <2> QED  BY <2>3 DEF Duplicated, SessionsTypeOK, CreateStates
<1>2. project' \in ProjectStates /\ \A x \in Projects :
        \/ project'[x] = project[x]
        \/ project[x].state = "unused" /\ project'[x].state = "up" /\ project'[x].of = s
  BY ProjectMade DEF Duplicated, SessionsTypeOK, ProjectStates
<1>3. \/ /\ create'[s].copying = "done" /\ create'[s].copy \in Projects
         /\ project'[create'[s].copy].state = "up" /\ project'[create'[s].copy].of = s
         /\ \A x \in Projects : x # create'[s].copy => project'[x] = project[x]
      \/ create'[s].copying = "failed" /\ create'[s].copy = create[s].copy
  BY ProjectMade DEF Duplicated, SessionsTypeOK, CreateStates
<1>4. UNCHANGED <<gate, row, account, work, logged>>
  BY DEF Duplicated, gateVars
<1>5. SessionsTypeOK'
  BY <1>1, <1>2, <1>3, <1>4 DEF SessionsTypeOK, GateInv, CreateStates, WorkStates, ProjectStates
<1>6. TypedIds /\ TypedIds'
  BY <1>5, IdsTyped, SessionsAssumption DEF SessionsTypeOK, TypedIds
<1>7. OwnIds'
  BY <1>1, <1>2, <1>3, <1>4, <1>6, SessionsAssumption DEF OwnIds, Own, TypedIds
<1>8. Created'
  BY <1>1, <1>2, <1>3, <1>4, <1>6 DEF Created, Loaded, AtIt, TypedIds
<1>9. Loaded'
  BY <1>1, <1>2, <1>3, <1>4, <1>6 DEF Loaded, Created, TypedIds
<1>10. ASSUME AccountPerils, AccountInv PROVE AccountInv'
  <2> USE DEF AccountPerils, AccountInv
  <2>1. Fresh'
    BY <1>10, <1>1, <1>2, <1>3, <1>4, <1>6 DEF Fresh, Created, Loaded, OwnIds, Own, TypedIds
  <2>2. Unseen'
    BY <1>10, <1>1, <1>2, <1>3, <1>4, <1>6 DEF Unseen, Fresh, Created, Loaded, OwnIds, Own,
      TypedIds
  <2>3. Spared'
    BY <1>10, <1>1, <1>2, <1>3, <1>4, <1>6 DEF Spared, Unseen, Fresh, Created, Loaded, TypedIds
  <2>4. AccountHasProject'
    BY <1>10, <1>1, <1>2, <1>3, <1>4, <1>6 DEF AccountHasProject, Fresh, Spared, Unseen,
      OwnIds, Own, Created, Loaded, TypedIds
  <2> QED  BY <1>5, <1>7, <1>8, <1>9, <2>1, <2>2, <2>3, <2>4
<1>11. ASSUME CleanPerils, CleanInv PROVE CleanInv'
  <2> USE DEF CleanPerils, CleanInv
  <2>1. OnlyWorker'
    BY <1>11, <1>1, <1>2, <1>3, <1>4, <1>6 DEF OnlyWorker, OwnIds, Own, Loaded, Created, Told,
      TypedIds
  <2>2. Told'
    BY <1>11, <1>1, <1>2, <1>3, <1>4, <1>6 DEF Told, Created, Loaded, TypedIds
  <2>3. Accounted'
    BY <1>11, <1>1, <1>2, <1>3, <1>4, <1>6 DEF Accounted, Kept, Creating, OnlyWorker, Told,
      Created, Loaded, TypedIds
  <2> QED  BY <1>5, <1>7, <1>8, <1>9, <2>1, <2>2, <2>3
<1> QED  BY <1>5, <1>7, <1>8, <1>9, <1>10, <1>11

\* Whether the account is made or not, the rollback is not told of it yet.
LEMMA CreateUserKeeps ==
  ASSUME SoundInv, NEW s \in Sessions, CreateUser(s), GateInv'
  PROVE  /\ SoundInv'
         /\ AccountPerils /\ AccountInv => AccountInv'
         /\ CleanPerils /\ CleanInv => CleanInv'
<1> USE DEF SoundInv
<1>1. /\ create[s].pc = "user" /\ create' \in [Sessions -> CreateStates]
      /\ create'[s].pc \in {"await", "failed"}
      /\ \A t \in Sessions :
           /\ t # s => create'[t].pc = create[t].pc
           /\ create'[t].copying = create[t].copying /\ create'[t].copy = create[t].copy
           /\ create'[t].user = create[t].user /\ create'[t].project = create[t].project
  BY CreateMoves DEF CreateUser, CreateAt, CreatePcs
<1>2. account' \subseteq Sessions /\ \A t \in Sessions : t # s => (t \in account' <=> t \in account)
  BY DEF CreateUser, SessionsTypeOK
<1>3. \A t \in Sessions : AtIt(t)' <=> AtIt(t) /\ t # s
  BY GateMoves DEF CreateUser
<1>4. UNCHANGED <<row, project, work, logged>>
  BY DEF CreateUser
<1>5. SessionsTypeOK'
  BY <1>1, <1>2, <1>3, <1>4 DEF SessionsTypeOK, GateInv, CreateStates, WorkStates, ProjectStates
<1>6. TypedIds /\ TypedIds'
  BY <1>5, IdsTyped, SessionsAssumption DEF SessionsTypeOK, TypedIds
<1>7. OwnIds'
  BY <1>1, <1>2, <1>3, <1>4, <1>6, SessionsAssumption DEF OwnIds, Own, TypedIds
<1>8. Created'
  BY <1>1, <1>2, <1>3, <1>4, <1>6 DEF Created, Loaded, AtIt, TypedIds
<1>9. Loaded'
  BY <1>1, <1>2, <1>3, <1>4, <1>6 DEF Loaded, Created, TypedIds
<1>10. ASSUME AccountPerils, AccountInv PROVE AccountInv'
  <2> USE DEF AccountPerils, AccountInv
  <2>1. Fresh'
    BY <1>10, <1>1, <1>2, <1>3, <1>4, <1>6 DEF Fresh, Created, Loaded, OwnIds, Own, TypedIds
  <2>2. Unseen'
    BY <1>10, <1>1, <1>2, <1>3, <1>4, <1>6 DEF Unseen, Fresh, Created, Loaded, OwnIds, Own,
      TypedIds
  <2>3. Spared'
    BY <1>10, <1>1, <1>2, <1>3, <1>4, <1>6 DEF Spared, Unseen, Fresh, Created, Loaded, TypedIds
  <2>4. AccountHasProject'
    BY <1>10, <1>1, <1>2, <1>3, <1>4, <1>6 DEF AccountHasProject, Fresh, Spared, Unseen,
      OwnIds, Own, Created, Loaded, TypedIds
  <2> QED  BY <1>5, <1>7, <1>8, <1>9, <2>1, <2>2, <2>3, <2>4
<1>11. ASSUME CleanPerils, CleanInv PROVE CleanInv'
  <2> USE DEF CleanPerils, CleanInv
  <2>1. OnlyWorker'
    BY <1>11, <1>1, <1>2, <1>3, <1>4, <1>6 DEF OnlyWorker, OwnIds, Own, Loaded, Created, Told,
      TypedIds
  <2>2. Told'
    BY <1>11, <1>1, <1>2, <1>3, <1>4, <1>6 DEF Told, Created, Loaded, TypedIds
  <2>3. Accounted'
    BY <1>11, <1>1, <1>2, <1>3, <1>4, <1>6 DEF Accounted, Kept, Creating, OnlyWorker, Told,
      Created, Loaded, TypedIds
  <2> QED  BY <1>5, <1>7, <1>8, <1>9, <2>1, <2>2, <2>3
<1> QED  BY <1>5, <1>7, <1>8, <1>9, <1>10, <1>11

\* The rollback is told of the account and of the copy together.
LEMMA AwaitCopyKeeps ==
  ASSUME SoundInv, NEW s \in Sessions, AwaitCopy(s), GateInv'
  PROVE  /\ SoundInv'
         /\ AccountPerils /\ AccountInv => AccountInv'
         /\ CleanPerils /\ CleanInv => CleanInv'
<1> USE DEF SoundInv
<1>1. /\ create[s].pc = "await" /\ create' \in [Sessions -> CreateStates]
      /\ \/ /\ create[s].copying = "done" /\ create'[s].pc = "open" /\ create'[s].user = TRUE
            /\ create'[s].project = create[s].copy
         \/ /\ create'[s].pc = "failed" /\ create'[s].user = create[s].user
            /\ create'[s].project = create[s].project
      /\ \A t \in Sessions :
           /\ t # s => create'[t] = create[t]
           /\ create'[t].copying = create[t].copying /\ create'[t].copy = create[t].copy
  <2>1. CASE /\ create[s].copying = "done"
             /\ create' = [create EXCEPT ![s].pc = "open", ![s].user = TRUE,
                                         ![s].project = create[s].copy]
    <3>1. [create[s] EXCEPT !.pc = "open", !.user = TRUE, !.project = create[s].copy]
             \in CreateStates
      BY DEF SessionsTypeOK, CreateStates, CreatePcs
    <3> QED  BY <2>1, <3>1 DEF AwaitCopy, CreateAt, SessionsTypeOK, CreateStates
  <2>2. CASE CreateTo(s, "failed")
    BY <2>2, CreateMoves DEF AwaitCopy, CreateAt, CreatePcs
  <2> QED  BY <2>1, <2>2 DEF AwaitCopy
<1>2. UNCHANGED <<gate, row, account, project, work, logged>>
  BY DEF AwaitCopy, gateVars
<1>3. SessionsTypeOK'
  BY <1>1, <1>2 DEF SessionsTypeOK, GateInv, CreateStates, WorkStates, ProjectStates
<1>4. TypedIds /\ TypedIds'
  BY <1>3, IdsTyped, SessionsAssumption DEF SessionsTypeOK, TypedIds
<1>5. OwnIds'
  BY <1>1, <1>2, <1>4, SessionsAssumption DEF OwnIds, Own, TypedIds
<1>6. Created'
  BY <1>1, <1>2, <1>4 DEF Created, Loaded, AtIt, TypedIds
<1>7. Loaded'
  BY <1>1, <1>2, <1>4 DEF Loaded, Created, TypedIds
<1>8. ASSUME AccountPerils, AccountInv PROVE AccountInv'
  <2> USE DEF AccountPerils, AccountInv
  <2>1. Fresh'
    BY <1>8, <1>1, <1>2, <1>4 DEF Fresh, Created, Loaded, OwnIds, Own, TypedIds
  <2>2. Unseen'
    BY <1>8, <1>1, <1>2, <1>4 DEF Unseen, Fresh, Created, Loaded, OwnIds, Own, TypedIds
  <2>3. Spared'
    BY <1>8, <1>1, <1>2, <1>4 DEF Spared, Unseen, Fresh, Created, Loaded, TypedIds
  <2>4. AccountHasProject'
    BY <1>8, <1>1, <1>2, <1>4 DEF AccountHasProject, Fresh, Spared, Unseen, OwnIds, Own,
      Created, Loaded, TypedIds
  <2> QED  BY <1>3, <1>5, <1>6, <1>7, <2>1, <2>2, <2>3, <2>4
<1>9. ASSUME CleanPerils, CleanInv PROVE CleanInv'
  <2> USE DEF CleanPerils, CleanInv
  <2>1. OnlyWorker'
    BY <1>9, <1>1, <1>2, <1>4 DEF OnlyWorker, OwnIds, Own, Loaded, Created, Told, TypedIds
  <2>2. Told'
    BY <1>9, <1>1, <1>2, <1>4 DEF Told, Created, Loaded, TypedIds
  <2>3. Accounted'
    BY <1>9, <1>1, <1>2, <1>4 DEF Accounted, Kept, Creating, OnlyWorker, Told, Created,
      Loaded, TypedIds
  <2> QED  BY <1>3, <1>5, <1>6, <1>7, <2>1, <2>2, <2>3
<1> QED  BY <1>3, <1>5, <1>6, <1>7, <1>8, <1>9

\* From here on a failure is rolled back.
LEMMA OpenProjectKeeps ==
  ASSUME SoundInv, NEW s \in Sessions, OpenProject(s), GateInv'
  PROVE  /\ SoundInv'
         /\ AccountPerils /\ AccountInv => AccountInv'
         /\ CleanPerils /\ CleanInv => CleanInv'
<1> USE DEF SoundInv
<1>1. /\ create[s].pc = "open" /\ create' \in [Sessions -> CreateStates]
      /\ create'[s].pc \in {"acl", "dropProject"}
      /\ \A t \in Sessions :
           /\ t # s => create'[t].pc = create[t].pc
           /\ create'[t].copying = create[t].copying /\ create'[t].copy = create[t].copy
           /\ create'[t].user = create[t].user /\ create'[t].project = create[t].project
  BY CreateMoves DEF OpenProject, CreateAt, CreatePcs
<1>2. \A t \in Sessions : AtIt(t)' <=> AtIt(t) \/ (t = s /\ create'[s].pc = "acl")
  BY GateMoves, CreateMoves DEF OpenProject, CreatePcs, AtIt, gateVars
<1>3. UNCHANGED <<row, account, project, work, logged>>
  BY DEF OpenProject
<1>4. SessionsTypeOK'
  BY <1>1, <1>2, <1>3 DEF SessionsTypeOK, GateInv, CreateStates, WorkStates, ProjectStates
<1>5. TypedIds /\ TypedIds'
  BY <1>4, IdsTyped, SessionsAssumption DEF SessionsTypeOK, TypedIds
<1>6. OwnIds'
  BY <1>1, <1>2, <1>3, <1>5, SessionsAssumption DEF OwnIds, Own, TypedIds
<1>7. Created'
  BY <1>1, <1>2, <1>3, <1>5 DEF Created, Loaded, AtIt, TypedIds
<1>8. Loaded'
  BY <1>1, <1>2, <1>3, <1>5 DEF Loaded, Created, TypedIds
<1>9. ASSUME AccountPerils, AccountInv PROVE AccountInv'
  <2> USE DEF AccountPerils, AccountInv
  <2>1. Fresh'
    BY <1>9, <1>1, <1>2, <1>3, <1>5 DEF Fresh, Created, Loaded, OwnIds, Own, TypedIds
  <2>2. Unseen'
    BY <1>9, <1>1, <1>2, <1>3, <1>5 DEF Unseen, Fresh, Created, Loaded, OwnIds, Own, TypedIds
  <2>3. Spared'
    BY <1>9, <1>1, <1>2, <1>3, <1>5 DEF Spared, Unseen, Fresh, Created, Loaded, TypedIds
  <2>4. AccountHasProject'
    BY <1>9, <1>1, <1>2, <1>3, <1>5 DEF AccountHasProject, Fresh, Spared, Unseen, OwnIds, Own,
      Created, Loaded, TypedIds
  <2> QED  BY <1>4, <1>6, <1>7, <1>8, <2>1, <2>2, <2>3, <2>4
<1>10. ASSUME CleanPerils, CleanInv PROVE CleanInv'
  <2> USE DEF CleanPerils, CleanInv
  <2>1. OnlyWorker'
    BY <1>10, <1>1, <1>2, <1>3, <1>5 DEF OnlyWorker, OwnIds, Own, Loaded, Created, Told,
      TypedIds
  <2>2. Told'
    BY <1>10, <1>1, <1>2, <1>3, <1>5 DEF Told, Created, Loaded, TypedIds
  <2>3. Accounted'
    BY <1>10, <1>1, <1>2, <1>3, <1>5 DEF Accounted, Kept, Creating, OnlyWorker, Told, Created,
      Loaded, TypedIds
  <2> QED  BY <1>4, <1>6, <1>7, <1>8, <2>1, <2>2, <2>3
<1> QED  BY <1>4, <1>6, <1>7, <1>8, <1>9, <1>10

\* The ACLs are written and the gate is left.
LEMMA GrantAccessKeeps ==
  ASSUME SoundInv, NEW s \in Sessions, GrantAccess(s), GateInv'
  PROVE  /\ SoundInv'
         /\ AccountPerils /\ AccountInv => AccountInv'
         /\ CleanPerils /\ CleanInv => CleanInv'
<1> USE DEF SoundInv
<1>1. /\ create[s].pc = "acl" /\ create' \in [Sessions -> CreateStates]
      /\ create'[s].pc \in {"commit", "dropProject"}
      /\ \A t \in Sessions :
           /\ t # s => create'[t].pc = create[t].pc
           /\ create'[t].copying = create[t].copying /\ create'[t].copy = create[t].copy
           /\ create'[t].user = create[t].user /\ create'[t].project = create[t].project
  BY CreateMoves DEF GrantAccess, CreateAt, CreatePcs
<1>2. \A t \in Sessions : AtIt(t)' <=> AtIt(t) /\ t # s
  BY GateMoves DEF GrantAccess
<1>3. UNCHANGED <<row, account, project, work, logged>>
  BY DEF GrantAccess
<1>4. SessionsTypeOK'
  BY <1>1, <1>2, <1>3 DEF SessionsTypeOK, GateInv, CreateStates, WorkStates, ProjectStates
<1>5. TypedIds /\ TypedIds'
  BY <1>4, IdsTyped, SessionsAssumption DEF SessionsTypeOK, TypedIds
<1>6. OwnIds'
  BY <1>1, <1>2, <1>3, <1>5, SessionsAssumption DEF OwnIds, Own, TypedIds
<1>7. Created'
  BY <1>1, <1>2, <1>3, <1>5 DEF Created, Loaded, AtIt, TypedIds
<1>8. Loaded'
  BY <1>1, <1>2, <1>3, <1>5 DEF Loaded, Created, TypedIds
<1>9. ASSUME AccountPerils, AccountInv PROVE AccountInv'
  <2> USE DEF AccountPerils, AccountInv
  <2>1. Fresh'
    BY <1>9, <1>1, <1>2, <1>3, <1>5 DEF Fresh, Created, Loaded, OwnIds, Own, TypedIds
  <2>2. Unseen'
    BY <1>9, <1>1, <1>2, <1>3, <1>5 DEF Unseen, Fresh, Created, Loaded, OwnIds, Own, TypedIds
  <2>3. Spared'
    BY <1>9, <1>1, <1>2, <1>3, <1>5 DEF Spared, Unseen, Fresh, Created, Loaded, TypedIds
  <2>4. AccountHasProject'
    BY <1>9, <1>1, <1>2, <1>3, <1>5 DEF AccountHasProject, Fresh, Spared, Unseen, OwnIds, Own,
      Created, Loaded, TypedIds
  <2> QED  BY <1>4, <1>6, <1>7, <1>8, <2>1, <2>2, <2>3, <2>4
<1>10. ASSUME CleanPerils, CleanInv PROVE CleanInv'
  <2> USE DEF CleanPerils, CleanInv
  <2>1. OnlyWorker'
    BY <1>10, <1>1, <1>2, <1>3, <1>5 DEF OnlyWorker, OwnIds, Own, Loaded, Created, Told,
      TypedIds
  <2>2. Told'
    BY <1>10, <1>1, <1>2, <1>3, <1>5 DEF Told, Created, Loaded, TypedIds
  <2>3. Accounted'
    BY <1>10, <1>1, <1>2, <1>3, <1>5 DEF Accounted, Kept, Creating, OnlyWorker, Told, Created,
      Loaded, TypedIds
  <2> QED  BY <1>4, <1>6, <1>7, <1>8, <2>1, <2>2, <2>3
<1> QED  BY <1>4, <1>6, <1>7, <1>8, <1>9, <1>10

\* The row is written, and what fails after that is rolled back beside it.
LEMMA CommitKeeps ==
  ASSUME SoundInv, NEW s \in Sessions, Commit(s), GateInv'
  PROVE  /\ SoundInv'
         /\ AccountPerils /\ AccountInv => AccountInv'
         /\ CleanPerils /\ CleanInv => CleanInv'
<1> USE DEF SoundInv
<1>1. /\ create[s].pc = "commit" /\ create' \in [Sessions -> CreateStates]
      /\ create'[s].pc \in {"done", "dropProject"}
      /\ \A t \in Sessions :
           /\ t # s => create'[t].pc = create[t].pc
           /\ create'[t].copying = create[t].copying /\ create'[t].copy = create[t].copy
           /\ create'[t].user = create[t].user /\ create'[t].project = create[t].project
  BY CreateMoves DEF Commit, CreateAt, CreatePcs
<1>2. \A t \in Sessions : t # s => row'[t] = row[t]
  BY DEF Commit, SessionsTypeOK
<1>3. \/ row'[s].status = "active" /\ row'[s].project = create[s].project
        /\ (create'[s].pc = "done" \/ "database" \in Perils)
      \/ row' = row /\ create'[s].pc = "dropProject"
  BY CreateMoves DEF Commit, CreatePcs, SessionsTypeOK
<1>4. row' \in [Sessions -> [status : {"none", "active", "closed"}, project : Projects \cup {None}]]
  BY DEF Commit, SessionsTypeOK
<1>5. UNCHANGED <<gate, account, project, work, logged>>
  BY DEF Commit, gateVars
<1>6. SessionsTypeOK'
  BY <1>1, <1>2, <1>3, <1>4, <1>5 DEF SessionsTypeOK, GateInv, CreateStates, WorkStates,
    ProjectStates
<1>7. TypedIds /\ TypedIds'
  BY <1>6, IdsTyped, SessionsAssumption DEF SessionsTypeOK, TypedIds
<1>8. OwnIds'
  BY <1>1, <1>2, <1>3, <1>4, <1>5, <1>7, SessionsAssumption DEF OwnIds, Own, TypedIds
<1>9. Created'
  BY <1>1, <1>2, <1>3, <1>4, <1>5, <1>7 DEF Created, Loaded, AtIt, TypedIds
<1>10. Loaded'
  BY <1>1, <1>2, <1>3, <1>4, <1>5, <1>7 DEF Loaded, Created, TypedIds
<1>11. ASSUME AccountPerils, AccountInv PROVE AccountInv'
  <2> USE DEF AccountPerils, AccountInv
  <2>1. Fresh'
    BY <1>11, <1>1, <1>2, <1>3, <1>4, <1>5, <1>7 DEF Fresh, Created, Loaded, OwnIds, Own,
      TypedIds
  <2>2. Unseen'
    BY <1>11, <1>1, <1>2, <1>3, <1>4, <1>5, <1>7 DEF Unseen, Fresh, Created, Loaded, OwnIds,
      Own, TypedIds
  <2>3. Spared'
    BY <1>11, <1>1, <1>2, <1>3, <1>4, <1>5, <1>7 DEF Spared, Unseen, Fresh, Created, Loaded,
      TypedIds
  <2>4. AccountHasProject'
    BY <1>11, <1>1, <1>2, <1>3, <1>4, <1>5, <1>7 DEF AccountHasProject, Fresh, Spared, Unseen,
      OwnIds, Own, Created, Loaded, TypedIds
  <2> QED  BY <1>6, <1>8, <1>9, <1>10, <2>1, <2>2, <2>3, <2>4
<1>12. ASSUME CleanPerils, CleanInv PROVE CleanInv'
  <2> USE DEF CleanPerils, CleanInv
  <2>1. OnlyWorker'
    BY <1>12, <1>1, <1>2, <1>3, <1>4, <1>5, <1>7 DEF OnlyWorker, OwnIds, Own, Loaded, Created,
      Told, TypedIds
  <2>2. Told'
    BY <1>12, <1>1, <1>2, <1>3, <1>4, <1>5, <1>7 DEF Told, Created, Loaded, TypedIds
  <2>3. Accounted'
    BY <1>12, <1>1, <1>2, <1>3, <1>4, <1>5, <1>7 DEF Accounted, Kept, Creating, OnlyWorker,
      Told, Created, Loaded, TypedIds
  <2> QED  BY <1>6, <1>8, <1>9, <1>10, <2>1, <2>2, <2>3
<1> QED  BY <1>6, <1>8, <1>9, <1>10, <1>11, <1>12

\* The project is deleted before the account, or the log has the session.
LEMMA RollBackProjectKeeps ==
  ASSUME SoundInv, NEW s \in Sessions, RollBackProject(s), GateInv'
  PROVE  /\ SoundInv'
         /\ AccountPerils /\ AccountInv => AccountInv'
         /\ CleanPerils /\ CleanInv => CleanInv'
<1> USE DEF SoundInv
<1>1. /\ create[s].pc = "dropProject" /\ create' \in [Sessions -> CreateStates]
      /\ create'[s].pc = "dropUser"
      /\ \A t \in Sessions :
           /\ t # s => create'[t].pc = create[t].pc
           /\ create'[t].copying = create[t].copying /\ create'[t].copy = create[t].copy
           /\ create'[t].user = create[t].user /\ create'[t].project = create[t].project
  BY CreateMoves DEF RollBackProject, CreateAt, CreatePcs
<1>2. \/ Dropped(create[s].project) /\ logged' = logged
      \/ "cleanup" \in Perils /\ project' = project /\ logged' = logged \cup {s}
  BY DEF RollBackProject, UndoProject, DropProject, Attempted
<1>3. create[s].project \in Projects \cup {None}
  BY DEF SessionsTypeOK
<1>4. UNCHANGED <<gate, row, account, work>>
  BY DEF RollBackProject, gateVars
<1>5. /\ project' \in ProjectStates
      /\ \A x \in Projects :
           /\ project'[x].of = project[x].of
           /\ project'[x].state = "unused" <=> project[x].state = "unused"
           /\ project'[x].state = "up" => project[x].state = "up"
           /\ x # create[s].project => project'[x] = project[x]
           /\ s \notin logged' => project'[x].state # "up" \/ x # create[s].project
      /\ \/ logged' = logged
         \/ "cleanup" \in Perils /\ logged' = logged \cup {s}
  <2>1. CASE Dropped(create[s].project) /\ logged' = logged
    BY <1>3, <2>1, ProjectDropped
  <2>2. CASE project' = project /\ "cleanup" \in Perils /\ logged' = logged \cup {s}
    BY <2>2 DEF SessionsTypeOK, ProjectStates
  <2> QED  BY <1>1, <1>2, <1>3, <1>4, <2>1, <2>2
<1>6. SessionsTypeOK'
  BY <1>1, <1>2, <1>3, <1>4, <1>5 DEF SessionsTypeOK, GateInv, CreateStates, WorkStates,
    ProjectStates
<1>7. TypedIds /\ TypedIds'
  BY <1>6, IdsTyped, SessionsAssumption DEF SessionsTypeOK, TypedIds
<1>8. OwnIds'
  BY <1>1, <1>2, <1>3, <1>4, <1>5, <1>7, SessionsAssumption DEF OwnIds, Own, TypedIds
<1>9. Created'
  BY <1>1, <1>2, <1>3, <1>4, <1>5, <1>7 DEF Created, Loaded, AtIt, TypedIds
<1>10. Loaded'
  BY <1>1, <1>2, <1>3, <1>4, <1>5, <1>7 DEF Loaded, Created, TypedIds
<1>11. ASSUME AccountPerils, AccountInv PROVE AccountInv'
  <2> USE DEF AccountPerils, AccountInv
  <2>1. Fresh'
    BY <1>11, <1>1, <1>2, <1>3, <1>4, <1>5, <1>7 DEF Fresh, Created, Loaded, OwnIds, Own,
      TypedIds
  <2>2. Unseen'
    BY <1>11, <1>1, <1>2, <1>3, <1>4, <1>5, <1>7 DEF Unseen, Fresh, Created, Loaded, OwnIds,
      Own, TypedIds
  <2>3. Spared'
    BY <1>11, <1>1, <1>2, <1>3, <1>4, <1>5, <1>7 DEF Spared, Unseen, Fresh, Created, Loaded,
      TypedIds
  <2>4. AccountHasProject'
    BY <1>11, <1>1, <1>2, <1>3, <1>4, <1>5, <1>7 DEF AccountHasProject, Fresh, Spared, Unseen,
      OwnIds, Own, Created, Loaded, TypedIds
  <2> QED  BY <1>6, <1>8, <1>9, <1>10, <2>1, <2>2, <2>3, <2>4
<1>12. ASSUME CleanPerils, CleanInv PROVE CleanInv'
  <2> USE DEF CleanPerils, CleanInv
  <2>1. OnlyWorker'
    BY <1>12, <1>1, <1>2, <1>3, <1>4, <1>5, <1>7 DEF OnlyWorker, OwnIds, Own, Loaded, Created,
      Told, TypedIds
  <2>2. Told'
    BY <1>12, <1>1, <1>2, <1>3, <1>4, <1>5, <1>7 DEF Told, Created, Loaded, TypedIds
  <2>3. Accounted'
    BY <1>12, <1>1, <1>2, <1>3, <1>4, <1>5, <1>7 DEF Accounted, Kept, Creating, OnlyWorker,
      Told, Created, Loaded, TypedIds
  <2> QED  BY <1>6, <1>8, <1>9, <1>10, <2>1, <2>2, <2>3
<1> QED  BY <1>6, <1>8, <1>9, <1>10, <1>11, <1>12

\* The account goes last.
LEMMA RollBackUserKeeps ==
  ASSUME SoundInv, NEW s \in Sessions, RollBackUser(s), GateInv'
  PROVE  /\ SoundInv'
         /\ AccountPerils /\ AccountInv => AccountInv'
         /\ CleanPerils /\ CleanInv => CleanInv'
<1> USE DEF SoundInv
<1>1. /\ create[s].pc = "dropUser" /\ create' \in [Sessions -> CreateStates]
      /\ create'[s].pc = "failed"
      /\ \A t \in Sessions :
           /\ t # s => create'[t].pc = create[t].pc
           /\ create'[t].copying = create[t].copying /\ create'[t].copy = create[t].copy
           /\ create'[t].user = create[t].user /\ create'[t].project = create[t].project
  BY CreateMoves DEF RollBackUser, CreateAt, CreatePcs
<1>2. \/ account' = account \ {s} /\ logged' = logged
      \/ "cleanup" \in Perils /\ account' = account /\ logged' = logged \cup {s}
  BY DEF RollBackUser, DropAccount, Attempted
<1>3. UNCHANGED <<gate, row, project, work>>
  BY DEF RollBackUser, gateVars
<1>4. SessionsTypeOK'
  BY <1>1, <1>2, <1>3 DEF SessionsTypeOK, GateInv, CreateStates, WorkStates, ProjectStates
<1>5. TypedIds /\ TypedIds'
  BY <1>4, IdsTyped, SessionsAssumption DEF SessionsTypeOK, TypedIds
<1>6. OwnIds'
  BY <1>1, <1>2, <1>3, <1>5, SessionsAssumption DEF OwnIds, Own, TypedIds
<1>7. Created'
  BY <1>1, <1>2, <1>3, <1>5 DEF Created, Loaded, AtIt, TypedIds
<1>8. Loaded'
  BY <1>1, <1>2, <1>3, <1>5 DEF Loaded, Created, TypedIds
<1>9. ASSUME AccountPerils, AccountInv PROVE AccountInv'
  <2> USE DEF AccountPerils, AccountInv
  <2>1. Fresh'
    BY <1>9, <1>1, <1>2, <1>3, <1>5 DEF Fresh, Created, Loaded, OwnIds, Own, TypedIds
  <2>2. Unseen'
    BY <1>9, <1>1, <1>2, <1>3, <1>5 DEF Unseen, Fresh, Created, Loaded, OwnIds, Own, TypedIds
  <2>3. Spared'
    BY <1>9, <1>1, <1>2, <1>3, <1>5 DEF Spared, Unseen, Fresh, Created, Loaded, TypedIds
  <2>4. AccountHasProject'
    BY <1>9, <1>1, <1>2, <1>3, <1>5 DEF AccountHasProject, Fresh, Spared, Unseen, OwnIds, Own,
      Created, Loaded, TypedIds
  <2> QED  BY <1>4, <1>6, <1>7, <1>8, <2>1, <2>2, <2>3, <2>4
<1>10. ASSUME CleanPerils, CleanInv PROVE CleanInv'
  <2> USE DEF CleanPerils, CleanInv
  <2>1. OnlyWorker'
    BY <1>10, <1>1, <1>2, <1>3, <1>5 DEF OnlyWorker, OwnIds, Own, Loaded, Created, Told,
      TypedIds
  <2>2. Told'
    BY <1>10, <1>1, <1>2, <1>3, <1>5 DEF Told, Created, Loaded, TypedIds
  <2>3. Accounted'
    BY <1>10, <1>1, <1>2, <1>3, <1>5 DEF Accounted, Kept, Creating, OnlyWorker, Told, Created,
      Loaded, TypedIds
  <2> QED  BY <1>4, <1>6, <1>7, <1>8, <2>1, <2>2, <2>3
<1> QED  BY <1>4, <1>6, <1>7, <1>8, <1>9, <1>10

\* The gate moves nobody in or out of the two sections of a creation.
LEMMA AtGateKeeps ==
  ASSUME SoundInv, NEW s \in Sessions, AtGate(s), GateInv'
  PROVE  /\ SoundInv'
         /\ AccountPerils /\ AccountInv => AccountInv'
         /\ CleanPerils /\ CleanInv => CleanInv'
<1> USE DEF SoundInv
<1>1. \A t \in Sessions : AtIt(t)' <=> AtIt(t)
  BY GateMoves DEF AtGate
<1>2. UNCHANGED <<row, account, project, create, work, logged>>
  BY DEF AtGate, sessionVars
<1>3. SessionsTypeOK'
  BY <1>1, <1>2 DEF SessionsTypeOK, GateInv, CreateStates, WorkStates, ProjectStates
<1>4. TypedIds /\ TypedIds'
  BY <1>3, IdsTyped, SessionsAssumption DEF SessionsTypeOK, TypedIds
<1>5. OwnIds'
  BY <1>1, <1>2, <1>4, SessionsAssumption DEF OwnIds, Own, TypedIds
<1>6. Created'
  BY <1>1, <1>2, <1>4 DEF Created, Loaded, AtIt, TypedIds
<1>7. Loaded'
  BY <1>1, <1>2, <1>4 DEF Loaded, Created, TypedIds
<1>8. ASSUME AccountPerils, AccountInv PROVE AccountInv'
  <2> USE DEF AccountPerils, AccountInv
  <2>1. Fresh'
    BY <1>8, <1>1, <1>2, <1>4 DEF Fresh, Created, Loaded, OwnIds, Own, TypedIds
  <2>2. Unseen'
    BY <1>8, <1>1, <1>2, <1>4 DEF Unseen, Fresh, Created, Loaded, OwnIds, Own, TypedIds
  <2>3. Spared'
    BY <1>8, <1>1, <1>2, <1>4 DEF Spared, Unseen, Fresh, Created, Loaded, TypedIds
  <2>4. AccountHasProject'
    BY <1>8, <1>1, <1>2, <1>4 DEF AccountHasProject, Fresh, Spared, Unseen, OwnIds, Own,
      Created, Loaded, TypedIds
  <2> QED  BY <1>3, <1>5, <1>6, <1>7, <2>1, <2>2, <2>3, <2>4
<1>9. ASSUME CleanPerils, CleanInv PROVE CleanInv'
  <2> USE DEF CleanPerils, CleanInv
  <2>1. OnlyWorker'
    BY <1>9, <1>1, <1>2, <1>4 DEF OnlyWorker, OwnIds, Own, Loaded, Created, Told, TypedIds
  <2>2. Told'
    BY <1>9, <1>1, <1>2, <1>4 DEF Told, Created, Loaded, TypedIds
  <2>3. Accounted'
    BY <1>9, <1>1, <1>2, <1>4 DEF Accounted, Kept, Creating, OnlyWorker, Told, Created,
      Loaded, TypedIds
  <2> QED  BY <1>3, <1>5, <1>6, <1>7, <2>1, <2>2, <2>3
<1> QED  BY <1>3, <1>5, <1>6, <1>7, <1>8, <1>9

\* Nor does the time to live of the key.
LEMMA KeyLapsesKeeps ==
  ASSUME SoundInv, KeyLapses, GateInv'
  PROVE  /\ SoundInv'
         /\ AccountPerils /\ AccountInv => AccountInv'
         /\ CleanPerils /\ CleanInv => CleanInv'
<1> USE DEF SoundInv
<1>1. UNCHANGED <<gate, row, account, project, create, work, logged>>
  BY DEF KeyLapses, KeyExpires, sessionVars
<1>2. SessionsTypeOK'
  BY <1>1 DEF SessionsTypeOK, GateInv, CreateStates, WorkStates, ProjectStates
<1>3. TypedIds /\ TypedIds'
  BY <1>2, IdsTyped, SessionsAssumption DEF SessionsTypeOK, TypedIds
<1>4. OwnIds'
  BY <1>1, <1>3, SessionsAssumption DEF OwnIds, Own, TypedIds
<1>5. Created'
  BY <1>1, <1>3 DEF Created, Loaded, AtIt, TypedIds
<1>6. Loaded'
  BY <1>1, <1>3 DEF Loaded, Created, TypedIds
<1>7. ASSUME AccountPerils, AccountInv PROVE AccountInv'
  <2> USE DEF AccountPerils, AccountInv
  <2>1. Fresh'
    BY <1>7, <1>1, <1>3 DEF Fresh, Created, Loaded, OwnIds, Own, TypedIds
  <2>2. Unseen'
    BY <1>7, <1>1, <1>3 DEF Unseen, Fresh, Created, Loaded, OwnIds, Own, TypedIds
  <2>3. Spared'
    BY <1>7, <1>1, <1>3 DEF Spared, Unseen, Fresh, Created, Loaded, TypedIds
  <2>4. AccountHasProject'
    BY <1>7, <1>1, <1>3 DEF AccountHasProject, Fresh, Spared, Unseen, OwnIds, Own, Created,
      Loaded, TypedIds
  <2> QED  BY <1>2, <1>4, <1>5, <1>6, <2>1, <2>2, <2>3, <2>4
<1>8. ASSUME CleanPerils, CleanInv PROVE CleanInv'
  <2> USE DEF CleanPerils, CleanInv
  <2>1. OnlyWorker'
    BY <1>8, <1>1, <1>3 DEF OnlyWorker, OwnIds, Own, Loaded, Created, Told, TypedIds
  <2>2. Told'
    BY <1>8, <1>1, <1>3 DEF Told, Created, Loaded, TypedIds
  <2>3. Accounted'
    BY <1>8, <1>1, <1>3 DEF Accounted, Kept, Creating, OnlyWorker, Told, Created, Loaded,
      TypedIds
  <2> QED  BY <1>2, <1>4, <1>5, <1>6, <2>1, <2>2, <2>3
<1> QED  BY <1>2, <1>4, <1>5, <1>6, <1>7, <1>8

\* A worker reads the project of an active row.
LEMMA LoadActiveKeeps ==
  ASSUME SoundInv, NEW k \in Workers, NEW s \in Sessions,
         NEW pc \in {"copy", "dropUser"}, LoadActive(k, s, pc), GateInv'
  PROVE  /\ SoundInv'
         /\ AccountPerils /\ AccountInv => AccountInv'
         /\ CleanPerils /\ CleanInv => CleanInv'
<1> USE DEF SoundInv
<1>1. /\ work[k].pc = "idle" /\ row[s].status = "active"
      /\ "overlap" \in Perils \/ \A j \in Workers : work[j].session # s
  BY DEF LoadActive, WorkAt, Working
<1>2. /\ work' \in [Workers -> WorkStates]
      /\ \A j \in Workers : j # k => work'[j] = work[j]
      /\ work'[k].pc = pc /\ work'[k].session = s
      /\ work'[k].old = row[s].project /\ work'[k].new = None
  BY DEF LoadActive, SessionsTypeOK, WorkStates, WorkPcs
<1>3. UNCHANGED <<gate, row, account, project, create, logged>>
  BY DEF LoadActive, gateVars
<1>4. SessionsTypeOK'
  BY <1>1, <1>2, <1>3 DEF SessionsTypeOK, GateInv, CreateStates, WorkStates, ProjectStates
<1>5. TypedIds /\ TypedIds'
  BY <1>4, IdsTyped, SessionsAssumption DEF SessionsTypeOK, TypedIds
<1>6. OwnIds'
  BY <1>1, <1>2, <1>3, <1>5, SessionsAssumption DEF OwnIds, Own, TypedIds
<1>7. Created'
  BY <1>1, <1>2, <1>3, <1>5 DEF Created, Loaded, AtIt, TypedIds
<1>8. Loaded'
  BY <1>1, <1>2, <1>3, <1>5 DEF Loaded, Created, TypedIds
<1>9. ASSUME AccountPerils, AccountInv PROVE AccountInv'
  <2> USE DEF AccountPerils, AccountInv
  <2>1. Fresh'
    BY <1>9, <1>1, <1>2, <1>3, <1>5 DEF Fresh, Created, Loaded, OwnIds, Own, TypedIds
  <2>2. Unseen'
    BY <1>9, <1>1, <1>2, <1>3, <1>5 DEF Unseen, Fresh, Created, Loaded, OwnIds, Own, TypedIds
  <2>3. Spared'
    BY <1>9, <1>1, <1>2, <1>3, <1>5 DEF Spared, Unseen, Fresh, Created, Loaded, TypedIds
  <2>4. AccountHasProject'
    BY <1>9, <1>1, <1>2, <1>3, <1>5 DEF AccountHasProject, Fresh, Spared, Unseen, OwnIds, Own,
      Created, Loaded, TypedIds
  <2> QED  BY <1>4, <1>6, <1>7, <1>8, <2>1, <2>2, <2>3, <2>4
<1>10. ASSUME CleanPerils, CleanInv PROVE CleanInv'
  <2> USE DEF CleanPerils, CleanInv
  <2>1. OnlyWorker'
    BY <1>10, <1>1, <1>2, <1>3, <1>5 DEF OnlyWorker, OwnIds, Own, Loaded, Created, Told,
      TypedIds
  <2>2. Told'
    BY <1>10, <1>1, <1>2, <1>3, <1>5 DEF Told, Created, Loaded, TypedIds
  <2>3. Accounted'
    BY <1>10, <1>1, <1>2, <1>3, <1>5 DEF Accounted, Kept, Creating, OnlyWorker, Told, Created,
      Loaded, TypedIds
  <2> QED  BY <1>4, <1>6, <1>7, <1>8, <2>1, <2>2, <2>3
<1> QED  BY <1>4, <1>6, <1>7, <1>8, <1>9, <1>10

\* The copy of a reset is nobody else's.
LEMMA ResetCopyKeeps ==
  ASSUME SoundInv, NEW k \in Workers, ResetCopy(k), GateInv'
  PROVE  /\ SoundInv'
         /\ AccountPerils /\ AccountInv => AccountInv'
         /\ CleanPerils /\ CleanInv => CleanInv'
<1> USE DEF SoundInv
<1>1. /\ work[k].pc = "copy" /\ work[k].session \in Sessions
  BY DEF ResetCopy, WorkAt, Loaded, SessionsTypeOK
<1>2. project' \in ProjectStates /\ \A x \in Projects :
        \/ project'[x] = project[x]
        \/ /\ project[x].state = "unused" /\ project'[x].state = "up"
           /\ project'[x].of = work[k].session
  BY <1>1, ProjectMade DEF ResetCopy, SessionsTypeOK, ProjectStates
<1>3. work' \in [Workers -> WorkStates] /\ \A j \in Workers : j # k => work'[j] = work[j]
  <2>1. ASSUME NEW x \in Projects, work' = [work EXCEPT ![k].pc = "grant", ![k].new = x]
        PROVE  work' \in [Workers -> WorkStates] /\ \A j \in Workers : j # k => work'[j] = work[j]
    <3>1. [work[k] EXCEPT !.pc = "grant", !.new = x] \in WorkStates
      BY DEF SessionsTypeOK, WorkStates, WorkPcs
    <3> QED  BY <2>1, <3>1 DEF SessionsTypeOK, WorkStates
  <2> QED  BY <2>1, WorkStops DEF ResetCopy
<1>4. \/ /\ work'[k].pc = "grant" /\ work'[k].session = work[k].session /\ work'[k].old = work[k].old
         /\ work'[k].new \in Projects
         /\ project[work'[k].new].state = "unused" /\ project'[work'[k].new].state = "up"
         /\ \A x \in Projects : x # work'[k].new => project'[x] = project[x]
         /\ project'[work'[k].new].of = work[k].session
      \/ "reset" \in Perils /\ work'[k].pc = "idle" /\ work'[k].session = None
         /\ work'[k].old = None /\ work'[k].new = None
  BY <1>1, ProjectMade, WorkStops DEF ResetCopy, SessionsTypeOK, WorkStates
<1>5. UNCHANGED <<gate, row, account, create, logged>>
  BY DEF ResetCopy, gateVars
<1>6. SessionsTypeOK'
  BY <1>1, <1>2, <1>3, <1>4, <1>5 DEF SessionsTypeOK, GateInv, CreateStates, WorkStates,
    ProjectStates
<1>7. TypedIds /\ TypedIds'
  BY <1>6, IdsTyped, SessionsAssumption DEF SessionsTypeOK, TypedIds
<1>8. OwnIds'
  BY <1>1, <1>2, <1>3, <1>4, <1>5, <1>7, SessionsAssumption DEF OwnIds, Own, TypedIds
<1>9. Created'
  BY <1>1, <1>2, <1>3, <1>4, <1>5, <1>7 DEF Created, Loaded, AtIt, TypedIds
<1>10. Loaded'
  BY <1>1, <1>2, <1>3, <1>4, <1>5, <1>7 DEF Loaded, Created, TypedIds
<1>11. ASSUME AccountPerils, AccountInv PROVE AccountInv'
  <2> USE DEF AccountPerils, AccountInv
  <2>1. Fresh'
    BY <1>11, <1>1, <1>2, <1>3, <1>4, <1>5, <1>7 DEF Fresh, Created, Loaded, OwnIds, Own,
      TypedIds
  <2>2. Unseen'
    BY <1>11, <1>1, <1>2, <1>3, <1>4, <1>5, <1>7 DEF Unseen, Fresh, Created, Loaded, OwnIds,
      Own, TypedIds
  <2>3. Spared'
    BY <1>11, <1>1, <1>2, <1>3, <1>4, <1>5, <1>7 DEF Spared, Unseen, Fresh, Created, Loaded,
      TypedIds
  <2>4. AccountHasProject'
    BY <1>11, <1>1, <1>2, <1>3, <1>4, <1>5, <1>7 DEF AccountHasProject, Fresh, Spared, Unseen,
      OwnIds, Own, Created, Loaded, TypedIds
  <2> QED  BY <1>6, <1>8, <1>9, <1>10, <2>1, <2>2, <2>3, <2>4
<1>12. ASSUME CleanPerils, CleanInv PROVE CleanInv'
  <2> USE DEF CleanPerils, CleanInv
  <2>1. OnlyWorker'
    BY <1>12, <1>1, <1>2, <1>3, <1>4, <1>5, <1>7 DEF OnlyWorker, OwnIds, Own, Loaded, Created,
      Told, TypedIds
  <2>2. Told'
    BY <1>12, <1>1, <1>2, <1>3, <1>4, <1>5, <1>7 DEF Told, Created, Loaded, TypedIds
  <2>3. Accounted'
    BY <1>12, <1>1, <1>2, <1>3, <1>4, <1>5, <1>7 DEF Accounted, Kept, Creating, OnlyWorker,
      Told, Created, Loaded, TypedIds
  <2> QED  BY <1>6, <1>8, <1>9, <1>10, <2>1, <2>2, <2>3
<1> QED  BY <1>6, <1>8, <1>9, <1>10, <1>11, <1>12

\* Nothing but the worker moves.
LEMMA ResetGrantKeeps ==
  ASSUME SoundInv, NEW k \in Workers, ResetGrant(k), GateInv'
  PROVE  /\ SoundInv'
         /\ AccountPerils /\ AccountInv => AccountInv'
         /\ CleanPerils /\ CleanInv => CleanInv'
<1> USE DEF SoundInv
<1>1. /\ work[k].pc = "grant" /\ work' \in [Workers -> WorkStates]
      /\ \A j \in Workers : j # k => work'[j] = work[j]
  BY WorkMoves, WorkStops DEF ResetGrant, WorkAt, WorkPcs
<1>2. \/ /\ work'[k].pc = "commit" /\ work'[k].session = work[k].session
         /\ work'[k].old = work[k].old /\ work'[k].new = work[k].new
      \/ "reset" \in Perils /\ work'[k].pc = "idle" /\ work'[k].session = None
         /\ work'[k].old = None /\ work'[k].new = None
  BY WorkMoves, WorkStops DEF ResetGrant, WorkPcs
<1>3. UNCHANGED <<gate, row, account, project, create, logged>>
  BY DEF ResetGrant, gateVars
<1>4. SessionsTypeOK'
  BY <1>1, <1>2, <1>3 DEF SessionsTypeOK, GateInv, CreateStates, WorkStates, ProjectStates
<1>5. TypedIds /\ TypedIds'
  BY <1>4, IdsTyped, SessionsAssumption DEF SessionsTypeOK, TypedIds
<1>6. OwnIds'
  BY <1>1, <1>2, <1>3, <1>5, SessionsAssumption DEF OwnIds, Own, TypedIds
<1>7. Created'
  BY <1>1, <1>2, <1>3, <1>5 DEF Created, Loaded, AtIt, TypedIds
<1>8. Loaded'
  BY <1>1, <1>2, <1>3, <1>5 DEF Loaded, Created, TypedIds
<1>9. ASSUME AccountPerils, AccountInv PROVE AccountInv'
  <2> USE DEF AccountPerils, AccountInv
  <2>1. Fresh'
    BY <1>9, <1>1, <1>2, <1>3, <1>5 DEF Fresh, Created, Loaded, OwnIds, Own, TypedIds
  <2>2. Unseen'
    BY <1>9, <1>1, <1>2, <1>3, <1>5 DEF Unseen, Fresh, Created, Loaded, OwnIds, Own, TypedIds
  <2>3. Spared'
    BY <1>9, <1>1, <1>2, <1>3, <1>5 DEF Spared, Unseen, Fresh, Created, Loaded, TypedIds
  <2>4. AccountHasProject'
    BY <1>9, <1>1, <1>2, <1>3, <1>5 DEF AccountHasProject, Fresh, Spared, Unseen, OwnIds, Own,
      Created, Loaded, TypedIds
  <2> QED  BY <1>4, <1>6, <1>7, <1>8, <2>1, <2>2, <2>3, <2>4
<1>10. ASSUME CleanPerils, CleanInv PROVE CleanInv'
  <2> USE DEF CleanPerils, CleanInv
  <2>1. OnlyWorker'
    BY <1>10, <1>1, <1>2, <1>3, <1>5 DEF OnlyWorker, OwnIds, Own, Loaded, Created, Told,
      TypedIds
  <2>2. Told'
    BY <1>10, <1>1, <1>2, <1>3, <1>5 DEF Told, Created, Loaded, TypedIds
  <2>3. Accounted'
    BY <1>10, <1>1, <1>2, <1>3, <1>5 DEF Accounted, Kept, Creating, OnlyWorker, Told, Created,
      Loaded, TypedIds
  <2> QED  BY <1>4, <1>6, <1>7, <1>8, <2>1, <2>2, <2>3
<1> QED  BY <1>4, <1>6, <1>7, <1>8, <1>9, <1>10

\* The row takes the new project, and the old one is left to be dropped.
LEMMA ResetCommitKeeps ==
  ASSUME SoundInv, NEW k \in Workers, ResetCommit(k), GateInv'
  PROVE  /\ SoundInv'
         /\ AccountPerils /\ AccountInv => AccountInv'
         /\ CleanPerils /\ CleanInv => CleanInv'
<1> USE DEF SoundInv
<1>1. /\ work[k].pc = "commit" /\ work[k].session \in Sessions /\ work' \in [Workers -> WorkStates]
      /\ \A j \in Workers : j # k => work'[j] = work[j]
  BY WorkMoves, WorkStops DEF ResetCommit, WorkAt, WorkPcs, Loaded, SessionsTypeOK
<1>2. /\ row' \in [Sessions -> [status : {"none", "active", "closed"}, project : Projects \cup {None}]]
      /\ \A t \in Sessions :
           /\ row'[t].status = row[t].status
           /\ t # work[k].session => row'[t] = row[t]
  <2>1. CASE SwitchProject(k)
    <3>1. work[k].new \in Projects \cup {None}
      BY DEF SessionsTypeOK
    <3> QED  BY <1>1, <2>1, <3>1 DEF SwitchProject, SessionsTypeOK
  <2> QED  BY <1>1, <2>1 DEF ResetCommit, SessionsTypeOK
<1>3. \/ /\ work'[k].pc = "drop" /\ work'[k].session = work[k].session
         /\ work'[k].old = work[k].old /\ work'[k].new = work[k].new
         /\ row'[work[k].session].project = work[k].new
      \/ "reset" \in Perils /\ work'[k].pc = "idle" /\ work'[k].session = None
         /\ work'[k].old = None /\ work'[k].new = None /\ row' = row
  BY <1>1, WorkMoves, WorkStops DEF ResetCommit, SwitchProject, WorkPcs, SessionsTypeOK
<1>4. UNCHANGED <<gate, account, project, create, logged>>
  BY DEF ResetCommit, SwitchProject, gateVars
<1>5. SessionsTypeOK'
  BY <1>1, <1>2, <1>3, <1>4 DEF SessionsTypeOK, GateInv, CreateStates, WorkStates, ProjectStates
<1>6. TypedIds /\ TypedIds'
  BY <1>5, IdsTyped, SessionsAssumption DEF SessionsTypeOK, TypedIds
<1>7. OwnIds'
  BY <1>1, <1>2, <1>3, <1>4, <1>6, SessionsAssumption DEF OwnIds, Own, TypedIds
<1>8. Created'
  BY <1>1, <1>2, <1>3, <1>4, <1>6 DEF Created, Loaded, AtIt, TypedIds
<1>9. Loaded'
  BY <1>1, <1>2, <1>3, <1>4, <1>6 DEF Loaded, Created, TypedIds
<1>10. ASSUME AccountPerils, AccountInv PROVE AccountInv'
  <2> USE DEF AccountPerils, AccountInv
  <2>1. Fresh'
    BY <1>10, <1>1, <1>2, <1>3, <1>4, <1>6 DEF Fresh, Created, Loaded, OwnIds, Own, TypedIds
  <2>2. Unseen'
    BY <1>10, <1>1, <1>2, <1>3, <1>4, <1>6 DEF Unseen, Fresh, Created, Loaded, OwnIds, Own,
      TypedIds
  <2>3. Spared'
    BY <1>10, <1>1, <1>2, <1>3, <1>4, <1>6 DEF Spared, Unseen, Fresh, Created, Loaded, TypedIds
  <2>4. AccountHasProject'
    BY <1>10, <1>1, <1>2, <1>3, <1>4, <1>6 DEF AccountHasProject, Fresh, Spared, Unseen,
      OwnIds, Own, Created, Loaded, TypedIds
  <2> QED  BY <1>5, <1>7, <1>8, <1>9, <2>1, <2>2, <2>3, <2>4
<1>11. ASSUME CleanPerils, CleanInv PROVE CleanInv'
  <2> USE DEF CleanPerils, CleanInv
  <2>1. OnlyWorker'
    <3>1. \A j \in Workers : j # k /\ work[j].pc # "idle" =>
            work[j].session # work[k].session /\ row'[work[j].session] = row[work[j].session]
      BY <1>11, <1>1, <1>2, <1>3, <1>4, <1>6 DEF OnlyWorker, Loaded, TypedIds
    <3>2. \A j \in Workers : work'[j].session = work[j].session
      BY <1>11, <1>1, <1>2, <1>3, <1>4, <1>6
    <3> QED  BY <1>11, <3>1, <3>2, <1>1, <1>2, <1>3, <1>4, <1>6 DEF OnlyWorker, Loaded, TypedIds
  <2>2. Told'
    BY <1>11, <1>1, <1>2, <1>3, <1>4, <1>6 DEF Told, Created, Loaded, TypedIds
  <2>3. Accounted'
    BY <1>11, <1>1, <1>2, <1>3, <1>4, <1>6 DEF Accounted, Kept, Creating, OnlyWorker, Told,
      Created, Loaded, TypedIds
  <2> QED  BY <1>5, <1>7, <1>8, <1>9, <2>1, <2>2, <2>3
<1> QED  BY <1>5, <1>7, <1>8, <1>9, <1>10, <1>11

\* The project that the row has left goes.
LEMMA ResetDropKeeps ==
  ASSUME SoundInv, NEW k \in Workers, ResetDrop(k), GateInv'
  PROVE  /\ SoundInv'
         /\ AccountPerils /\ AccountInv => AccountInv'
         /\ CleanPerils /\ CleanInv => CleanInv'
<1> USE DEF SoundInv
<1>1. /\ work[k].pc = "drop" /\ work'[k].pc = "idle" /\ work'[k].session = None
         /\ work'[k].old = None /\ work'[k].new = None /\ work' \in [Workers -> WorkStates]
      /\ \A j \in Workers : j # k => work'[j] = work[j]
  BY WorkStops DEF ResetDrop, WorkAt
<1>2. work[k].session \in Sessions /\ work[k].old \in Projects \cup {None}
  BY <1>1 DEF Loaded, SessionsTypeOK
<1>3. \/ Dropped(work[k].old) /\ logged' = logged
      \/ "cleanup" \in Perils /\ project' = project /\ logged' = logged \cup {work[k].session}
  BY DEF ResetDrop, DropProject, Attempted
<1>4. UNCHANGED <<gate, row, account, create>>
  BY DEF ResetDrop, gateVars
<1>5. /\ project' \in ProjectStates
      /\ \A x \in Projects :
           /\ project'[x].of = project[x].of
           /\ project'[x].state = "unused" <=> project[x].state = "unused"
           /\ project'[x].state = "up" => project[x].state = "up"
           /\ x # work[k].old => project'[x] = project[x]
           /\ work[k].session \notin logged' => project'[x].state # "up" \/ x # work[k].old
      /\ \/ logged' = logged
         \/ "cleanup" \in Perils /\ logged' = logged \cup {work[k].session}
  <2>1. CASE Dropped(work[k].old) /\ logged' = logged
    BY <1>2, <2>1, ProjectDropped
  <2>2. CASE project' = project /\ "cleanup" \in Perils /\ logged' = logged \cup {work[k].session}
    BY <2>2 DEF SessionsTypeOK, ProjectStates
  <2> QED  BY <1>1, <1>2, <1>3, <1>4, <2>1, <2>2
<1>6. SessionsTypeOK'
  BY <1>1, <1>2, <1>3, <1>4, <1>5 DEF SessionsTypeOK, GateInv, CreateStates, WorkStates,
    ProjectStates
<1>7. TypedIds /\ TypedIds'
  BY <1>6, IdsTyped, SessionsAssumption DEF SessionsTypeOK, TypedIds
<1>8. OwnIds'
  BY <1>1, <1>2, <1>3, <1>4, <1>5, <1>7, SessionsAssumption DEF OwnIds, Own, TypedIds
<1>9. Created'
  BY <1>1, <1>2, <1>3, <1>4, <1>5, <1>7 DEF Created, Loaded, AtIt, TypedIds
<1>10. Loaded'
  BY <1>1, <1>2, <1>3, <1>4, <1>5, <1>7 DEF Loaded, Created, TypedIds
<1>11. ASSUME AccountPerils, AccountInv PROVE AccountInv'
  <2> USE DEF AccountPerils, AccountInv
  <2>1. Fresh'
    BY <1>11, <1>1, <1>2, <1>3, <1>4, <1>5, <1>7 DEF Fresh, Created, Loaded, OwnIds, Own,
      TypedIds
  <2>2. Unseen'
    BY <1>11, <1>1, <1>2, <1>3, <1>4, <1>5, <1>7 DEF Unseen, Fresh, Created, Loaded, OwnIds,
      Own, TypedIds
  <2>3. Spared'
    BY <1>11, <1>1, <1>2, <1>3, <1>4, <1>5, <1>7 DEF Spared, Unseen, Fresh, Created, Loaded,
      TypedIds
  <2>4. AccountHasProject'
    BY <1>11, <1>1, <1>2, <1>3, <1>4, <1>5, <1>7 DEF AccountHasProject, Fresh, Spared, Unseen,
      OwnIds, Own, Created, Loaded, TypedIds
  <2> QED  BY <1>6, <1>8, <1>9, <1>10, <2>1, <2>2, <2>3, <2>4
<1>12. ASSUME CleanPerils, CleanInv PROVE CleanInv'
  <2> USE DEF CleanPerils, CleanInv
  <2>1. OnlyWorker'
    BY <1>12, <1>1, <1>2, <1>3, <1>4, <1>5, <1>7 DEF OnlyWorker, OwnIds, Own, Loaded, Created,
      Told, TypedIds
  <2>2. Told'
    BY <1>12, <1>1, <1>2, <1>3, <1>4, <1>5, <1>7 DEF Told, Created, Loaded, TypedIds
  <2>3. Accounted'
    BY <1>12, <1>1, <1>2, <1>3, <1>4, <1>5, <1>7 DEF Accounted, Kept, Creating, OnlyWorker,
      Told, Created, Loaded, TypedIds
  <2> QED  BY <1>6, <1>8, <1>9, <1>10, <2>1, <2>2, <2>3
<1> QED  BY <1>6, <1>8, <1>9, <1>10, <1>11, <1>12

\* A deletion takes the account first, or the log has the session.
LEMMA DeleteUserKeeps ==
  ASSUME SoundInv, NEW k \in Workers, DeleteUser(k), GateInv'
  PROVE  /\ SoundInv'
         /\ AccountPerils /\ AccountInv => AccountInv'
         /\ CleanPerils /\ CleanInv => CleanInv'
<1> USE DEF SoundInv
<1>1. /\ work[k].pc = "dropUser" /\ work'[k].pc = "dropProject" /\ work' \in [Workers -> WorkStates]
      /\ \A j \in Workers :
           /\ j # k => work'[j] = work[j]
           /\ work'[j].session = work[j].session
           /\ work'[j].old = work[j].old /\ work'[j].new = work[j].new
  BY WorkMoves DEF DeleteUser, WorkAt, WorkPcs
<1>2. work[k].session \in Sessions
  BY <1>1 DEF Loaded, SessionsTypeOK
<1>3. \/ account' = account \ {work[k].session} /\ logged' = logged
      \/ "cleanup" \in Perils /\ account' = account /\ logged' = logged \cup {work[k].session}
  BY DEF DeleteUser, DropAccount, Attempted
<1>4. UNCHANGED <<gate, row, project, create>>
  BY DEF DeleteUser, gateVars
<1>5. SessionsTypeOK'
  BY <1>1, <1>2, <1>3, <1>4 DEF SessionsTypeOK, GateInv, CreateStates, WorkStates, ProjectStates
<1>6. TypedIds /\ TypedIds'
  BY <1>5, IdsTyped, SessionsAssumption DEF SessionsTypeOK, TypedIds
<1>7. OwnIds'
  BY <1>1, <1>2, <1>3, <1>4, <1>6, SessionsAssumption DEF OwnIds, Own, TypedIds
<1>8. Created'
  BY <1>1, <1>2, <1>3, <1>4, <1>6 DEF Created, Loaded, AtIt, TypedIds
<1>9. Loaded'
  BY <1>1, <1>2, <1>3, <1>4, <1>6 DEF Loaded, Created, TypedIds
<1>10. ASSUME AccountPerils, AccountInv PROVE AccountInv'
  <2> USE DEF AccountPerils, AccountInv
  <2>1. Fresh'
    BY <1>10, <1>1, <1>2, <1>3, <1>4, <1>6 DEF Fresh, Created, Loaded, OwnIds, Own, TypedIds
  <2>2. Unseen'
    BY <1>10, <1>1, <1>2, <1>3, <1>4, <1>6 DEF Unseen, Fresh, Created, Loaded, OwnIds, Own,
      TypedIds
  <2>3. Spared'
    BY <1>10, <1>1, <1>2, <1>3, <1>4, <1>6 DEF Spared, Unseen, Fresh, Created, Loaded, TypedIds
  <2>4. AccountHasProject'
    BY <1>10, <1>1, <1>2, <1>3, <1>4, <1>6 DEF AccountHasProject, Fresh, Spared, Unseen,
      OwnIds, Own, Created, Loaded, TypedIds
  <2> QED  BY <1>5, <1>7, <1>8, <1>9, <2>1, <2>2, <2>3, <2>4
<1>11. ASSUME CleanPerils, CleanInv PROVE CleanInv'
  <2> USE DEF CleanPerils, CleanInv
  <2>1. OnlyWorker'
    BY <1>11, <1>1, <1>2, <1>3, <1>4, <1>6 DEF OnlyWorker, OwnIds, Own, Loaded, Created, Told,
      TypedIds
  <2>2. Told'
    BY <1>11, <1>1, <1>2, <1>3, <1>4, <1>6 DEF Told, Created, Loaded, TypedIds
  <2>3. Accounted'
    BY <1>11, <1>1, <1>2, <1>3, <1>4, <1>6 DEF Accounted, Kept, Creating, OnlyWorker, Told,
      Created, Loaded, TypedIds
  <2> QED  BY <1>5, <1>7, <1>8, <1>9, <2>1, <2>2, <2>3
<1> QED  BY <1>5, <1>7, <1>8, <1>9, <1>10, <1>11

\* ... then the project, which nobody can log in to any more.
LEMMA DeleteProjectKeeps ==
  ASSUME SoundInv, NEW k \in Workers, DeleteProject(k), GateInv'
  PROVE  /\ SoundInv'
         /\ AccountPerils /\ AccountInv => AccountInv'
         /\ CleanPerils /\ CleanInv => CleanInv'
<1> USE DEF SoundInv
<1>1. /\ work[k].pc = "dropProject" /\ work'[k].pc = "close" /\ work' \in [Workers -> WorkStates]
      /\ \A j \in Workers :
           /\ j # k => work'[j] = work[j]
           /\ work'[j].session = work[j].session
           /\ work'[j].old = work[j].old /\ work'[j].new = work[j].new
  BY WorkMoves DEF DeleteProject, WorkAt, WorkPcs
<1>2. work[k].session \in Sessions /\ work[k].old \in Projects \cup {None}
  BY <1>1 DEF Loaded, SessionsTypeOK
<1>3. \/ Dropped(work[k].old) /\ logged' = logged
      \/ "cleanup" \in Perils /\ project' = project /\ logged' = logged \cup {work[k].session}
  BY DEF DeleteProject, DropProject, Attempted
<1>4. UNCHANGED <<gate, row, account, create>>
  BY DEF DeleteProject, gateVars
<1>5. /\ project' \in ProjectStates
      /\ \A x \in Projects :
           /\ project'[x].of = project[x].of
           /\ project'[x].state = "unused" <=> project[x].state = "unused"
           /\ project'[x].state = "up" => project[x].state = "up"
           /\ x # work[k].old => project'[x] = project[x]
           /\ work[k].session \notin logged' => project'[x].state # "up" \/ x # work[k].old
      /\ \/ logged' = logged
         \/ "cleanup" \in Perils /\ logged' = logged \cup {work[k].session}
  <2>1. CASE Dropped(work[k].old) /\ logged' = logged
    BY <1>2, <2>1, ProjectDropped
  <2>2. CASE project' = project /\ "cleanup" \in Perils /\ logged' = logged \cup {work[k].session}
    BY <2>2 DEF SessionsTypeOK, ProjectStates
  <2> QED  BY <1>1, <1>2, <1>3, <1>4, <2>1, <2>2
<1>6. SessionsTypeOK'
  BY <1>1, <1>2, <1>3, <1>4, <1>5 DEF SessionsTypeOK, GateInv, CreateStates, WorkStates,
    ProjectStates
<1>7. TypedIds /\ TypedIds'
  BY <1>6, IdsTyped, SessionsAssumption DEF SessionsTypeOK, TypedIds
<1>8. OwnIds'
  BY <1>1, <1>2, <1>3, <1>4, <1>5, <1>7, SessionsAssumption DEF OwnIds, Own, TypedIds
<1>9. Created'
  BY <1>1, <1>2, <1>3, <1>4, <1>5, <1>7 DEF Created, Loaded, AtIt, TypedIds
<1>10. Loaded'
  BY <1>1, <1>2, <1>3, <1>4, <1>5, <1>7 DEF Loaded, Created, TypedIds
<1>11. ASSUME AccountPerils, AccountInv PROVE AccountInv'
  <2> USE DEF AccountPerils, AccountInv
  <2>1. Fresh'
    BY <1>11, <1>1, <1>2, <1>3, <1>4, <1>5, <1>7 DEF Fresh, Created, Loaded, OwnIds, Own,
      TypedIds
  <2>2. Unseen'
    BY <1>11, <1>1, <1>2, <1>3, <1>4, <1>5, <1>7 DEF Unseen, Fresh, Created, Loaded, OwnIds,
      Own, TypedIds
  <2>3. Spared'
    BY <1>11, <1>1, <1>2, <1>3, <1>4, <1>5, <1>7 DEF Spared, Unseen, Fresh, Created, Loaded,
      TypedIds
  <2>4. AccountHasProject'
    BY <1>11, <1>1, <1>2, <1>3, <1>4, <1>5, <1>7 DEF AccountHasProject, Fresh, Spared, Unseen,
      OwnIds, Own, Created, Loaded, TypedIds
  <2> QED  BY <1>6, <1>8, <1>9, <1>10, <2>1, <2>2, <2>3, <2>4
<1>12. ASSUME CleanPerils, CleanInv PROVE CleanInv'
  <2> USE DEF CleanPerils, CleanInv
  <2>1. OnlyWorker'
    BY <1>12, <1>1, <1>2, <1>3, <1>4, <1>5, <1>7 DEF OnlyWorker, OwnIds, Own, Loaded, Created,
      Told, TypedIds
  <2>2. Told'
    BY <1>12, <1>1, <1>2, <1>3, <1>4, <1>5, <1>7 DEF Told, Created, Loaded, TypedIds
  <2>3. Accounted'
    BY <1>12, <1>1, <1>2, <1>3, <1>4, <1>5, <1>7 DEF Accounted, Kept, Creating, OnlyWorker,
      Told, Created, Loaded, TypedIds
  <2> QED  BY <1>6, <1>8, <1>9, <1>10, <2>1, <2>2, <2>3
<1> QED  BY <1>6, <1>8, <1>9, <1>10, <1>11, <1>12

\* The row is closed when GNS3 has nothing of the session left.
LEMMA CloseKeeps ==
  ASSUME SoundInv, NEW k \in Workers, Close(k), GateInv'
  PROVE  /\ SoundInv'
         /\ AccountPerils /\ AccountInv => AccountInv'
         /\ CleanPerils /\ CleanInv => CleanInv'
<1> USE DEF SoundInv
<1>1. /\ work[k].pc = "close" /\ work'[k].pc = "idle" /\ work'[k].session = None
         /\ work'[k].old = None /\ work'[k].new = None /\ work' \in [Workers -> WorkStates]
      /\ \A j \in Workers : j # k => work'[j] = work[j]
  BY WorkStops DEF Close, WorkAt
<1>2. work[k].session \in Sessions
  BY <1>1 DEF Loaded, SessionsTypeOK
<1>3. /\ row' \in [Sessions -> [status : {"none", "active", "closed"}, project : Projects \cup {None}]]
      /\ row'[work[k].session].status = "closed"
      /\ \A t \in Sessions :
           /\ row'[t].project = row[t].project
           /\ t # work[k].session => row'[t] = row[t]
  BY <1>2 DEF Close, SessionsTypeOK
<1>4. UNCHANGED <<gate, account, project, create, logged>>
  BY DEF Close, gateVars
<1>5. SessionsTypeOK'
  BY <1>1, <1>2, <1>3, <1>4 DEF SessionsTypeOK, GateInv, CreateStates, WorkStates, ProjectStates
<1>6. TypedIds /\ TypedIds'
  BY <1>5, IdsTyped, SessionsAssumption DEF SessionsTypeOK, TypedIds
<1>7. OwnIds'
  BY <1>1, <1>2, <1>3, <1>4, <1>6, SessionsAssumption DEF OwnIds, Own, TypedIds
<1>8. Created'
  BY <1>1, <1>2, <1>3, <1>4, <1>6 DEF Created, Loaded, AtIt, TypedIds
<1>9. Loaded'
  BY <1>1, <1>2, <1>3, <1>4, <1>6 DEF Loaded, Created, TypedIds
<1>10. ASSUME AccountPerils, AccountInv PROVE AccountInv'
  <2> USE DEF AccountPerils, AccountInv
  <2>1. Fresh'
    BY <1>10, <1>1, <1>2, <1>3, <1>4, <1>6 DEF Fresh, Created, Loaded, OwnIds, Own, TypedIds
  <2>2. Unseen'
    BY <1>10, <1>1, <1>2, <1>3, <1>4, <1>6 DEF Unseen, Fresh, Created, Loaded, OwnIds, Own,
      TypedIds
  <2>3. Spared'
    BY <1>10, <1>1, <1>2, <1>3, <1>4, <1>6 DEF Spared, Unseen, Fresh, Created, Loaded, TypedIds
  <2>4. AccountHasProject'
    BY <1>10, <1>1, <1>2, <1>3, <1>4, <1>6 DEF AccountHasProject, Fresh, Spared, Unseen,
      OwnIds, Own, Created, Loaded, TypedIds
  <2> QED  BY <1>5, <1>7, <1>8, <1>9, <2>1, <2>2, <2>3, <2>4
<1>11. ASSUME CleanPerils, CleanInv PROVE CleanInv'
  <2> USE DEF CleanPerils, CleanInv
  <2>1. OnlyWorker'
    BY <1>11, <1>1, <1>2, <1>3, <1>4, <1>6 DEF OnlyWorker, OwnIds, Own, Loaded, Created, Told,
      TypedIds
  <2>2. Told'
    BY <1>11, <1>1, <1>2, <1>3, <1>4, <1>6 DEF Told, Created, Loaded, TypedIds
  <2>3. Accounted'
    BY <1>11, <1>1, <1>2, <1>3, <1>4, <1>6 DEF Accounted, Kept, Creating, OnlyWorker, Told,
      Created, Loaded, TypedIds
  <2> QED  BY <1>5, <1>7, <1>8, <1>9, <2>1, <2>2, <2>3
<1> QED  BY <1>5, <1>7, <1>8, <1>9, <1>10, <1>11

\* What was under way is forgotten; what was made stays.
LEMMA CrashKeeps ==
  ASSUME SoundInv, NEW r \in Replicas, Crash(r), GateInv'
  PROVE  /\ SoundInv'
         /\ AccountPerils /\ AccountInv => AccountInv'
         /\ CleanPerils /\ CleanInv => CleanInv'
<1> USE DEF SoundInv
<1>1. /\ create' \in [Sessions -> CreateStates]
      /\ \A t \in Sessions :
           \/ create'[t] = create[t] /\ (ReplicaOf[t] # r \/ create[t].pc \in {"idle", "done", "failed"})
           \/ /\ create[t].pc \notin {"idle", "done", "failed"} /\ ReplicaOf[t] = r
              /\ create'[t].pc = "failed" /\ create'[t].copying = "no" /\ create'[t].copy = None
              /\ create'[t].user = FALSE /\ create'[t].project = None
  BY DEF Crash, SessionsTypeOK, CreateStates, CreatePcs, IdleCreate
<1>2. \A t \in Sessions : AtIt(t)' <=> AtIt(t) /\ ReplicaOf[t] # r
  BY DEF Crash, GateCrash, AtIt, SessionsTypeOK, GateTypeOK, Sessions
<1>3. /\ work' \in [Workers -> WorkStates] /\ logged' \subseteq Sessions
      /\ \A t \in Sessions : t \in logged => t \in logged'
      /\ \A j \in Workers :
           work'[j] = work[j] \/ (/\ work'[j].pc = "idle" /\ work'[j].session = None
                                   /\ work'[j].old = None /\ work'[j].new = None
                                   /\ work[j].session \in logged')
  <2>1. PICK dead \in SUBSET {k \in Workers : ~WorkAt(k, "idle")} :
          /\ work' = [k \in Workers |-> IF k \in dead THEN IdleWork ELSE work[k]]
          /\ logged' = logged \cup {work[k].session : k \in dead}
    BY DEF Crash
  <2>2. \A k \in dead : work[k].session \in Sessions
    BY DEF WorkAt, Loaded, SessionsTypeOK
  <2>3. IdleWork \in WorkStates
    BY DEF IdleWork, WorkStates, WorkPcs
  <2> QED  BY <2>1, <2>2, <2>3 DEF SessionsTypeOK, WorkStates, IdleWork
<1>4. UNCHANGED <<row, account, project>>
  BY DEF Crash
<1>5. SessionsTypeOK'
  BY <1>1, <1>2, <1>3, <1>4 DEF SessionsTypeOK, GateInv, CreateStates, WorkStates, ProjectStates
<1>6. TypedIds /\ TypedIds'
  BY <1>5, IdsTyped, SessionsAssumption DEF SessionsTypeOK, TypedIds
<1>7. OwnIds'
  BY <1>1, <1>2, <1>3, <1>4, <1>6, SessionsAssumption DEF OwnIds, Own, TypedIds
<1>8. Created'
  BY <1>1, <1>2, <1>3, <1>4, <1>6 DEF Created, Loaded, AtIt, TypedIds
<1>9. Loaded'
  BY <1>1, <1>2, <1>3, <1>4, <1>6 DEF Loaded, Created, TypedIds
<1>10. ASSUME AccountPerils, AccountInv PROVE AccountInv'
  <2> USE DEF AccountPerils, AccountInv
  <2>1. Fresh'
    BY <1>10, <1>1, <1>2, <1>3, <1>4, <1>6 DEF Fresh, Created, Loaded, OwnIds, Own, TypedIds
  <2>2. Unseen'
    BY <1>10, <1>1, <1>2, <1>3, <1>4, <1>6 DEF Unseen, Fresh, Created, Loaded, OwnIds, Own,
      TypedIds
  <2>3. Spared'
    BY <1>10, <1>1, <1>2, <1>3, <1>4, <1>6 DEF Spared, Unseen, Fresh, Created, Loaded, TypedIds
  <2>4. AccountHasProject'
    BY <1>10, <1>1, <1>2, <1>3, <1>4, <1>6 DEF AccountHasProject, Fresh, Spared, Unseen,
      OwnIds, Own, Created, Loaded, TypedIds
  <2> QED  BY <1>5, <1>7, <1>8, <1>9, <2>1, <2>2, <2>3, <2>4
<1>11. ASSUME CleanPerils, CleanInv PROVE CleanInv'
  <2> USE DEF CleanPerils, CleanInv
  <2>1. OnlyWorker'
    BY <1>11, <1>1, <1>2, <1>3, <1>4, <1>6 DEF OnlyWorker, OwnIds, Own, Loaded, Created, Told,
      TypedIds
  <2>2. Told'
    BY <1>11, <1>1, <1>2, <1>3, <1>4, <1>6 DEF Told, Created, Loaded, TypedIds
  <2>3. Accounted'
    BY <1>11, <1>1, <1>2, <1>3, <1>4, <1>6 DEF Accounted, Kept, Creating, OnlyWorker, Told,
      Created, Loaded, TypedIds
  <2> QED  BY <1>5, <1>7, <1>8, <1>9, <2>1, <2>2, <2>3
<1> QED  BY <1>5, <1>7, <1>8, <1>9, <1>10, <1>11

-----------------------------------------------------------------------------
(* The theorems *)

\* The three invariants hold of a service that nobody has called yet.
LEMMA InitKeeps ==
  Init => /\ SoundInv /\ AccountInv /\ CleanInv
<1> SUFFICES ASSUME Init PROVE SoundInv /\ AccountInv /\ CleanInv
  OBVIOUS
<1>1. GateInv /\ \A s \in Sessions : gate[s] = "out"
  BY GateInitInv DEF Init, GateInit, Sessions
<1>2. /\ \A s \in Sessions : row[s].status = "none" /\ row[s].project = None
      /\ \A s \in Sessions : create[s] = IdleCreate
      /\ \A k \in Workers : work[k] = IdleWork
      /\ \A x \in Projects : project[x].state = "unused" /\ project[x].of = None
  BY DEF Init
<1>3. SessionsTypeOK
  BY <1>1 DEF Init, SessionsTypeOK, GateInv, IdleCreate, IdleWork, CreatePcs, WorkPcs
<1>4. OwnIds /\ Created /\ Loaded
  BY <1>1, <1>2 DEF OwnIds, Own, Created, Loaded, IdleCreate, IdleWork
<1>5. Fresh /\ Unseen /\ Spared /\ AccountHasProject
  BY <1>2 DEF Fresh, Unseen, Spared, AccountHasProject, IdleCreate, IdleWork
<1>6. OnlyWorker /\ Told /\ Accounted
  BY <1>2, SessionsAssumption DEF OnlyWorker, Told, Accounted, IdleCreate, IdleWork
<1> QED  BY <1>1, <1>3, <1>4, <1>5, <1>6 DEF SoundInv, AccountInv, CleanInv

\* Every step keeps them.
LEMMA NextKeeps ==
  ASSUME SoundInv, [Next]_allVars
  PROVE  /\ SoundInv'
         /\ AccountPerils /\ AccountInv => AccountInv'
         /\ CleanPerils /\ CleanInv => CleanInv'
<1> DEFINE Kept3 == /\ SoundInv'
                    /\ AccountPerils /\ AccountInv => AccountInv'
                    /\ CleanPerils /\ CleanInv => CleanInv'
<1>1. GateInv'
  BY StepOfGate, GateNextInv DEF SoundInv
<1>2. ASSUME NEW s \in Sessions, Begin(s) \/ CreateStep(s) \/ AtGate(s) PROVE Kept3
  BY <1>1, <1>2, BeginKeeps, AtGateKeeps, DuplicatedKeeps, CreateUserKeeps, AwaitCopyKeeps,
    OpenProjectKeeps, GrantAccessKeeps, CommitKeeps, RollBackProjectKeeps, RollBackUserKeeps
    DEF CreateStep
<1>3. ASSUME NEW k \in Workers, WorkStep(k) PROVE Kept3
  BY <1>1, <1>3, ResetCopyKeeps, ResetGrantKeeps, ResetCommitKeeps, ResetDropKeeps,
    DeleteUserKeeps, DeleteProjectKeeps, CloseKeeps DEF WorkStep
<1>4. ASSUME NEW k \in Workers, NEW s \in Sessions, Reset(k, s) \/ Delete(k, s) PROVE Kept3
  BY <1>1, <1>4, LoadActiveKeeps DEF Reset, Delete
<1>5. CASE KeyLapses
  BY <1>1, <1>5, KeyLapsesKeeps
<1>6. ASSUME NEW r \in Replicas, Crash(r) PROVE Kept3
  BY <1>1, <1>6, CrashKeeps
<1>7. CASE UNCHANGED allVars
  <2> USE <1>7 DEF allVars, gateVars, sessionVars
  <2>1. SoundInv'
    BY DEF SoundInv, GateInv, GateTypeOK, HoldersSound, HoldsLocal, KeySound, SessionsTypeOK,
      OwnIds, Own, Created, Loaded
  <2>2. ASSUME AccountInv PROVE AccountInv'
    BY <2>1, <2>2 DEF AccountInv, Fresh, Unseen, Spared, AccountHasProject
  <2>3. ASSUME CleanInv PROVE CleanInv'
    BY <2>1, <2>3 DEF CleanInv, OnlyWorker, Told, Accounted, Kept, Creating
  <2> QED  BY <2>1, <2>2, <2>3
<1> QED  BY <1>2, <1>3, <1>4, <1>5, <1>6, <1>7 DEF Next

\* Whatever fails, crashes or overlaps, the ids that rows, creations, resets and
\* deletions keep are of projects made for their own session, so that none of
\* them ever deletes the project of somebody else.
THEOREM SessionsAlwaysSound == Spec => []SessionsSound
<1>1. Init => SoundInv
  BY InitKeeps
<1>2. SoundInv /\ [Next]_allVars => SoundInv'
  BY NextKeeps
<1>3. SoundInv => SessionsSound
  <2> SUFFICES ASSUME SoundInv PROVE SessionsSound
    OBVIOUS
  <2>1. TypedIds
    BY IdsTyped DEF SoundInv
  <2>2. ASSUME NEW k \in Workers, work[k] # IdleWork
        PROVE  /\ work[k].session # None /\ row[work[k].session].status # "none"
               /\ \A x \in {work[k].old, work[k].new} \ {None} :
                    project[x].state # "unused" /\ project[x].of = work[k].session
    <3>1. work[k].pc # "idle"
      BY <2>2 DEF SoundInv, SessionsTypeOK, Loaded, IdleWork
    <3> QED  BY <2>1, <3>1 DEF SoundInv, Loaded, OwnIds, Own, TypedIds
  <2>3. ASSUME NEW s \in Sessions
        PROVE  /\ Own(row[s].project, s) /\ Own(create[s].copy, s) /\ Own(create[s].project, s)
               /\ row[s].status # "none" => row[s].project # None
               /\ gate[s] \in {"waiting", "inside"} <=> CreateAt(s, "user") \/ CreateAt(s, "acl")
               /\ CreateAt(s, "open") \/ CreateAt(s, "commit") => create[s].project # None
    BY DEF SoundInv, OwnIds, Created, CreateAt
  <2> QED  BY <2>2, <2>3 DEF SoundInv, SessionsSound, Own
<1> QED  BY <1>1, <1>2, <1>3, PTL DEF Spec

\* As long as the deletions of GNS3 succeed and a creation does not fail after
\* its commit, an active session whose account exists has its project, through
\* resets and deletions that overlap and replicas that crash in them.
THEOREM AccountsHaveProjects ==
  ASSUME "database" \notin Perils, "cleanup" \notin Perils
  PROVE  Spec => []AccountHasProject
<1>1. Init => AccountInv
  BY InitKeeps
<1>2. AccountInv /\ [Next]_allVars => AccountInv'
  BY NextKeeps DEF AccountInv, AccountPerils
<1>3. AccountInv => AccountHasProject
  BY DEF AccountInv
<1> QED  BY <1>1, <1>2, <1>3, PTL DEF Spec

\* As long as no reset fails and the workers of a session do not overlap, what
\* the rollback was told of leaves nothing in GNS3 that the log does not have,
\* whatever call of a creation or a deletion fails and whenever a replica stops.
THEOREM NothingIsLeftBehind ==
  ASSUME "reset" \notin Perils, "overlap" \notin Perils
  PROVE  Spec => []NothingLeftBehind
<1>1. Init => CleanInv
  BY InitKeeps
<1>2. CleanInv /\ [Next]_allVars => CleanInv'
  BY NextKeeps DEF CleanInv, CleanPerils
<1>3. SessionsSound /\ CleanInv => NothingLeftBehind
  <2> SUFFICES ASSUME SessionsSound, CleanInv, NEW s \in Sessions, s \notin logged, create[s].user
               PROVE  /\ s \in account => Held(s)
                      /\ \A x \in Projects : project[x] = [state |-> "up", of |-> s] =>
                           Held(s) /\ (~Creating(s) /\ ~Working(s) => row[s].project = x)
    BY DEF NothingLeftBehind
  <2>1. s \in account => Held(s)
    BY DEF CleanInv, Accounted, Held
  <2>2. ASSUME NEW x \in Projects, project[x] = [state |-> "up", of |-> s]
        PROVE  Held(s) /\ (~Creating(s) /\ ~Working(s) => row[s].project = x)
    <3>1. Kept(s, x)
      BY <2>2 DEF CleanInv, Accounted
    <3> QED  BY <3>1 DEF Kept, Held, Creating, Working
  <2> QED  BY <2>1, <2>2
<1> QED  BY <1>1, <1>2, <1>3, SessionsAlwaysSound, PTL DEF Spec

\* Creations of all replicas write to GNS3 one at a time while Redis answers and
\* nobody outlasts a limit.
THEOREM CreationsPassOneAtATime ==
  ASSUME GatePerils \subseteq {"crash"}
  PROVE  Spec => OneAtATime
BY SessionsKeepToTheGate, GateImplementsSection, PTL
-----------------------------------------------------------------------------
(* What watchers and readers are shown of the history *)

EventPlaces == {"off", "dial", "retry", "read", "status"}
Shows(type, n, i) == stream[i] = [type |-> type, of |-> n]

EventsTyped ==
  /\ follow \in {"stream", "pages"} /\ forwarder \in EventPlaces
  /\ notices \in Seq({"updated", "made"}) /\ wire \in Seq(Nat) /\ history \in Seq(Nat)
  /\ listening \subseteq Desks /\ due \in [Desks -> SUBSET Nat]
  /\ stream \in Seq([type : {"status", "history", "degraded"}, of : Nat])
  /\ trimmed \in Nat /\ trimmed <= Len(stream)
  /\ watch \in [Watchers -> [pc : {"off", "tail", "blocked"}, last : Nat, from : Nat, shown : Seq(Nat)]]
  /\ reading \in [pc : {"off", "more", "done"}, had : Nat, cursor : Nat, got : Seq(Nat)]

\* The notices are handled in their order: what is stored comes before what is on the
\* wire, but the one whose status is about to be published.
Ordered ==
  /\ forwarder \in {"off", "dial", "retry"} => wire = <<>>
  /\ forwarder = "status" => wire # <<>>
  /\ Increasing(wire) /\ Increasing(history)
  /\ \A j \in DOMAIN wire : wire[j] <= Len(notices)
  /\ \A i \in DOMAIN history :
       /\ history[i] <= Len(notices)
       /\ \A j \in DOMAIN wire : history[i] < wire[j] \/ (forwarder = "status" /\ history[i] <= wire[j])

\* A status is published once, and before any that is still on the wire.
StatusOnce ==
  /\ \A i \in DOMAIN stream : stream[i].type = "status" =>
       stream[i].of <= Len(notices) /\ \A j \in DOMAIN wire : stream[i].of < wire[j]
  /\ \A i, j \in DOMAIN stream : stream[i].type = "status" /\ stream[i] = stream[j] => i = j

\* Every replica that was told of a row has a task for it, or has published it, or failed.
DueAt(n) == {d \in Desks : n \in due[d]}
Announced ==
  /\ \A d \in Desks : due[d] \subseteq Range(history)
  /\ \A i \in DOMAIN stream : stream[i].type = "history" => stream[i].of \in Range(history)
  /\ \A n \in Nat : Cardinality(Entries("history", n)) + Cardinality(DueAt(n)) <= Cardinality(Desks)

\* A watcher has been shown, in order, what it has read, but for what was trimmed.
Follows(h) ==
  /\ h.pc = "off" => h = Away
  /\ h.last <= Len(stream) /\ h.from <= Len(stream)
  /\ h.pc = "blocked" /\ h.last # 0 => h.from = h.last
  /\ h.last = 0 <=> h.shown = <<>>
  /\ Increasing(h.shown)
  /\ \A i \in DOMAIN h.shown : 1 <= h.shown[i] /\ h.shown[i] <= h.last
  /\ h.shown # <<>> =>
       /\ h.shown[Len(h.shown)] = h.last
       /\ \A i \in h.shown[1] .. h.last : i \in Range(h.shown) \/ i <= trimmed

\* The reader has been shown, newest first, what is not older than the cursor.
Pages ==
  LET got == reading.got IN
  /\ \A i, j \in DOMAIN got : i < j => got[i] > got[j]
  /\ reading.had <= Len(history)
  /\ reading.pc = "off" => got = <<>>
  /\ reading.pc = "more" =>
       /\ \A i \in DOMAIN got : reading.cursor <= got[i]
       /\ \A i \in 1 .. reading.had : history[i] \in Range(got) \/ history[i] < reading.cursor
  /\ reading.pc = "done" => \A i \in 1 .. reading.had : history[i] \in Range(got)

EventsInv ==
  /\ EventsTyped /\ Ordered /\ StatusOnce /\ Announced /\ Pages
  /\ \A w \in Watchers : Follows(watch[w])
-----------------------------------------------------------------------------
\* One more member of a sequence, and one less at its front.
LEMMA Grows ==
  ASSUME NEW S, NEW s \in Seq(S), NEW e \in S
  PROVE  /\ Append(s, e) \in Seq(S)
         /\ Len(s) \in Nat /\ DOMAIN s = 1 .. Len(s)
         /\ Len(Append(s, e)) = Len(s) + 1 /\ DOMAIN Append(s, e) = 1 .. (Len(s) + 1)
         /\ \A i \in 1 .. Len(s) : Append(s, e)[i] = s[i]
         /\ Append(s, e)[Len(s) + 1] = e
         /\ Range(Append(s, e)) = Range(s) \cup {e}
<1>1. /\ Append(s, e) \in Seq(S)
      /\ Len(s) \in Nat /\ DOMAIN s = 1 .. Len(s)
      /\ Len(Append(s, e)) = Len(s) + 1 /\ DOMAIN Append(s, e) = 1 .. (Len(s) + 1)
      /\ \A i \in 1 .. Len(s) : Append(s, e)[i] = s[i]
      /\ Append(s, e)[Len(s) + 1] = e
  BY AppendProperties, LenProperties
<1>2. Range(Append(s, e)) = Range(s) \cup {e} BY <1>1 DEF Range
<1> QED BY <1>1, <1>2

LEMMA Shrinks ==
  ASSUME NEW S, NEW s \in Seq(S), s # <<>>
  PROVE  /\ Head(s) = s[1] /\ s[1] \in S /\ Tail(s) \in Seq(S)
         /\ Len(s) \in Nat /\ Len(s) >= 1 /\ DOMAIN s = 1 .. Len(s)
         /\ DOMAIN Tail(s) = 1 .. (Len(s) - 1)
         /\ \A i \in 1 .. (Len(s) - 1) : Tail(s)[i] = s[i + 1] /\ i + 1 \in 1 .. Len(s)
<1>1. Len(s) \in Nat /\ Len(s) >= 1 /\ DOMAIN s = 1 .. Len(s)
  <2>1. Len(s) # 0 BY EmptySeq
  <2> QED BY <2>1, LenProperties
<1>2. Head(s) = s[1] /\ s[1] \in S BY <1>1, ElementOfSeq
<1>3. /\ Tail(s) \in Seq(S) /\ Len(Tail(s)) = Len(s) - 1
      /\ \A i \in 1 .. Len(Tail(s)) : Tail(s)[i] = s[i + 1]
  BY HeadTailProperties
<1>4. DOMAIN Tail(s) = 1 .. (Len(s) - 1) BY <1>3, LenProperties
<1> QED BY <1>1, <1>2, <1>3, <1>4

LEMMA Pairs ==
  ASSUME NEW a \in Nat, NEW b \in Nat
  PROVE  /\ Min({a, b}) = IF a <= b THEN a ELSE b
         /\ Max({a, b}) = IF a <= b THEN b ELSE a
<1>1. Min({a, b}) = IF a <= b THEN a ELSE b
  <2>1. \E x \in {a, b} : \A y \in {a, b} : x <= y OBVIOUS
  <2>2. Min({a, b}) \in {a, b} /\ \A y \in {a, b} : Min({a, b}) <= y BY <2>1 DEF Min
  <2> QED BY <2>2
<1>2. Max({a, b}) = IF a <= b THEN b ELSE a
  <2>1. \E x \in {a, b} : \A y \in {a, b} : x >= y OBVIOUS
  <2>2. Max({a, b}) \in {a, b} /\ \A y \in {a, b} : Max({a, b}) >= y BY <2>1 DEF Max
  <2> QED BY <2>2
<1> QED BY <1>1, <1>2

\* What is published is added at the end, and what is trimmed was there.
LEMMA Published ==
  ASSUME EventsTyped, NEW type \in {"status", "history", "degraded"}, NEW n \in Nat, Publish(type, n)
  PROVE  /\ stream' \in Seq([type : {"status", "history", "degraded"}, of : Nat])
         /\ trimmed' \in Nat /\ trimmed <= trimmed' /\ trimmed' <= Len(stream')
         /\ Len(stream) \in Nat /\ Len(stream') \in Nat /\ Len(stream) <= Len(stream')
         /\ DOMAIN stream = 1 .. Len(stream) /\ DOMAIN stream' = 1 .. Len(stream')
         /\ \A i \in DOMAIN stream : i \in DOMAIN stream' /\ stream'[i] = stream[i]
         /\ \/ stream' = stream
            \/ /\ Len(stream') = Len(stream) + 1
               /\ stream'[Len(stream) + 1] = [type |-> type, of |-> n]
         /\ \A i \in DOMAIN stream' :
              \/ i \in DOMAIN stream /\ stream'[i] = stream[i]
              \/ /\ i = Len(stream) + 1 /\ i \notin DOMAIN stream
                 /\ stream'[i] = [type |-> type, of |-> n] /\ stream'[i].type = type /\ stream'[i].of = n
<1> DEFINE e == [type |-> type, of |-> n]
           S == [type : {"status", "history", "degraded"}, of : Nat]
<1>1. e \in S /\ stream \in Seq(S) /\ trimmed \in Nat /\ trimmed <= Len(stream) BY DEF EventsTyped
<1>2. Len(stream) \in Nat /\ DOMAIN stream = 1 .. Len(stream) BY <1>1, LenProperties
<1> HIDE DEF S
<1>3. CASE UNCHANGED <<stream, trimmed>> BY <1>1, <1>2, <1>3 DEF S
<1>4. CASE Add(type, n)
  <2>1. stream' = Append(stream, e) BY <1>4 DEF Add
  <2> HIDE DEF e
  <2>2. /\ stream' \in Seq(S) /\ Len(stream') = Len(stream) + 1 /\ DOMAIN stream' = 1 .. (Len(stream) + 1)
        /\ \A i \in 1 .. Len(stream) : stream'[i] = stream[i]
        /\ stream'[Len(stream) + 1] = e
    BY <1>1, <2>1, Grows
  <2>3. trimmed' \in Nat /\ trimmed <= trimmed' /\ trimmed' <= Len(stream) + 1
    BY <1>1, <1>2, <1>4 DEF Add
  <2>4. e.type = type /\ e.of = n BY DEF e
  <2>5. \A i \in DOMAIN stream' :
           \/ i \in DOMAIN stream /\ stream'[i] = stream[i]
           \/ i = Len(stream) + 1 /\ i \notin DOMAIN stream /\ stream'[i] = e
    BY <1>2, <2>2
  <2> QED BY <1>2, <2>2, <2>3, <2>4, <2>5 DEF S, e
<1> QED BY <1>3, <1>4 DEF Publish

\* A handler that does nothing has still been shown what it should.
LEMMA FollowsStays ==
  ASSUME NEW h, Follows(h), h.last \in Nat, h.from \in Nat, trimmed \in Nat, trimmed' \in Nat, h.shown \in Seq(Nat),
         Len(stream) \in Nat, Len(stream') \in Nat, Len(stream) <= Len(stream'), trimmed <= trimmed'
  PROVE  Follows(h)'
<1>1. h.last <= Len(stream') /\ h.from <= Len(stream') BY DEF Follows
<1>2. ASSUME h.shown # <<>>, NEW i \in h.shown[1] .. h.last PROVE i \in Range(h.shown) \/ i <= trimmed'
  <2>1. i \in Range(h.shown) \/ i <= trimmed BY <1>2 DEF Follows
  <2>2. i \in Int BY <1>2
  <2> QED BY <2>1, <2>2
<1> QED BY <1>1, <1>2 DEF Follows

LEMMA AllFollowStill ==
  ASSUME EventsTyped, \A w \in Watchers : Follows(watch[w]), trimmed' \in Nat,
         Len(stream) \in Nat, Len(stream') \in Nat, Len(stream) <= Len(stream'), trimmed <= trimmed', UNCHANGED watch
  PROVE  \A w \in Watchers : Follows(watch[w])'
<1> SUFFICES ASSUME NEW w \in Watchers PROVE Follows(watch[w])' OBVIOUS
<1>1. PICK h : h = watch[w] OBVIOUS
<1>2. h.last \in Nat /\ h.from \in Nat /\ h.shown \in Seq(Nat) /\ trimmed \in Nat /\ Follows(h)
  BY <1>1 DEF EventsTyped
<1>3. Follows(h)' BY <1>2, FollowsStays
<1>4. watch'[w] = h BY <1>1
<1> QED BY <1>3, <1>4 DEF Follows

\* The order of what is sent and stored, when nothing is published.
LEMMA QuietStep ==
  ASSUME EventsInv, EventsTyped', Ordered', StatusOnce', Pages', UNCHANGED <<history, due, stream, trimmed>>,
         \A w \in Watchers : Follows(watch[w])'
  PROVE  EventsInv'
<1>1. Announced' BY DEF EventsInv, Announced, Entries, DueAt
<1> QED BY <1>1 DEF EventsInv

\* The parts of what a step finds.
LEMMA Found ==
  ASSUME EventsInv
  PROVE  /\ EventsTyped /\ Ordered /\ StatusOnce /\ Announced /\ Pages
         /\ \A w \in Watchers : Follows(watch[w])
         /\ Len(notices) \in Nat /\ Len(wire) \in Nat /\ DOMAIN wire = 1 .. Len(wire)
         /\ \A j \in DOMAIN wire : wire[j] \in Nat
         /\ Len(history) \in Nat /\ DOMAIN history = 1 .. Len(history)
         /\ \A i \in DOMAIN history : history[i] \in Nat
         /\ Len(stream) \in Nat /\ DOMAIN stream = 1 .. Len(stream)
         /\ \A i \in DOMAIN stream : stream[i] \in [type : {"status", "history", "degraded"}, of : Nat]
<1>1. EventsTyped BY DEF EventsInv
<1>2. notices \in Seq({"updated", "made"}) /\ wire \in Seq(Nat) /\ history \in Seq(Nat)
      /\ stream \in Seq([type : {"status", "history", "degraded"}, of : Nat])
  BY <1>1 DEF EventsTyped
<1> QED BY <1>1, <1>2, LenProperties, ElementOfSeq DEF EventsInv

\* What GNS3 sends comes after all that it has sent before.
LEMMA NotifyPart == ASSUME EventsInv, NEW kind \in {"updated", "made"}, Notify(kind) PROVE EventsInv'
<1> DEFINE n == Len(notices) + 1
<1>1. notices \in Seq({"updated", "made"}) /\ wire \in Seq(Nat) /\ n \in Nat BY Found DEF EventsTyped
<1>2. notices' \in Seq({"updated", "made"}) /\ Len(notices') = n
  <2>1. notices' = Append(notices, kind) BY DEF Notify
  <2> QED BY <1>1, <2>1, AppendProperties
<1>3. \/ wire' = wire
      \/ /\ forwarder \in {"read", "status"}
         /\ DOMAIN wire' = 1 .. (Len(wire) + 1) /\ wire'[Len(wire) + 1] = n
         /\ \A j \in 1 .. Len(wire) : wire'[j] = wire[j]
         /\ wire' \in Seq(Nat) /\ wire' # <<>>
  <2>1. wire' = wire \/ (forwarder \in {"read", "status"} /\ wire' = Append(wire, n)) BY DEF Notify
  <2>2. ASSUME wire' = Append(wire, n)
        PROVE  /\ DOMAIN wire' = 1 .. (Len(wire) + 1) /\ wire'[Len(wire) + 1] = n
               /\ \A j \in 1 .. Len(wire) : wire'[j] = wire[j]
               /\ wire' \in Seq(Nat) /\ wire' # <<>>
    <3> HIDE DEF n
    <3> QED BY <1>1, <2>2, Grows, AppendProperties
  <2> QED BY <2>1, <2>2
<1>4. UNCHANGED <<follow, forwarder, history, listening, due, stream, trimmed, watch, reading>> BY DEF Notify
<1>5. EventsTyped'
  <2>1. wire' \in Seq(Nat) BY <1>1, <1>3
  <2>2. EventsTyped BY Found
  <2> QED BY <1>2, <1>4, <2>1, <2>2 DEF EventsTyped
<1>6. n > Len(notices) /\ \A j \in DOMAIN wire : wire[j] \in Nat /\ wire[j] < n
  <2>1. \A j \in DOMAIN wire : wire[j] \in Nat /\ wire[j] <= Len(notices) BY Found DEF Ordered
  <2> QED BY <2>1, Found
<1> HIDE DEF n
<1>7. Ordered'
  <2>1. Ordered BY Found
  <2>2. \A j \in DOMAIN wire' : wire'[j] <= n
    <3>1. \A j \in DOMAIN wire' : (j \in DOMAIN wire /\ wire'[j] = wire[j]) \/ wire'[j] = n BY <1>3, Found
    <3> QED BY <1>1, <1>6, <3>1
  <2>3. Increasing(wire')
    <3>1. CASE wire' = wire BY <2>1, <3>1 DEF Ordered
    <3>2. CASE wire' # wire
      <4> SUFFICES ASSUME NEW i \in DOMAIN wire', NEW j \in DOMAIN wire', i < j PROVE wire'[i] < wire'[j]
        BY DEF Increasing
      <4>1. i \in 1 .. Len(wire) BY <1>3, <3>2, Found
      <4>2. CASE j \in 1 .. Len(wire) BY <1>3, <2>1, <3>2, <4>1, <4>2, Found DEF Ordered, Increasing
      <4>3. CASE j = Len(wire) + 1 BY <1>3, <1>6, <3>2, <4>1, <4>3, Found
      <4> QED BY <1>3, <3>2, <4>2, <4>3, Found
    <3> QED BY <3>1, <3>2
  <2>4. \A i \in DOMAIN history : history[i] <= n /\ history[i] < n
    <3>1. \A i \in DOMAIN history : history[i] \in Nat /\ history[i] <= Len(notices) BY <2>1, Found DEF Ordered
    <3> QED BY <1>1, <1>6, <3>1, Found
  <2>5. \A i \in DOMAIN history, j \in DOMAIN wire' :
          history[i] < wire'[j] \/ (forwarder = "status" /\ history[i] <= wire'[j])
    <3>1. \A i \in DOMAIN history, j \in DOMAIN wire :
            history[i] < wire[j] \/ (forwarder = "status" /\ history[i] <= wire[j])
      BY <2>1 DEF Ordered
    <3>2. \A j \in DOMAIN wire' : (j \in DOMAIN wire /\ wire'[j] = wire[j]) \/ wire'[j] = n BY <1>3, Found
    <3> QED BY <2>4, <3>1, <3>2
  <2>6. forwarder \in {"off", "dial", "retry"} => wire' = <<>> BY <1>3, <2>1 DEF Ordered
  <2>7. forwarder = "status" => wire' # <<>> BY <1>3, <2>1 DEF Ordered
  <2> QED BY <1>2, <1>4, <2>1, <2>2, <2>3, <2>4, <2>5, <2>6, <2>7 DEF Ordered
<1>8. StatusOnce'
  <2>1. StatusOnce BY Found
  <2>2. ASSUME NEW i \in DOMAIN stream, stream[i].type = "status"
        PROVE  stream[i].of <= n /\ \A j \in DOMAIN wire' : stream[i].of < wire'[j]
    <3>1. stream[i].of \in Nat /\ stream[i].of <= Len(notices) /\ \A j \in DOMAIN wire : stream[i].of < wire[j]
      BY <2>1, <2>2, Found DEF StatusOnce
    <3>2. stream[i].of < n BY <1>1, <1>6, <3>1, Found
    <3>3. \A j \in DOMAIN wire' : (j \in DOMAIN wire /\ wire'[j] = wire[j]) \/ wire'[j] = n BY <1>3, Found
    <3> QED BY <1>1, <3>1, <3>2, <3>3
  <2> QED BY <1>2, <1>4, <2>1, <2>2 DEF StatusOnce
<1>9. Pages' BY <1>4, Found DEF Pages
<1>10. \A w \in Watchers : Follows(watch[w])' BY <1>4, Found DEF Follows
<1> QED BY <1>4, <1>5, <1>7, <1>8, <1>9, <1>10, QuietStep

\* The forwarder connects, or its connection drops; and a listener does.
LEMMA ConnectionPart ==
  ASSUME EventsInv,
         Attach \/ Dial \/ ConnectionDrops \/ \E d \in Desks : ListenerDrops(d) \/ Listen(d)
  PROVE  EventsInv'
<1>1. UNCHANGED <<follow, notices, history, due, stream, trimmed, watch, reading>>
  BY DEF Attach, Dial, ConnectionDrops, ListenerDrops, Listen
<1>2. /\ EventPlaces = {"off", "dial", "retry", "read", "status"}
      /\ forwarder' \in EventPlaces
      /\ listening' \subseteq Desks
      /\ wire' = wire \/ wire' = <<>>
      /\ forwarder' \in {"off", "dial", "retry"} => wire' = <<>>
      /\ forwarder' = "status" => forwarder = "status" /\ wire' = wire
      /\ forwarder = "status" => forwarder' = "status"
  BY Found DEF Attach, Dial, ConnectionDrops, ListenerDrops, Listen, Ordered, EventsTyped, EventPlaces
<1>3. EventsTyped'
  <2>1. wire' \in Seq(Nat) BY <1>2, Found, EmptySeq DEF EventsTyped
  <2> QED BY <1>1, <1>2, <2>1, Found DEF EventsTyped
<1>4. Ordered'
  <2>1. Ordered BY Found
  <2>2. \A j \in DOMAIN wire' : j \in DOMAIN wire /\ wire'[j] = wire[j] BY <1>2
  <2>3. Increasing(wire') BY <2>1, <2>2 DEF Ordered, Increasing
  <2> QED BY <1>1, <1>2, <2>1, <2>2, <2>3 DEF Ordered
<1>5. StatusOnce'
  <2>1. \A j \in DOMAIN wire' : j \in DOMAIN wire /\ wire'[j] = wire[j] BY <1>2
  <2> QED BY <1>1, <2>1, Found DEF StatusOnce
<1>6. Pages' BY <1>1, Found DEF Pages
<1>7. \A w \in Watchers : Follows(watch[w])' BY <1>1, Found DEF Follows
<1> QED BY <1>1, <1>3, <1>4, <1>5, <1>6, <1>7, QuietStep

\* The other publications of what is not a row leave the rows' as they were.
LEMMA NotOfARow ==
  ASSUME EventsInv, NEW type \in {"status", "degraded"}, NEW n \in Nat, Publish(type, n), UNCHANGED <<history, due>>
  PROVE  Announced'
<1>1. /\ \A i \in DOMAIN stream : i \in DOMAIN stream' /\ stream'[i] = stream[i]
      /\ \A i \in DOMAIN stream' : (i \in DOMAIN stream /\ stream'[i] = stream[i]) \/ stream'[i].type = type
  <2>1. type \in {"status", "history", "degraded"} /\ EventsTyped BY Found
  <2>2. /\ \A i \in DOMAIN stream : i \in DOMAIN stream' /\ stream'[i] = stream[i]
        /\ \A i \in DOMAIN stream' :
             \/ i \in DOMAIN stream /\ stream'[i] = stream[i]
             \/ /\ i = Len(stream) + 1 /\ i \notin DOMAIN stream
                /\ stream'[i] = [type |-> type, of |-> n] /\ stream'[i].type = type /\ stream'[i].of = n
    BY <2>1, Published
  <2> QED BY <2>2
<1>2. \A i \in DOMAIN stream' : stream'[i].type = "history" => i \in DOMAIN stream /\ stream'[i] = stream[i]
  BY <1>1
<1>3. ASSUME NEW x \in Nat PROVE Entries("history", x)' = Entries("history", x)
  <2> DEFINE e == [type |-> "history", of |-> x]
  <2>1. e.type = "history" OBVIOUS
  <2> HIDE DEF e
  <2>2. {i \in DOMAIN stream' : stream'[i] = e} = {i \in DOMAIN stream : stream[i] = e} BY <1>1, <1>2, <2>1
  <2> QED BY <2>2 DEF Entries, e
<1>4. \A x \in Nat : DueAt(x)' = DueAt(x) BY DEF DueAt
<1> QED BY <1>2, <1>3, <1>4, Found DEF Announced

\* The watchers are told of a gap.
LEMMA DegradedPart == ASSUME EventsInv, Degraded PROVE EventsInv'
<1>1. /\ forwarder = "retry" /\ forwarder' = "dial" /\ Publish("degraded", 0)
      /\ UNCHANGED <<follow, notices, wire, history, listening, due, watch, reading>>
  BY DEF Degraded
<1>2. /\ stream' \in Seq([type : {"status", "history", "degraded"}, of : Nat])
      /\ trimmed' \in Nat /\ trimmed <= trimmed' /\ trimmed' <= Len(stream')
      /\ Len(stream) \in Nat /\ Len(stream') \in Nat /\ Len(stream) <= Len(stream')
      /\ \A i \in DOMAIN stream : i \in DOMAIN stream' /\ stream'[i] = stream[i]
      /\ \A i \in DOMAIN stream' : (i \in DOMAIN stream /\ stream'[i] = stream[i]) \/ stream'[i].type = "degraded"
  BY <1>1, Found, Published
<1>3. EventsTyped' BY <1>1, <1>2, Found DEF EventsTyped, EventPlaces
<1>4. Ordered' BY <1>1, Found DEF Ordered
<1>5. \A i \in DOMAIN stream' : stream'[i].type = "status" => i \in DOMAIN stream /\ stream'[i] = stream[i]
  BY <1>2
<1>6. StatusOnce' BY <1>1, <1>5, Found DEF StatusOnce
<1>7. Announced' BY <1>1, NotOfARow
<1>8. Pages' BY <1>1, Found DEF Pages
<1>9. \A w \in Watchers : Follows(watch[w])' BY <1>1, <1>2, Found, AllFollowStill
<1> QED BY <1>3, <1>4, <1>6, <1>7, <1>8, <1>9 DEF EventsInv

\* The status of the notice that has been stored is published.
LEMMA StatusPart == ASSUME EventsInv, PublishStatus PROVE EventsInv'
<1> DEFINE n == Head(wire)
<1>1. /\ forwarder = "status" /\ forwarder' = "read" /\ wire' = Tail(wire) /\ Publish("status", n)
      /\ UNCHANGED <<follow, notices, history, listening, due, watch, reading>>
  BY DEF PublishStatus
<1>2. wire # <<>> /\ wire \in Seq(Nat) BY <1>1, Found DEF Ordered, EventsTyped
<1>3. /\ n = wire[1] /\ n \in Nat /\ Tail(wire) \in Seq(Nat) /\ Len(wire) \in Nat /\ Len(wire) >= 1
      /\ DOMAIN wire = 1 .. Len(wire) /\ 1 \in DOMAIN wire
      /\ DOMAIN wire' = 1 .. (Len(wire) - 1)
      /\ \A j \in 1 .. (Len(wire) - 1) : wire'[j] = wire[j + 1] /\ j + 1 \in 1 .. Len(wire)
  BY <1>1, <1>2, Shrinks
<1> HIDE DEF n
<1>4. /\ stream' \in Seq([type : {"status", "history", "degraded"}, of : Nat])
      /\ trimmed' \in Nat /\ trimmed <= trimmed' /\ trimmed' <= Len(stream')
      /\ Len(stream) \in Nat /\ Len(stream') \in Nat /\ Len(stream) <= Len(stream')
      /\ \A i \in DOMAIN stream : i \in DOMAIN stream' /\ stream'[i] = stream[i]
      /\ \A i \in DOMAIN stream' :
           \/ i \in DOMAIN stream /\ stream'[i] = stream[i]
           \/ /\ i = Len(stream) + 1 /\ stream'[i].type = "status" /\ stream'[i].of = n
  BY <1>1, <1>3, Found, Published
<1>5. EventsTyped' BY <1>1, <1>3, <1>4, Found DEF EventsTyped, EventPlaces
<1>6. /\ \A j \in DOMAIN wire' : n < wire'[j] /\ wire'[j] <= Len(notices)
      /\ n <= Len(notices)
  <2>1. Increasing(wire) /\ \A j \in DOMAIN wire : wire[j] <= Len(notices) BY Found DEF Ordered
  <2>2. \A j \in DOMAIN wire' : 1 < j + 1 /\ j + 1 \in DOMAIN wire /\ wire'[j] = wire[j + 1] BY <1>3
  <2>3. \A k \in DOMAIN wire : 1 < k => n < wire[k] BY <1>3, <2>1 DEF Increasing
  <2> QED BY <1>3, <2>1, <2>2, <2>3
<1>7. Ordered'
  <2>1. Ordered BY Found
  <2>2. Increasing(wire')
    <3> SUFFICES ASSUME NEW i \in DOMAIN wire', NEW j \in DOMAIN wire', i < j PROVE wire'[i] < wire'[j]
      BY DEF Increasing
    <3>1. i \in Nat /\ j \in Nat BY <1>3
    <3>2. i + 1 < j + 1 BY <3>1
    <3>3. wire[i + 1] < wire[j + 1] BY <1>3, <2>1, <3>2 DEF Ordered, Increasing
    <3> QED BY <1>3, <3>3
  <2>3. ASSUME NEW i \in DOMAIN history, NEW j \in DOMAIN wire' PROVE history[i] < wire'[j]
    <3>1. history[i] < wire[1] \/ history[i] <= wire[1] BY <1>3, <2>1 DEF Ordered
    <3>2. history[i] \in Nat /\ wire'[j] \in Nat /\ n < wire'[j] BY <1>3, <1>6, Found
    <3> QED BY <1>3, <3>1, <3>2
  <2> QED BY <1>1, <1>6, <2>1, <2>2, <2>3 DEF Ordered
<1>8. StatusOnce'
  <2>1. StatusOnce BY Found
  <2>2. ASSUME NEW i \in DOMAIN stream, stream[i].type = "status"
        PROVE  /\ stream[i].of <= Len(notices) /\ stream[i].of < n
               /\ \A j \in DOMAIN wire' : stream[i].of < wire'[j]
    BY <1>3, <2>1, <2>2 DEF StatusOnce
  <2>3. ASSUME NEW i \in DOMAIN stream', stream'[i].type = "status"
        PROVE  stream'[i].of <= Len(notices) /\ \A j \in DOMAIN wire' : stream'[i].of < wire'[j]
    BY <1>4, <1>6, <2>2, <2>3
  <2>4. ASSUME NEW i \in DOMAIN stream', NEW j \in DOMAIN stream', stream'[i].type = "status", stream'[i] = stream'[j]
        PROVE  i = j
    <3>1. \A x \in DOMAIN stream : stream[x].of \in Nat BY Found
    <3>2. CASE i \in DOMAIN stream /\ j \in DOMAIN stream BY <1>4, <2>1, <2>4, <3>2 DEF StatusOnce
    <3>3. ASSUME NEW x \in DOMAIN stream, NEW y \in DOMAIN stream', y \notin DOMAIN stream
          PROVE  stream'[x] # stream'[y]
      <4>1. stream'[x] = stream[x] /\ stream'[y].type = "status" /\ stream'[y].of = n BY <1>4, <3>3
      <4>2. stream[x].type = "status" => stream[x].of \in Nat /\ stream[x].of < n BY <2>2, <3>1
      <4> QED BY <1>3, <4>1, <4>2
    <3>4. CASE i \in DOMAIN stream <=> j \notin DOMAIN stream BY <2>4, <3>3, <3>4
    <3>5. CASE i \notin DOMAIN stream /\ j \notin DOMAIN stream BY <1>4, <3>5
    <3> QED BY <3>2, <3>4, <3>5
  <2> QED BY <1>1, <2>3, <2>4 DEF StatusOnce
<1>9. Announced' BY <1>1, <1>3, NotOfARow
<1>10. Pages' BY <1>1, Found DEF Pages
<1>11. \A w \in Watchers : Follows(watch[w])' BY <1>1, <1>4, Found, AllFollowStill
<1> QED BY <1>5, <1>7, <1>8, <1>9, <1>10, <1>11 DEF EventsInv

\* How many replicas have a task for a row, and how many entries are of it.
LEMMA Counted ==
  ASSUME EventsInv, NEW n \in Nat
  PROVE  /\ IsFiniteSet(Entries("history", n)) /\ Cardinality(Entries("history", n)) \in Nat
         /\ IsFiniteSet(DueAt(n)) /\ Cardinality(DueAt(n)) \in Nat
         /\ IsFiniteSet(Desks) /\ Cardinality(Desks) \in Nat
<1>1. Entries("history", n) \subseteq 1 .. Len(stream) /\ Len(stream) \in Nat BY Found DEF Entries
<1>2. IsFiniteSet(1 .. Len(stream)) BY <1>1, FS_Interval
<1>3. IsFiniteSet(Entries("history", n)) BY <1>1, <1>2, FS_Subset
<1>4. DueAt(n) \subseteq Desks /\ IsFiniteSet(Desks) BY StreamAssumption DEF DueAt
<1>5. IsFiniteSet(DueAt(n)) BY <1>4, FS_Subset
<1> QED BY <1>3, <1>4, <1>5, FS_CardinalityType

\* A notice is stored, and those who listen are told; or it is not.
LEMMA KeepPart == ASSUME EventsInv, KeepHistory PROVE EventsInv'
<1> DEFINE n == Head(wire)
<1>1. /\ forwarder = "read" /\ wire # <<>> /\ forwarder' = After(n)
      /\ wire' = IF After(n) = "status" THEN wire ELSE Tail(wire)
      /\ \/ /\ history' = Append(history, n)
            /\ due' = [d \in Desks |-> IF d \in listening THEN due[d] \cup {n} ELSE due[d]]
         \/ UNCHANGED <<history, due>>
      /\ UNCHANGED <<follow, notices, listening, stream, trimmed, watch, reading>>
  BY DEF KeepHistory
<1>2. wire \in Seq(Nat) /\ history \in Seq(Nat) BY Found DEF EventsTyped
<1>3. /\ n = wire[1] /\ n \in Nat /\ Tail(wire) \in Seq(Nat) /\ Len(wire) \in Nat /\ Len(wire) >= 1
      /\ DOMAIN wire = 1 .. Len(wire) /\ 1 \in DOMAIN wire
      /\ DOMAIN Tail(wire) = 1 .. (Len(wire) - 1)
      /\ \A j \in 1 .. (Len(wire) - 1) : Tail(wire)[j] = wire[j + 1] /\ j + 1 \in 1 .. Len(wire)
  BY <1>1, <1>2, Shrinks
<1>4. After(n) \in {"status", "read"} BY DEF After
<1> HIDE DEF n
<1>5. /\ Increasing(wire) /\ Increasing(history)
      /\ \A j \in DOMAIN wire : wire[j] \in Nat /\ wire[j] <= Len(notices)
      /\ \A i \in DOMAIN history : history[i] \in Nat /\ history[i] <= Len(notices)
      /\ \A i \in DOMAIN history, j \in DOMAIN wire : history[i] < wire[j]
  BY <1>1, Found DEF Ordered
<1>6. /\ wire' \in Seq(Nat) /\ Increasing(wire')
      /\ \A j \in DOMAIN wire' : \E k \in DOMAIN wire : wire'[j] = wire[k]
      /\ forwarder' = "status" => wire' = wire
      /\ forwarder' = "read" => wire' = Tail(wire)
  <2>1. CASE After(n) = "status"
    <3>1. wire' = wire /\ forwarder' = "status" BY <1>1, <2>1
    <3> QED BY <1>2, <1>5, <3>1
  <2>2. CASE After(n) = "read"
    <3>1. wire' = Tail(wire) /\ forwarder' = "read" BY <1>1, <2>2
    <3>2. Increasing(Tail(wire))
      <4> SUFFICES ASSUME NEW i \in DOMAIN Tail(wire), NEW j \in DOMAIN Tail(wire), i < j
                   PROVE  Tail(wire)[i] < Tail(wire)[j]
        BY DEF Increasing
      <4>1. i \in Nat /\ j \in Nat BY <1>3
      <4>2. i + 1 < j + 1 BY <4>1
      <4>3. wire[i + 1] < wire[j + 1] BY <1>3, <1>5, <4>2 DEF Increasing
      <4> QED BY <1>3, <4>3
    <3>3. \A j \in DOMAIN Tail(wire) : \E k \in DOMAIN wire : Tail(wire)[j] = wire[k] BY <1>3
    <3> QED BY <1>3, <3>1, <3>2, <3>3
  <2> QED BY <1>4, <2>1, <2>2
<1>7. /\ \A j \in DOMAIN wire : n <= wire[j]
      /\ \A j \in DOMAIN Tail(wire) : n < Tail(wire)[j]
  <2>1. \A j \in DOMAIN wire : j = 1 \/ 1 < j BY <1>3
  <2>2. \A j \in DOMAIN wire : 1 < j => n < wire[j] BY <1>3, <1>5 DEF Increasing
  <2>3. \A j \in DOMAIN Tail(wire) : 1 < j + 1 /\ j + 1 \in DOMAIN wire BY <1>3
  <2>4. \A j \in DOMAIN wire : n <= wire[j] BY <1>3, <1>5, <2>1, <2>2
  <2> QED BY <1>3, <2>2, <2>3, <2>4
<1>8. /\ history' \in Seq(Nat)
      /\ \/ history' = history
         \/ /\ DOMAIN history' = 1 .. (Len(history) + 1) /\ history'[Len(history) + 1] = n
            /\ \A i \in 1 .. Len(history) : history'[i] = history[i]
            /\ Range(history') = Range(history) \cup {n}
            /\ Len(history') = Len(history) + 1
  <2>1. CASE history' = history BY <1>2, <2>1
  <2>2. CASE history' = Append(history, n) BY <1>2, <1>3, <2>2, Grows
  <2> QED BY <1>1, <2>1, <2>2
<1>9. \A i \in DOMAIN history' : (i \in DOMAIN history /\ history'[i] = history[i]) \/ history'[i] = n
  BY <1>8, Found
<1>10. EventsTyped'
  <2>1. due' \in [Desks -> SUBSET Nat]
    <3>1. due \in [Desks -> SUBSET Nat] BY Found DEF EventsTyped
    <3>2. CASE due' = due BY <3>1, <3>2
    <3>3. CASE due' = [d \in Desks |-> IF d \in listening THEN due[d] \cup {n} ELSE due[d]]
      BY <1>3, <3>1, <3>3
    <3> QED BY <1>1, <3>2, <3>3
  <2> QED BY <1>1, <1>4, <1>6, <1>8, <2>1, Found DEF EventsTyped, EventPlaces
<1>11. Ordered'
  <2>1. \A j \in DOMAIN wire' : wire'[j] <= Len(notices) BY <1>5, <1>6
  <2>2. Increasing(history')
    <3>1. CASE history' = history BY <1>5, <3>1
    <3>2. CASE history' # history
      <4> SUFFICES ASSUME NEW i \in DOMAIN history', NEW j \in DOMAIN history', i < j
                   PROVE  history'[i] < history'[j]
        BY DEF Increasing
      <4>1. i \in 1 .. Len(history) BY <1>8, <3>2, Found
      <4>2. CASE j \in 1 .. Len(history) BY <1>5, <1>8, <3>2, <4>1, <4>2, Found DEF Increasing
      <4>3. CASE j = Len(history) + 1
        <5>1. history[i] < n BY <1>3, <1>5, <4>1, Found
        <5> QED BY <1>8, <3>2, <4>1, <4>3, <5>1
      <4> QED BY <1>8, <3>2, <4>2, <4>3, Found
    <3> QED BY <3>1, <3>2
  <2>3. \A i \in DOMAIN history' : history'[i] <= Len(notices) BY <1>3, <1>5, <1>9
  <2>4. ASSUME NEW i \in DOMAIN history', NEW j \in DOMAIN wire'
        PROVE  history'[i] < wire'[j] \/ (forwarder' = "status" /\ history'[i] <= wire'[j])
    <3>1. CASE i \in DOMAIN history /\ history'[i] = history[i] BY <1>5, <1>6, <3>1
    <3>2. CASE history'[i] = n
      <4>1. CASE forwarder' = "status" BY <1>6, <1>7, <3>2, <4>1
      <4>2. CASE forwarder' = "read" BY <1>6, <1>7, <3>2, <4>2
      <4> QED BY <1>1, <1>4, <4>1, <4>2
    <3> QED BY <1>9, <3>1, <3>2
  <2> QED BY <1>1, <1>4, <1>6, <2>1, <2>2, <2>3, <2>4 DEF Ordered
<1>12. StatusOnce'
  <2>1. StatusOnce BY Found
  <2>2. ASSUME NEW i \in DOMAIN stream, stream[i].type = "status", NEW j \in DOMAIN wire' PROVE stream[i].of < wire'[j]
    BY <1>6, <2>1, <2>2 DEF StatusOnce
  <2> QED BY <1>1, <2>1, <2>2 DEF StatusOnce
<1>13. Announced'
  <2>1. CASE UNCHANGED <<history, due>> BY <1>1, <2>1, Found DEF Announced, Entries, DueAt
  <2>2. CASE /\ history' = Append(history, n)
             /\ due' = [d \in Desks |-> IF d \in listening THEN due[d] \cup {n} ELSE due[d]]
    <3>1. Range(history') = Range(history) \cup {n} BY <1>2, <1>3, <2>2, Grows
    <3>2. n \notin Range(history) BY <1>3, <1>5 DEF Range
    <3>3. Announced BY Found
    <3>4. \A d \in Desks : due'[d] \subseteq Range(history') BY <2>2, <3>1, <3>3 DEF Announced
    <3>5. \A i \in DOMAIN stream : stream[i].type = "history" => stream[i].of \in Range(history')
      BY <3>1, <3>3 DEF Announced
    <3>6. ASSUME NEW x \in Nat PROVE Cardinality(Entries("history", x)) + Cardinality(DueAt(x)') <= Cardinality(Desks)
      <4>1. CASE x = n
        <5>1. Entries("history", x) = {}
          <6>1. \A i \in Entries("history", x) : i \in DOMAIN stream /\ stream[i].type = "history" /\ stream[i].of = n
            BY <4>1 DEF Entries
          <6> QED BY <3>2, <3>3, <6>1 DEF Announced
        <5>2. DueAt(x)' \subseteq Desks BY DEF DueAt
        <5>3. Cardinality(DueAt(x)') <= Cardinality(Desks) /\ Cardinality(DueAt(x)') \in Nat /\ Cardinality(Desks) \in Nat
          BY <5>2, StreamAssumption, FS_Subset, FS_CardinalityType
        <5>4. Cardinality(Entries("history", x)) = 0 BY <5>1, FS_EmptySet
        <5> QED BY <5>3, <5>4
      <4>2. CASE x # n
        <5>1. DueAt(x)' = DueAt(x) BY <2>2, <4>2 DEF DueAt
        <5> QED BY <3>3, <5>1 DEF Announced
      <4> QED BY <4>1, <4>2
    <3>7. \A x \in Nat : Entries("history", x)' = Entries("history", x) BY <1>1 DEF Entries
    <3> QED BY <1>1, <3>4, <3>5, <3>6, <3>7 DEF Announced
  <2> QED BY <1>1, <2>1, <2>2
<1>14. Pages'
  <2>1. \A i \in 1 .. reading.had : i \in DOMAIN history /\ history'[i] = history[i]
    <3>1. reading.had \in Nat /\ reading.had <= Len(history) BY Found DEF EventsTyped, Pages
    <3> QED BY <1>8, <3>1, Found
  <2>2. reading.had <= Len(history')
    <3>1. reading.had \in Nat /\ reading.had <= Len(history) BY Found DEF EventsTyped, Pages
    <3> QED BY <1>8, <3>1, Found
  <2> QED BY <1>1, <2>1, <2>2, Found DEF Pages
<1>15. \A w \in Watchers : Follows(watch[w])' BY <1>1, Found DEF Follows
<1> QED BY <1>10, <1>11, <1>12, <1>13, <1>14, <1>15 DEF EventsInv

\* A replica publishes a row that it was told of.
LEMMA RowPart ==
  ASSUME EventsInv, NEW d \in Desks, NEW n \in due[d], PublishHistory(d, n)
  PROVE  EventsInv'
<1>1. /\ due' = [due EXCEPT ![d] = due[d] \ {n}] /\ Publish("history", n)
      /\ UNCHANGED <<follow, notices, wire, forwarder, history, listening, watch, reading>>
  BY DEF PublishHistory
<1>2. due \in [Desks -> SUBSET Nat] /\ n \in Nat BY Found DEF EventsTyped
<1>3. /\ stream' \in Seq([type : {"status", "history", "degraded"}, of : Nat])
      /\ trimmed' \in Nat /\ trimmed <= trimmed' /\ trimmed' <= Len(stream')
      /\ Len(stream) \in Nat /\ Len(stream') \in Nat /\ Len(stream) <= Len(stream')
      /\ \A i \in DOMAIN stream : i \in DOMAIN stream' /\ stream'[i] = stream[i]
      /\ \A i \in DOMAIN stream' :
           \/ i \in DOMAIN stream /\ stream'[i] = stream[i]
           \/ /\ i = Len(stream) + 1 /\ i \notin DOMAIN stream
              /\ stream'[i] = [type |-> "history", of |-> n]
              /\ stream'[i].type = "history" /\ stream'[i].of = n
  <2>1. "history" \in {"status", "history", "degraded"} /\ EventsTyped BY Found
  <2> QED BY <1>1, <1>2, <2>1, Published
<1>4. EventsTyped'
  <2>1. due' \in [Desks -> SUBSET Nat] BY <1>1, <1>2
  <2> QED BY <1>1, <1>3, <2>1, Found DEF EventsTyped
<1>5. Ordered' BY <1>1, Found DEF Ordered
<1>6. StatusOnce'
  <2>1. \A i \in DOMAIN stream' : stream'[i].type = "status" => i \in DOMAIN stream /\ stream'[i] = stream[i]
    BY <1>3
  <2> QED BY <1>1, <2>1, Found DEF StatusOnce
<1>7. Announced'
  <2>1. Announced BY Found
  <2>2. n \in Range(history) /\ \A x \in Desks : due'[x] \subseteq Range(history) BY <1>1, <1>2, <2>1 DEF Announced
  <2>3. \A i \in DOMAIN stream' : stream'[i].type = "history" => stream'[i].of \in Range(history)
    BY <1>3, <2>1, <2>2 DEF Announced
  <2>4. ASSUME NEW x \in Nat
        PROVE  Cardinality(Entries("history", x)') + Cardinality(DueAt(x)') <= Cardinality(Desks)
    <3> DEFINE e == [type |-> "history", of |-> x]
    <3>1. /\ IsFiniteSet(Entries("history", x)) /\ Cardinality(Entries("history", x)) \in Nat
          /\ IsFiniteSet(DueAt(x)) /\ Cardinality(DueAt(x)) \in Nat /\ Cardinality(Desks) \in Nat
          /\ Cardinality(Entries("history", x)) + Cardinality(DueAt(x)) <= Cardinality(Desks)
      BY <2>1, Counted DEF Announced
    <3>2. e.type = "history" /\ e.of = x /\ Entries("history", x) = {i \in DOMAIN stream : stream[i] = e}
          /\ Entries("history", x)' = {i \in DOMAIN stream' : stream'[i] = e}
      BY DEF Entries
    <3> HIDE DEF e
    <3>3. CASE x # n
      <4>1. Entries("history", x)' = Entries("history", x) BY <1>3, <3>2, <3>3
      <4>2. DueAt(x)' = DueAt(x) BY <1>1, <1>2, <3>3 DEF DueAt
      <4> QED BY <3>1, <4>1, <4>2
    <3>4. CASE x = n
      <4>1. PICK old, new : old = Entries("history", x) /\ new = Entries("history", x)' OBVIOUS
      <4>2. new = old \/ new = old \cup {Len(stream) + 1}
        <5>1. old \subseteq new BY <1>3, <3>2, <4>1
        <5>2. \A i \in new : i \in old \/ i = Len(stream) + 1 BY <1>3, <3>2, <4>1
        <5> QED BY <5>1, <5>2
      <4>3. Cardinality(new) \in Nat /\ Cardinality(new) <= Cardinality(old) + 1
        <5>1. IsFiniteSet(old) /\ Cardinality(old) \in Nat BY <3>1, <4>1
        <5>2. Cardinality(old \cup {Len(stream) + 1}) =
                IF Len(stream) + 1 \in old THEN Cardinality(old) ELSE Cardinality(old) + 1
          BY <5>1, FS_AddElement
        <5>3. CASE new = old BY <5>1, <5>3
        <5>4. CASE new = old \cup {Len(stream) + 1} BY <5>1, <5>2, <5>4
        <5> QED BY <4>2, <5>3, <5>4
      <4>4. DueAt(x)' = DueAt(x) \ {d} /\ d \in DueAt(x) BY <1>1, <1>2, <3>4 DEF DueAt
      <4>5. Cardinality(DueAt(x)') = Cardinality(DueAt(x)) - 1 BY <3>1, <4>4, FS_RemoveElement
      <4> QED BY <3>1, <4>1, <4>3, <4>5
    <3> QED BY <3>3, <3>4
  <2> QED BY <1>1, <2>2, <2>3, <2>4 DEF Announced
<1>8. Pages' BY <1>1, Found DEF Pages
<1>9. \A w \in Watchers : Follows(watch[w])' BY <1>1, <1>3, Found, AllFollowStill
<1> QED BY <1>4, <1>5, <1>6, <1>7, <1>8, <1>9 DEF EventsInv

\* A handler of a watcher moves; the first one has the forwarder started.
WatchRecords == [pc : {"off", "tail", "blocked"}, last : Nat, from : Nat, shown : Seq(Nat)]
LEMMA HandlerMoves ==
  ASSUME EventsInv, NEW w \in Watchers, NEW h \in WatchRecords, Follows(h), watch' = [watch EXCEPT ![w] = h],
         forwarder' = forwarder \/ (forwarder = "off" /\ forwarder' = "dial"),
         UNCHANGED <<follow, notices, wire, history, listening, due, stream, trimmed, reading>>
  PROVE  EventsInv'
<1>1. watch \in [Watchers -> WatchRecords] BY Found DEF EventsTyped, WatchRecords
<1>2. watch'[w] = h /\ (\A x \in Watchers : x # w => watch'[x] = watch[x]) /\ watch' \in [Watchers -> WatchRecords]
  BY <1>1
<1>3. EventsTyped' BY <1>2, Found DEF EventsTyped, EventPlaces, WatchRecords
<1>4. Ordered' BY Found DEF Ordered
<1>5. StatusOnce' BY Found DEF StatusOnce
<1>6. Pages' BY Found DEF Pages
<1>7. ASSUME NEW x \in Watchers PROVE Follows(watch[x])'
  <2>1. CASE x = w BY <1>2, <2>1 DEF Follows
  <2>2. CASE x # w BY <1>2, <2>2, Found DEF Follows
  <2> QED BY <2>1, <2>2
<1> QED BY <1>3, <1>4, <1>5, <1>6, <1>7, QuietStep

LEMMA WatcherPart ==
  ASSUME EventsInv, NEW w \in Watchers, Come(w) \/ Read(w) \/ ReadEnds(w) \/ Leave(w)
  PROVE  EventsInv'
<1>1. watch \in [Watchers -> WatchRecords] /\ Follows(watch[w]) /\ Len(stream) \in Nat
  BY Found DEF EventsTyped, WatchRecords
<1>2. PICK u : u = watch[w] OBVIOUS
<1>3. u \in WatchRecords /\ Follows(u) BY <1>1, <1>2
<1>4. UNCHANGED <<follow, notices, wire, history, listening, due, stream, trimmed, reading>>
  BY DEF Come, Read, ReadEnds, Leave
<1>5. CASE Come(w)
  <2> DEFINE h == [u EXCEPT !.pc = "tail"]
  <2>1. watch' = [watch EXCEPT ![w] = h] /\ u.pc = "off" BY <1>1, <1>2, <1>5 DEF Come
  <2>2. /\ h \in WatchRecords /\ h.pc = "tail" /\ h.last = u.last /\ h.from = u.from /\ h.shown = u.shown
    BY <1>3 DEF WatchRecords
  <2> HIDE DEF h
  <2>3. Follows(h) BY <1>3, <2>2 DEF Follows
  <2>4. forwarder' = forwarder \/ (forwarder = "off" /\ forwarder' = "dial") BY <1>5 DEF Come
  <2> QED BY <1>4, <2>1, <2>2, <2>3, <2>4, HandlerMoves
<1>6. CASE Read(w)
  <2> DEFINE from == ReadFrom(w)
             h == [u EXCEPT !.pc = "blocked", !.from = from]
  <2>1. watch' = [watch EXCEPT ![w] = h] /\ u.pc = "tail" BY <1>1, <1>2, <1>6 DEF Read
  <2>2. from = IF u.last = 0 THEN Len(stream) ELSE u.last BY <1>2 DEF ReadFrom
  <2> HIDE DEF from
  <2>3. from \in Nat /\ from <= Len(stream) BY <1>1, <1>3, <2>2 DEF WatchRecords, Follows
  <2>4. /\ h \in WatchRecords /\ h.pc = "blocked" /\ h.last = u.last /\ h.from = from /\ h.shown = u.shown
    BY <1>3, <2>3 DEF WatchRecords
  <2> HIDE DEF h
  <2>5. Follows(h) BY <1>3, <2>2, <2>3, <2>4 DEF Follows
  <2> QED BY <1>4, <1>6, <2>1, <2>4, <2>5, HandlerMoves DEF Read
<1>7. CASE ReadEnds(w)
  <2> DEFINE h == [u EXCEPT !.pc = "tail", !.from = 0]
  <2>1. watch' = [watch EXCEPT ![w] = h] BY <1>1, <1>2, <1>7 DEF ReadEnds
  <2>2. /\ h \in WatchRecords /\ h.pc = "tail" /\ h.last = u.last /\ h.from = 0 /\ h.shown = u.shown
    BY <1>3 DEF WatchRecords
  <2> HIDE DEF h
  <2>3. Follows(h) BY <1>1, <1>3, <2>2 DEF Follows
  <2> QED BY <1>4, <1>7, <2>1, <2>2, <2>3, HandlerMoves DEF ReadEnds
<1>8. CASE Leave(w)
  <2>1. watch' = [watch EXCEPT ![w] = Away] BY <1>8 DEF Leave
  <2>2. Away \in WatchRecords BY EmptySeq DEF Away, WatchRecords
  <2>3. Follows(Away) BY <1>1 DEF Away, Follows, Increasing
  <2> QED BY <1>4, <1>8, <2>1, <2>2, <2>3, HandlerMoves DEF Leave
<1> QED BY <1>5, <1>6, <1>7, <1>8

\* The entries since the last read are shown, but those that are gone.
LEMMA DeliverPart == ASSUME EventsInv, NEW w \in Watchers, Deliver(w) PROVE EventsInv'
<1>1. PICK u : u = watch[w] OBVIOUS
<1>2. u \in WatchRecords /\ Follows(u) /\ u.pc = "blocked" /\ Len(stream) > u.from
  BY <1>1, Found DEF EventsTyped, WatchRecords, Deliver
<1>3. Len(stream) \in Nat /\ trimmed \in Nat /\ u.from \in Nat /\ u.last \in Nat /\ u.shown \in Seq(Nat)
  BY <1>2, Found DEF EventsTyped, WatchRecords
<1> DEFINE first == Max({u.from, trimmed}) + 1
           more == [i \in 1 .. Len(stream) - first + 1 |-> first + i - 1]
           s == u.shown \o more
           h == [pc |-> "tail", last |-> Len(stream), from |-> 0, shown |-> s]
<1>4. first <= Len(stream) /\ watch' = [watch EXCEPT ![w] = h]
  BY <1>1, Found DEF Deliver, EventsTyped
<1>5. first \in Nat /\ first > u.from /\ first > trimmed /\ (first = u.from + 1 \/ first = trimmed + 1)
  <2>1. Max({u.from, trimmed}) = IF u.from <= trimmed THEN trimmed ELSE u.from BY <1>3, Pairs
  <2> QED BY <1>3, <2>1
<1> HIDE DEF first
<1>6. /\ more \in Seq(Nat) /\ Len(more) = Len(stream) - first + 1
      /\ \A i \in 1 .. (Len(stream) - first + 1) : more[i] = first + i - 1
  <2>1. Len(stream) - first + 1 \in Nat BY <1>3, <1>4, <1>5
  <2>2. \A i \in 1 .. Len(stream) - first + 1 : first + i - 1 \in Nat BY <1>3, <1>5
  <2>3. more \in [1 .. Len(stream) - first + 1 -> Nat] BY <2>2
  <2> HIDE DEF more
  <2>4. more \in Seq(Nat) BY <2>1, <2>3, IsASeq
  <2>5. DOMAIN more = 1 .. Len(stream) - first + 1 /\ Len(more) \in Nat /\ DOMAIN more = 1 .. Len(more)
    BY <2>3, <2>4, LenProperties
  <2>6. Len(more) = Len(stream) - first + 1 BY <2>1, <2>5
  <2> QED BY <2>4, <2>6 DEF more
<1> HIDE DEF more
<1> DEFINE k == Len(u.shown)
           m == Len(stream) - first + 1
<1>7. k \in Nat /\ DOMAIN u.shown = 1 .. k /\ (u.shown # <<>> <=> k >= 1) /\ m \in Nat /\ m >= 1
  <2>1. k \in Nat /\ DOMAIN u.shown = 1 .. k BY <1>3, LenProperties
  <2>2. u.shown = <<>> <=> k = 0 BY <1>3, EmptySeq
  <2> QED BY <1>3, <1>4, <1>5, <2>1, <2>2
<1>8. /\ s \in Seq(Nat) /\ Len(s) = k + m /\ DOMAIN s = 1 .. (k + m)
      /\ \A i \in 1 .. k : s[i] = u.shown[i]
      /\ \A i \in (k + 1) .. (k + m) : s[i] = first + (i - k) - 1
  <2>0. /\ s \in Seq(Nat) /\ Len(s) = k + Len(more)
        /\ \A i \in 1 .. k + Len(more) : s[i] = IF i <= k THEN u.shown[i] ELSE more[i - k]
    <3> HIDE DEF m
    <3> QED BY <1>3, <1>6, ConcatProperties
  <2>1. /\ s \in Seq(Nat) /\ Len(s) = k + m
        /\ \A i \in 1 .. k + m : s[i] = IF i <= k THEN u.shown[i] ELSE more[i - k]
    BY <1>6, <2>0
  <2>2. DOMAIN s = 1 .. (k + m) BY <2>1, LenProperties
  <2> HIDE DEF s, k, m
  <2>3. \A i \in 1 .. k : s[i] = u.shown[i] BY <1>7, <2>1
  <2>4. ASSUME NEW i \in (k + 1) .. (k + m) PROVE s[i] = first + (i - k) - 1
    <3>1. i - k \in 1 .. m /\ i \in 1 .. k + m /\ ~(i <= k) BY <1>7
    <3>2. more[i - k] = first + (i - k) - 1 BY <1>6, <3>1 DEF m
    <3> QED BY <2>1, <3>1, <3>2
  <2> QED BY <2>1, <2>2, <2>3, <2>4
<1> HIDE DEF s, k
<1>9. \A i \in 1 .. k : s[i] \in Nat /\ 1 <= s[i] /\ s[i] <= u.last
  BY <1>2, <1>3, <1>7, <1>8, ElementOfSeq DEF Follows, k
<1>10. \A i \in (k + 1) .. (k + m) : s[i] \in Nat /\ first <= s[i] /\ s[i] <= Len(stream)
  <2> SUFFICES ASSUME NEW i \in (k + 1) .. (k + m)
               PROVE  s[i] \in Nat /\ first <= s[i] /\ s[i] <= Len(stream)
    OBVIOUS
  <2>1. s[i] = first + (i - k) - 1 BY <1>8
  <2>2. i - k >= 1 /\ i - k <= Len(stream) - first + 1 /\ i - k \in Nat BY <1>3, <1>5, <1>7 DEF m
  <2> QED BY <1>3, <1>5, <2>1, <2>2
<1>11. k >= 1 => u.last < first /\ u.last # 0 /\ u.from = u.last
  BY <1>2, <1>3, <1>5, <1>7 DEF Follows
<1>12. Increasing(s)
  <2> SUFFICES ASSUME NEW i \in 1 .. (k + m), NEW j \in 1 .. (k + m), i < j PROVE s[i] < s[j]
    BY <1>8 DEF Increasing
  <2> HIDE DEF m
  <2>1. CASE j <= k
    <3>1. i \in 1 .. k /\ j \in 1 .. k BY <1>7, <2>1
    <3> QED BY <1>2, <1>7, <1>8, <3>1 DEF Follows, Increasing
  <2>2. CASE i <= k /\ j > k
    <3>1. i \in 1 .. k /\ j \in (k + 1) .. (k + m) /\ k >= 1 BY <1>7, <2>2
    <3> QED BY <1>3, <1>5, <1>9, <1>10, <1>11, <3>1
  <2>3. CASE i > k
    <3>1. i \in (k + 1) .. (k + m) /\ j \in (k + 1) .. (k + m) BY <1>7, <2>3
    <3>2. s[i] = first + (i - k) - 1 /\ s[j] = first + (j - k) - 1 BY <1>8, <3>1
    <3> QED BY <1>5, <1>7, <3>1, <3>2
  <2> QED BY <1>7, <2>1, <2>2, <2>3
<1>13. s # <<>> /\ s[Len(s)] = Len(stream)
  <2>1. k + m \in (k + 1) .. (k + m) BY <1>7
  <2>2. s[k + m] = first + ((k + m) - k) - 1 BY <1>8, <2>1
  <2>3. s # <<>> BY <1>7, <1>8
  <2> QED BY <1>3, <1>5, <1>7, <1>8, <2>2, <2>3 DEF m
<1>14. ASSUME NEW i \in s[1] .. Len(stream) PROVE i \in Range(s) \/ i <= trimmed
  <2>0. i \in Int BY <1>14
  <2>1. CASE i >= first
    <3> DEFINE j == k + (i - first) + 1
    <3>1. j \in (k + 1) .. (k + m) BY <1>3, <1>5, <1>7, <1>14, <2>0, <2>1 DEF m
    <3>3. first + (j - k) - 1 = i BY <1>5, <1>7, <2>0
    <3> HIDE DEF j, m
    <3>2. s[j] = first + (j - k) - 1 /\ j \in DOMAIN s BY <1>7, <1>8, <3>1
    <3> QED BY <3>2, <3>3 DEF Range
  <2>2. CASE i < first /\ k = 0
    <3>1. 1 \in (k + 1) .. (k + m) /\ s[1] = first + (1 - k) - 1 BY <1>7, <1>8, <2>2
    <3>2. s[1] = first BY <1>5, <2>2, <3>1
    <3> QED BY <1>5, <1>14, <2>0, <2>2, <3>2
  <2>3. CASE i < first /\ k >= 1
    <3>1. s[1] = u.shown[1] /\ u.from = u.last BY <1>7, <1>8, <1>11, <2>3
    <3>2. CASE i <= u.last
      <4>1. i \in u.shown[1] .. u.last BY <1>14, <3>1, <3>2
      <4>2. i \in Range(u.shown) \/ i <= trimmed BY <1>2, <1>7, <2>3, <4>1 DEF Follows
      <4>3. Range(u.shown) \subseteq Range(s) BY <1>7, <1>8 DEF Range
      <4> QED BY <4>2, <4>3
    <3>3. CASE i > u.last BY <1>3, <1>5, <2>0, <2>3, <3>1, <3>3
    <3> QED BY <1>3, <2>0, <3>2, <3>3
  <2> QED BY <1>5, <1>7, <2>0, <2>1, <2>2, <2>3
<1>15. \A i \in DOMAIN s : 1 <= s[i] /\ s[i] <= Len(stream)
  <2>1. \A i \in DOMAIN s : i \in 1 .. k \/ i \in (k + 1) .. (k + m) BY <1>7, <1>8
  <2>2. \A i \in 1 .. k : 1 <= s[i] /\ s[i] <= Len(stream)
    <3>1. u.last <= Len(stream) BY <1>2 DEF Follows
    <3> QED BY <1>3, <1>9, <3>1
  <2>3. \A i \in (k + 1) .. (k + m) : 1 <= s[i] /\ s[i] <= Len(stream) BY <1>3, <1>5, <1>10
  <2> QED BY <2>1, <2>2, <2>3
<1>16. h \in WatchRecords /\ h.pc = "tail" /\ h.last = Len(stream) /\ h.from = 0 /\ h.shown = s
  BY <1>3, <1>8 DEF WatchRecords
<1>17. Len(stream) # 0 BY <1>2, <1>3
<1> HIDE DEF h
<1>18. Follows(h) BY <1>3, <1>12, <1>13, <1>14, <1>15, <1>16, <1>17 DEF Follows
<1> QED BY <1>4, <1>16, <1>18, HandlerMoves DEF Deliver

\* A page goes on from where the one before has ended.
LEMMA PagePart == ASSUME EventsInv, ActivityPage PROVE EventsInv'
<1>1. UNCHANGED <<follow, notices, wire, forwarder, history, listening, due, stream, trimmed, watch>>
  BY DEF ActivityPage
<1>2. PICK older \in 0 .. Len(history) :
        /\ \A i \in DOMAIN history : i <= older <=> reading.pc = "off" \/ history[i] < reading.cursor
        /\ LET fetched == Min({FetchOneMore, older})
               page == [i \in 1 .. Min({PageLimit, fetched}) |-> history[older + 1 - i]]
           IN reading' = [pc |-> IF fetched > PageLimit THEN "more" ELSE "done",
                          had |-> IF reading.pc = "off" THEN Len(history) ELSE reading.had,
                          cursor |-> IF fetched > PageLimit THEN Last(page) ELSE 0,
                          got |-> reading.got \o page]
  BY DEF ActivityPage
<1>3. PICK L : L = Len(history) OBVIOUS
<1>4. /\ L \in Nat /\ older \in Nat /\ older <= L /\ PageLimit \in Nat /\ PageLimit >= 1
      /\ DOMAIN history = 1 .. L /\ \A i \in 1 .. L : history[i] \in Nat
      /\ history \in Seq(Nat)
  <2>1. history \in Seq(Nat) BY Found DEF EventsTyped
  <2>2. L \in Nat /\ DOMAIN history = 1 .. L /\ \A i \in 1 .. L : history[i] \in Nat BY <1>3, Found
  <2>3. older \in Nat /\ older <= L BY <1>3, <2>2
  <2>4. PageLimit \in Nat /\ PageLimit >= 1 BY StreamAssumption
  <2> QED BY <2>1, <2>2, <2>3, <2>4
<1>5. PICK old : old = reading OBVIOUS
<1>6. old \in [pc : {"off", "more", "done"}, had : Nat, cursor : Nat, got : Seq(Nat)]
  BY <1>5, Found DEF EventsTyped
<1> DEFINE fetched == Min({FetchOneMore, older})
           m == Min({PageLimit, fetched})
           page == [i \in 1 .. m |-> history[older + 1 - i]]
<1>7. fetched = (IF PageLimit + 1 <= older THEN PageLimit + 1 ELSE older)
      /\ m = (IF PageLimit + 1 <= older THEN PageLimit ELSE older)
  <2>1. fetched = IF PageLimit + 1 <= older THEN PageLimit + 1 ELSE older BY <1>4, Pairs DEF FetchOneMore
  <2> HIDE DEF fetched
  <2>2. fetched \in Nat BY <1>4, <2>1
  <2>3. m = IF PageLimit <= fetched THEN PageLimit ELSE fetched BY <1>4, <2>2, Pairs
  <2> HIDE DEF m
  <2> QED BY <1>4, <2>1, <2>3
<1>8. reading' = [pc |-> IF fetched > PageLimit THEN "more" ELSE "done",
                  had |-> IF old.pc = "off" THEN L ELSE old.had,
                  cursor |-> IF fetched > PageLimit THEN page[Len(page)] ELSE 0,
                  got |-> old.got \o page]
  BY <1>2, <1>3, <1>5 DEF Last
<1> HIDE DEF fetched, m
<1>9. m \in Nat /\ m <= older /\ (fetched > PageLimit <=> older > PageLimit) BY <1>4, <1>7
<1>10. /\ page \in Seq(Nat) /\ Len(page) = m /\ DOMAIN page = 1 .. m
       /\ \A i \in 1 .. m : page[i] = history[older + 1 - i] /\ older + 1 - i \in 1 .. older
  <2>1. \A i \in 1 .. m : older + 1 - i \in 1 .. L /\ older + 1 - i \in 1 .. older BY <1>4, <1>9
  <2>2. page \in [1 .. m -> Nat] BY <1>4, <2>1
  <2>3. \A i \in 1 .. m : page[i] = history[older + 1 - i] OBVIOUS
  <2> HIDE DEF page
  <2>4. page \in Seq(Nat) BY <1>9, <2>2, IsASeq
  <2>5. Len(page) \in Nat /\ DOMAIN page = 1 .. Len(page) BY <2>4, LenProperties
  <2>6. DOMAIN page = 1 .. m BY <2>2
  <2>7. PICK l : l = Len(page) OBVIOUS
  <2>8. l \in Nat /\ 1 .. l = 1 .. m BY <2>5, <2>6, <2>7
  <2>9. Len(page) = m BY <1>9, <2>7, <2>8
  <2> QED BY <2>1, <2>3, <2>4, <2>6, <2>9
<1> HIDE DEF page
<1>11. PICK got, k : got = old.got /\ k = Len(old.got) OBVIOUS
<1>12. got \in Seq(Nat) /\ k \in Nat /\ DOMAIN got = 1 .. k /\ \A i \in 1 .. k : got[i] \in Nat
  <2>1. old.got \in Seq(Nat) BY <1>6
  <2> QED BY <1>11, <2>1, LenProperties, ElementOfSeq
<1>13. PICK s : s = got \o page OBVIOUS
<1>14. /\ s \in Seq(Nat) /\ DOMAIN s = 1 .. (k + m)
       /\ \A i \in 1 .. k : s[i] = got[i] /\ i \in DOMAIN s
       /\ \A i \in 1 .. m : s[k + i] = page[i] /\ k + i \in DOMAIN s
  <2>0. /\ s \in Seq(Nat) /\ Len(s) = Len(got) + Len(page)
        /\ \A i \in 1 .. Len(got) + Len(page) : s[i] = IF i <= Len(got) THEN got[i] ELSE page[i - Len(got)]
    BY <1>10, <1>12, <1>13, ConcatProperties
  <2>1. /\ s \in Seq(Nat) /\ Len(s) = k + m
        /\ \A i \in 1 .. k + m : s[i] = IF i <= k THEN got[i] ELSE page[i - k]
    <3>1. Len(got) = k /\ Len(page) = m BY <1>10, <1>11
    <3> QED BY <2>0, <3>1
  <2>2. DOMAIN s = 1 .. (k + m) BY <2>1, LenProperties
  <2>3. \A i \in 1 .. k : i \in 1 .. k + m /\ i <= k BY <1>9, <1>12
  <2>4. \A i \in 1 .. m : k + i \in 1 .. k + m /\ ~(k + i <= k) /\ (k + i) - k = i BY <1>9, <1>12
  <2> QED BY <2>1, <2>2, <2>3, <2>4
<1>15. Range(got) \subseteq Range(s) /\ \A i \in 1 .. m : page[i] \in Range(s) BY <1>12, <1>14 DEF Range
<1>16. \A i, j \in 1 .. L : i < j => history[i] < history[j] BY <1>4, Found DEF Ordered, Increasing
<1>17. Pages BY Found
<1>18. ASSUME NEW i \in 1 .. older PROVE \A j \in 1 .. k : history[i] < got[j]
  <2>1. i \in DOMAIN history /\ i <= older /\ history[i] \in Nat BY <1>4
  <2>2. old.pc = "off" \/ history[i] < old.cursor BY <1>2, <1>5, <2>1
  <2>3. old.pc # "done" BY <1>5 DEF ActivityPage
  <2>4. old.pc = "off" => k = 0
    <3>1. old.pc = "off" => got = <<>> BY <1>5, <1>11, <1>17 DEF Pages
    <3> QED BY <1>12, <3>1
  <2>5. old.pc = "more" => \A j \in 1 .. k : old.cursor <= got[j] BY <1>5, <1>11, <1>12, <1>17 DEF Pages
  <2>6. CASE old.pc = "off" BY <2>4, <2>6
  <2>7. CASE old.pc = "more" BY <1>6, <1>12, <2>1, <2>2, <2>5, <2>7
  <2> QED BY <1>6, <2>3, <2>6, <2>7
<1>19. ASSUME NEW i \in 1 .. L, i > older, old.pc = "off" \/ i <= old.had PROVE history[i] \in Range(got)
  <2>1. ~(i <= older) /\ i \in DOMAIN history BY <1>4, <1>19
  <2>2. ~(old.pc = "off" \/ history[i] < old.cursor) BY <1>2, <1>5, <2>1
  <2>3. old.pc = "more" /\ i \in 1 .. old.had
    <3>1. old.pc # "done" BY <1>5 DEF ActivityPage
    <3> QED BY <1>6, <1>19, <2>2, <3>1
  <2> QED BY <1>5, <1>11, <1>17, <2>2, <2>3 DEF Pages
<1>20. PICK had : had = reading'.had OBVIOUS
<1>21. had \in Nat /\ had <= L /\ (old.pc = "off" \/ had = old.had)
  <2>1. old.had \in Nat /\ old.had <= L BY <1>3, <1>5, <1>6, <1>17 DEF Pages
  <2> QED BY <1>4, <1>8, <1>20, <2>1
<1>22. \A i, j \in 1 .. m : i < j => page[i] > page[j]
  <2> SUFFICES ASSUME NEW i \in 1 .. m, NEW j \in 1 .. m, i < j PROVE page[i] > page[j] OBVIOUS
  <2>1. older + 1 - j \in 1 .. L /\ older + 1 - i \in 1 .. L /\ older + 1 - j < older + 1 - i BY <1>4, <1>9, <1>10
  <2>2. history[older + 1 - j] < history[older + 1 - i] BY <1>16, <2>1
  <2>3. history[older + 1 - j] \in Nat /\ history[older + 1 - i] \in Nat BY <1>4, <2>1
  <2> QED BY <1>10, <2>2, <2>3
<1>23. \A i \in DOMAIN s : i \in 1 .. k \/ \E x \in 1 .. m : i = k + x
  <2> SUFFICES ASSUME NEW i \in 1 .. (k + m), ~(i \in 1 .. k) PROVE \E x \in 1 .. m : i = k + x BY <1>14
  <2>1. i - k \in 1 .. m /\ i = k + (i - k) BY <1>9, <1>12
  <2> QED BY <2>1
<1>24. \A x \in 1 .. m : page[x] \in Nat /\ \A j \in 1 .. k : page[x] < got[j]
  <2>1. \A x \in 1 .. m : older + 1 - x \in 1 .. L BY <1>4, <1>10
  <2> QED BY <1>4, <1>10, <1>18, <2>1
<1>25. \A i, j \in DOMAIN s : i < j => s[i] > s[j]
  <2> SUFFICES ASSUME NEW i \in DOMAIN s, NEW j \in DOMAIN s, i < j PROVE s[i] > s[j] OBVIOUS
  <2>1. CASE i \in 1 .. k /\ j \in 1 .. k
    <3>1. got[i] > got[j] BY <1>5, <1>11, <1>12, <1>17, <2>1 DEF Pages
    <3> QED BY <1>14, <2>1, <3>1
  <2>2. CASE i \in 1 .. k /\ \E x \in 1 .. m : j = k + x
    <3>1. PICK x \in 1 .. m : j = k + x BY <2>2
    <3>2. s[i] = got[i] /\ s[j] = page[x] /\ page[x] < got[i] BY <1>14, <1>24, <2>2, <3>1
    <3> QED BY <1>12, <1>24, <2>2, <3>2
  <2>3. CASE (\E x \in 1 .. m : i = k + x) /\ (\E x \in 1 .. m : j = k + x)
    <3>1. PICK x \in 1 .. m : i = k + x BY <2>3
    <3>2. PICK y \in 1 .. m : j = k + y BY <2>3
    <3>3. x < y BY <1>12, <3>1, <3>2
    <3> QED BY <1>14, <1>22, <3>1, <3>2, <3>3
  <2>4. ~((\E x \in 1 .. m : i = k + x) /\ j \in 1 .. k) BY <1>12
  <2> QED BY <1>23, <2>1, <2>2, <2>3, <2>4
<1>26. reading'.got = s /\ reading'.pc = (IF older > PageLimit THEN "more" ELSE "done") BY <1>8, <1>9, <1>11, <1>13
<1>27. ASSUME older > PageLimit
       PROVE  Pages' /\ reading' \in [pc : {"off", "more", "done"}, had : Nat, cursor : Nat, got : Seq(Nat)]
  <2>1. m = PageLimit BY <1>4, <1>7, <1>27
  <2>2. PICK cursor : cursor = page[m] OBVIOUS
  <2>3. reading'.cursor = cursor BY <1>8, <1>9, <1>10, <1>27, <2>2
  <2>4. m \in 1 .. m BY <1>4, <2>1
  <2>5. cursor \in Nat /\ cursor = history[older + 1 - m] BY <1>10, <1>24, <2>2, <2>4
  <2>6. \A i \in DOMAIN s : cursor <= s[i]
    <3>0. \A i \in 1 .. k : cursor < got[i] BY <1>24, <2>2, <2>4
    <3>1. \A i \in 1 .. k : cursor <= s[i] BY <1>12, <1>14, <2>5, <3>0
    <3>2. ASSUME NEW x \in 1 .. m PROVE cursor <= s[k + x]
      <4>1. CASE x = m
        <5>1. s[k + x] = cursor BY <1>14, <2>2, <4>1
        <5> QED BY <2>5, <5>1
      <4>2. CASE x < m
        <5>1. page[x] > page[m] BY <1>22, <2>4, <4>2
        <5> QED BY <1>14, <1>24, <2>2, <2>4, <5>1
      <4> QED BY <1>9, <4>1, <4>2
    <3> QED BY <1>23, <3>1, <3>2
  <2>7. ASSUME NEW i \in 1 .. had PROVE history[i] \in Range(s) \/ history[i] < cursor
    <3>0. i \in 1 .. L /\ (old.pc = "off" \/ i <= old.had) BY <1>4, <1>21
    <3>1. CASE i > older BY <1>15, <1>19, <3>0, <3>1
    <3>2. CASE i <= older /\ i >= older + 1 - m
      <4>1. older + 1 - i \in 1 .. m /\ older + 1 - (older + 1 - i) = i BY <1>4, <1>9, <3>0, <3>2
      <4>2. page[older + 1 - i] = history[i] BY <1>10, <4>1
      <4> QED BY <1>15, <4>1, <4>2
    <3>3. CASE i < older + 1 - m
      <4>1. older + 1 - m \in 1 .. L BY <1>4, <1>10, <2>4
      <4>2. history[i] < history[older + 1 - m] BY <1>16, <3>0, <3>3, <4>1
      <4> QED BY <2>5, <4>2
    <3> QED BY <1>4, <1>9, <3>0, <3>1, <3>2, <3>3
  <2>8. reading'.pc = "more" BY <1>26, <1>27
  <2>9. Pages' BY <1>1, <1>3, <1>20, <1>21, <1>25, <1>26, <2>3, <2>6, <2>7, <2>8 DEF Pages
  <2>10. reading' \in [pc : {"off", "more", "done"}, had : Nat, cursor : Nat, got : Seq(Nat)]
    BY <1>8, <1>9, <1>14, <1>20, <1>21, <1>26, <1>27, <2>3, <2>5
  <2> QED BY <2>9, <2>10
<1>28. ASSUME ~(older > PageLimit)
       PROVE  Pages' /\ reading' \in [pc : {"off", "more", "done"}, had : Nat, cursor : Nat, got : Seq(Nat)]
  <2>1. m = older BY <1>4, <1>7, <1>28
  <2>2. ASSUME NEW i \in 1 .. had PROVE history[i] \in Range(s)
    <3>0. i \in 1 .. L /\ (old.pc = "off" \/ i <= old.had) BY <1>4, <1>21
    <3>1. CASE i > older BY <1>15, <1>19, <3>0, <3>1
    <3>2. CASE i <= older
      <4>1. older + 1 - i \in 1 .. m /\ older + 1 - (older + 1 - i) = i BY <1>4, <1>9, <2>1, <3>0, <3>2
      <4>2. page[older + 1 - i] = history[i] BY <1>10, <4>1
      <4> QED BY <1>15, <4>1, <4>2
    <3> QED BY <1>4, <3>0, <3>1, <3>2
  <2>3. reading'.pc = "done" BY <1>26, <1>28
  <2>4. Pages' BY <1>1, <1>3, <1>20, <1>21, <1>25, <1>26, <2>2, <2>3 DEF Pages
  <2>5. reading' \in [pc : {"off", "more", "done"}, had : Nat, cursor : Nat, got : Seq(Nat)]
    BY <1>8, <1>9, <1>14, <1>20, <1>21, <1>26, <1>28
  <2> QED BY <2>4, <2>5
<1>29. EventsTyped' BY <1>1, <1>27, <1>28, Found DEF EventsTyped
<1>30. Ordered' /\ StatusOnce' BY <1>1, Found DEF Ordered, StatusOnce
<1>31. \A w \in Watchers : Follows(watch[w])' BY <1>1, Found DEF Follows
<1>32. Pages' BY <1>27, <1>28
<1> QED BY <1>1, <1>29, <1>30, <1>31, <1>32, QuietStep
-----------------------------------------------------------------------------
(* From the first state on *)

LEMMA EventsBegin == ASSUME StreamOfEventsInit PROVE EventsInv
<1> USE DEF StreamOfEventsInit
<1>1. Away \in WatchRecords /\ NoReader \in [pc : {"off", "more", "done"}, had : Nat, cursor : Nat, got : Seq(Nat)]
  BY EmptySeq DEF Away, NoReader, WatchRecords
<1>2. Len(stream) = 0 /\ Len(history) = 0 /\ DOMAIN stream = {} /\ DOMAIN wire = {} /\ DOMAIN history = {} BY EmptySeq
<1>3. notices \in Seq({"updated", "made"}) /\ wire \in Seq(Nat) /\ history \in Seq(Nat)
      /\ stream \in Seq([type : {"status", "history", "degraded"}, of : Nat])
  BY EmptySeq
<1>4. EventsTyped
  <2>1. due \in [Desks -> SUBSET Nat] /\ listening \subseteq Desks OBVIOUS
  <2>2. watch \in [Watchers -> WatchRecords] BY <1>1
  <2>3. trimmed = 0 /\ trimmed \in Nat /\ trimmed <= Len(stream) BY <1>2
  <2> QED BY <1>1, <1>3, <2>1, <2>2, <2>3 DEF EventsTyped, EventPlaces, WatchRecords
<1>5. Ordered BY <1>2 DEF Ordered, Increasing
<1>6. StatusOnce BY <1>2 DEF StatusOnce
<1>7. Announced
  <2>1. \A n \in Nat : Entries("history", n) = {} /\ DueAt(n) = {} BY <1>2 DEF Entries, DueAt
  <2>2. Cardinality(Desks) \in Nat BY StreamAssumption, FS_CardinalityType
  <2>3. \A n \in Nat : Cardinality(Entries("history", n)) + Cardinality(DueAt(n)) <= Cardinality(Desks)
    <3>1. Cardinality({}) = 0 BY FS_EmptySet
    <3>2. 0 + 0 <= Cardinality(Desks) BY <2>2
    <3> QED BY <2>1, <3>1, <3>2
  <2> QED BY <1>2, <2>3 DEF Announced
<1>8. Pages
  <2>1. reading.got = <<>> /\ reading.had = 0 /\ reading.pc = "off" BY DEF NoReader
  <2> QED BY <1>2, <2>1 DEF Pages
<1>9. ASSUME NEW w \in Watchers PROVE Follows(watch[w])
  <2>1. watch[w] = Away BY <1>9
  <2>2. Follows(Away) BY <1>2 DEF Away, Follows, Increasing
  <2> QED BY <2>1, <2>2
<1> QED BY <1>4, <1>5, <1>6, <1>7, <1>8, <1>9 DEF EventsInv

LEMMA EventsStay == ASSUME EventsInv, UNCHANGED eventStreamVars PROVE EventsInv'
<1> USE DEF eventStreamVars
<1>1. EventsTyped' BY Found DEF EventsTyped
<1>2. Ordered' /\ StatusOnce' BY Found DEF Ordered, StatusOnce
<1>3. Pages' BY Found DEF Pages
<1>4. \A w \in Watchers : Follows(watch[w])' BY Found DEF Follows
<1> QED BY <1>1, <1>2, <1>3, <1>4, QuietStep

LEMMA EventsGoOn == ASSUME EventsInv, [StreamOfEventsNext]_eventStreamVars PROVE EventsInv'
<1>1. ASSUME NEW kind \in {"updated", "made"}, Notify(kind) PROVE EventsInv' BY <1>1, NotifyPart
<1>2. ASSUME Attach \/ Dial \/ ConnectionDrops \/ \E d \in Desks : ListenerDrops(d) \/ Listen(d)
      PROVE  EventsInv'
  BY <1>2, ConnectionPart
<1>3. CASE Degraded BY <1>3, DegradedPart
<1>4. CASE KeepHistory BY <1>4, KeepPart
<1>5. CASE PublishStatus BY <1>5, StatusPart
<1>6. CASE ActivityPage BY <1>6, PagePart
<1>7. ASSUME NEW d \in Desks, NEW n \in due[d], PublishHistory(d, n) PROVE EventsInv' BY <1>7, RowPart
<1>8. ASSUME NEW w \in Watchers, Come(w) \/ Read(w) \/ ReadEnds(w) \/ Leave(w) PROVE EventsInv' BY <1>8, WatcherPart
<1>9. ASSUME NEW w \in Watchers, Deliver(w) PROVE EventsInv' BY <1>9, DeliverPart
<1>10. CASE UNCHANGED eventStreamVars BY <1>10, EventsStay
<1> QED BY <1>1, <1>2, <1>3, <1>4, <1>5, <1>6, <1>7, <1>8, <1>9, <1>10 DEF StreamOfEventsNext

\* What the invariant says to those who watch and read.
LEMMA EventsShown == ASSUME EventsInv PROVE StreamSound
<1>1. ASSUME NEW w \in Watchers
      PROVE  LET shown == watch[w].shown IN
             /\ Increasing(shown)
             /\ shown # <<>> => \A i \in shown[1] .. Last(shown) : i \in ToSet(shown) \/ i <= trimmed
  <2>1. Follows(watch[w]) BY Found
  <2> QED BY <2>1 DEF Follows, Last, ToSet, Range
<1>2. ASSUME NEW n \in DOMAIN notices
      PROVE  /\ Cardinality(Entries("status", n)) <= 1
             /\ Cardinality(Entries("history", n)) <= Cardinality(Desks)
             /\ Entries("history", n) # {} => n \in ToSet(history)
  <2>1. n \in Nat
    <3>1. notices \in Seq({"updated", "made"}) BY Found DEF EventsTyped
    <3> QED BY <3>1, LenProperties
  <2>2. Cardinality(Entries("status", n)) <= 1
    <3> DEFINE e == [type |-> "status", of |-> n]
               E == Entries("status", n)
    <3>1. e.type = "status" /\ E = {i \in DOMAIN stream : stream[i] = e} BY DEF Entries
    <3> HIDE DEF e, E
    <3>2. \A i, j \in E : i = j BY <3>1, Found DEF StatusOnce
    <3>3. CASE E = {} BY <3>3, FS_EmptySet DEF E
    <3>4. CASE E # {}
      <4>1. PICK i : E = {i} BY <3>2, <3>4
      <4>2. Cardinality(E) = 1 BY <4>1, FS_Singleton
      <4> QED BY <4>2 DEF E
    <3> QED BY <3>3, <3>4
  <2>3. Cardinality(Entries("history", n)) <= Cardinality(Desks)
    <3>1. Cardinality(Entries("history", n)) + Cardinality(DueAt(n)) <= Cardinality(Desks)
      BY <2>1, Found DEF Announced
    <3> QED BY <2>1, <3>1, Counted
  <2>4. ASSUME NEW i \in Entries("history", n) PROVE n \in ToSet(history)
    <3>1. i \in DOMAIN stream /\ stream[i].type = "history" /\ stream[i].of = n BY DEF Entries
    <3>2. n \in Range(history) BY <3>1, Found DEF Announced
    <3> QED BY <3>2 DEF ToSet, Range
  <2> QED BY <2>2, <2>3, <2>4
<1>3. Increasing(Reverse(reading.got))
  <2>1. PICK got, k : got = reading.got /\ k = Len(reading.got) OBVIOUS
  <2>2. got \in Seq(Nat) /\ k \in Nat /\ DOMAIN got = 1 .. k /\ \A i \in 1 .. k : got[i] \in Nat
    <3>1. reading.got \in Seq(Nat) BY Found DEF EventsTyped
    <3> QED BY <2>1, <3>1, LenProperties, ElementOfSeq
  <2>3. Reverse(got) = [i \in 1 .. k |-> got[k - i + 1]] BY <2>1 DEF Reverse
  <2>4. \A i, j \in 1 .. k : i < j => got[i] > got[j] BY <2>1, <2>2, Found DEF Pages
  <2>5. ASSUME NEW i \in 1 .. k, NEW j \in 1 .. k, i < j PROVE got[k - i + 1] < got[k - j + 1]
    <3>1. k - j + 1 \in 1 .. k /\ k - i + 1 \in 1 .. k /\ k - j + 1 < k - i + 1 BY <2>2, <2>5
    <3> QED BY <2>2, <2>4, <3>1
  <2> QED BY <2>1, <2>3, <2>5 DEF Increasing
<1>4. reading.pc = "done" => \A i \in 1 .. reading.had : history[i] \in ToSet(reading.got)
  BY Found DEF Pages, ToSet, Range
<1> QED BY <1>1, <1>2, <1>3, <1>4 DEF StreamSound

\* A watcher of a lab is shown the entries of its stream once each and in their order, with
\* none left out but what the stream has let go of, a status is published once and a row by
\* each replica at most once and only after it is stored, and the pages of the activity repeat
\* nothing and leave no row out, whatever replicas, watchers, limits and faults there are
\* (events_broker.py, history_listener_pg.py, routers/ws.py, routers/history.py).
THEOREM StreamAlwaysSound == StreamOfEventsSpec => []StreamSound
<1>1. StreamOfEventsInit => EventsInv BY EventsBegin
<1>2. EventsInv /\ [StreamOfEventsNext]_eventStreamVars => EventsInv' BY EventsGoOn
<1>3. EventsInv => StreamSound BY EventsShown
<1> QED BY <1>1, <1>2, <1>3, PTL DEF StreamOfEventsSpec
=============================================================================
