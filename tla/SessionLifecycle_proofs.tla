----------------------- MODULE SessionLifecycle_proofs -----------------------
(***************************************************************************)
(* Theorems about SessionLifecycle for every number of learners, labs,     *)
(* rows, concurrent requests and restarts, and every set of perils.        *)
(***************************************************************************)
EXTENDS SessionLifecycle, SequenceTheorems, FiniteSetTheorems, TLAPS

-----------------------------------------------------------------------------
(* The actions on the Redis keys preserve their types *)

\* A counter that is decremented stays a natural number.
LEMMA DecrementedNat ==
  ASSUME NEW n \in Nat
  PROVE  Decremented(n) \in Nat /\ Decremented(n) <= n /\ n - 1 <= Decremented(n)
BY DEF Decremented

\* Taking a user out of a waiting list leaves a waiting list.
LEMMA WithoutType ==
  ASSUME NEW q \in Seq(Users), NEW u
  PROVE  Without(q, u) \in Seq(Users)
<1>1. CASE ~Contains(q, u)
  BY <1>1 DEF Without
<1>2. CASE Contains(q, u)
  <2> DEFINE i == CHOOSE j \in 1 .. Len(q) : q[j] = u
  <2>1. i \in 1 .. Len(q)
    BY <1>2 DEF Contains
  <2> HIDE DEF i
  <2>2. \A j \in 1 .. Len(q) : q[j] \in Users
    BY ElementOfSeq
  <2>3. Len(q) \in Nat
    BY LenProperties
  <2>4. SubSeq(q, 1, i - 1) \in Seq(Users)
    <3>1. \A j \in 1 .. (i - 1) : q[j] \in Users
      BY <2>1, <2>2, <2>3
    <3> QED  BY <3>1, <2>1, SubSeqProperties
  <2>5. SubSeq(q, i + 1, Len(q)) \in Seq(Users)
    <3>1. \A j \in (i + 1) .. Len(q) : q[j] \in Users
      BY <2>1, <2>2, <2>3
    <3> QED  BY <3>1, <2>1, <2>3, SubSeqProperties
  <2>6. RemoveAt(q, i) \in Seq(Users)
    BY <2>4, <2>5, ConcatProperties DEF RemoveAt
  <2> QED  BY <1>2, <2>6 DEF Without, i
<1> QED  BY <1>1, <1>2

\* The keys are well typed when Redis is empty.
LEMMA QueueInitType == QueueInit => QueueTypeOK
BY EmptySeq DEF QueueInit, QueueTypeOK

\* Each script leaves the keys well typed.
LEMMA QueueStepType ==
  ASSUME QueueTypeOK, NEW l \in Labs,
         \/ AcquireSlot(l)
         \/ RejectSlot(l)
         \/ ReleaseSlot(l)
         \/ \E u \in Users : Enqueue(u, l) \/ Dequeue(u, l)
         \/ ExpireQueue(l)
         \/ ExpireLabCounter(l)
         \/ ExpireTotalCounter
  PROVE  QueueTypeOK'
<1> USE DEF QueueTypeOK, queueVars, counterVars
<1>1. CASE AcquireSlot(l)
  BY <1>1 DEF AcquireSlot
<1>2. CASE RejectSlot(l)
  BY <1>2 DEF RejectSlot
<1>3. CASE ReleaseSlot(l)
  BY <1>3, DecrementedNat DEF ReleaseSlot
<1>4. ASSUME NEW u \in Users, Enqueue(u, l) PROVE QueueTypeOK'
  <2>1. Append(queue[l], u) \in Seq(Users)
    OBVIOUS
  <2> QED  BY <1>4, <2>1 DEF Enqueue
<1>5. ASSUME NEW u \in Users, Dequeue(u, l) PROVE QueueTypeOK'
  <2>1. Without(queue[l], u) \in Seq(Users)
    BY WithoutType
  <2> QED  BY <1>5, <2>1 DEF Dequeue
<1>6. CASE ExpireQueue(l)
  BY <1>6, EmptySeq DEF ExpireQueue
<1>7. CASE ExpireLabCounter(l)
  BY <1>7 DEF ExpireLabCounter
<1>8. CASE ExpireTotalCounter
  BY <1>8 DEF ExpireTotalCounter
<1> QED  BY <1>1, <1>2, <1>3, <1>4, <1>5, <1>6, <1>7, <1>8

-----------------------------------------------------------------------------
(* Type correctness *)

\* Moving a launcher on, or letting it leave, keeps the launchers well typed.
LEMMA LaunchMoves ==
  ASSUME launch \in [Launchers -> LaunchStates], NEW p \in Launchers, NEW pc \in LaunchPcs,
         LaunchTo(p, pc) \/ Leave(p) \/ launch' = [launch EXCEPT ![p] = IdleLaunch]
  PROVE  launch' \in [Launchers -> LaunchStates]
<1>1. IdleLaunch \in LaunchStates
  BY DEF IdleLaunch, LaunchStates, LaunchPcs
<1>2. CASE LaunchTo(p, pc)
  BY <1>2 DEF LaunchTo, LaunchStates
<1>3. CASE Leave(p)
  <2>1. [launch[p] EXCEPT !.pc = "release", !.row = None] \in LaunchStates
    BY DEF LaunchStates, LaunchPcs
  <2> QED  BY <1>1, <1>3, <2>1 DEF Leave
<1> QED  BY <1>1, <1>2, <1>3

\* So does moving a closer on.
LEMMA CloseMoves ==
  ASSUME close \in [Closers -> CloseStates], NEW e \in Closers, NEW pc \in ClosePcs,
         CloseTo(e, pc) \/ close' = [close EXCEPT ![e] = IdleClose]
  PROVE  close' \in [Closers -> CloseStates]
<1>1. IdleClose \in CloseStates
  BY DEF IdleClose, CloseStates, ClosePcs
<1>2. CASE CloseTo(e, pc)
  BY <1>2 DEF CloseTo, CloseStates
<1> QED  BY <1>1, <1>2

\* The initial state is well typed.
LEMMA InitType == Init => TypeOK
<1> SUFFICES ASSUME Init PROVE TypeOK
  OBVIOUS
<1>1. QueueTypeOK
  BY QueueInitType DEF Init
<1> QED
  BY <1>1, LifecycleAssumption
  DEF Init, TypeOK, NoRow, IdleLaunch, IdleClose, RowStates, LaunchStates, CloseStates,
      Statuses, LaunchPcs, ClosePcs

\* A step of a launch keeps the types.
LEMMA LaunchStepType ==
  ASSUME TypeOK, LaunchesSound, NEW p \in Launchers, LaunchStep(p)
  PROVE  TypeOK'
<1> USE DEF TypeOK
<1> DEFINE l == launch[p].lab
           r == launch[p].row
<1>1. launch[p].pc # "idle" => launch[p].user \in Users /\ l \in Labs
  BY DEF LaunchesSound
<1>3. CASE TryAcquire(p)
  <2>1. QueueTypeOK'
    BY <1>1, <1>3, QueueStepType DEF TryAcquire, LaunchAt
  <2>2. launch' \in [Launchers -> LaunchStates]
    BY <1>3, LaunchMoves DEF TryAcquire, LaunchPcs
  <2> QED  BY <1>3, <2>1, <2>2 DEF TryAcquire
<1>4. CASE LeaveQueue(p)
  <2>1. QueueTypeOK'
    BY <1>1, <1>4, QueueStepType DEF LeaveQueue, LaunchAt, queueVars, QueueTypeOK
  <2>2. launch' \in [Launchers -> LaunchStates]
    BY <1>4, LaunchMoves DEF LeaveQueue, LaunchPcs
  <2> QED  BY <1>4, <2>1, <2>2 DEF LeaveQueue
<1>5. CASE JoinQueue(p)
  <2>1. QueueTypeOK'
    BY <1>1, <1>5, QueueStepType DEF JoinQueue, LaunchAt
  <2>2. launch' \in [Launchers -> LaunchStates]
    BY <1>5, LaunchMoves DEF JoinQueue, LaunchPcs
  <2> QED  BY <1>5, <2>1, <2>2 DEF JoinQueue
<1>6. CASE InsertRow(p)
  <2>1. QueueTypeOK'
    BY <1>6 DEF InsertRow, queueVars, QueueTypeOK
  <2>2. CASE Leave(p) /\ UNCHANGED rows
    BY <1>6, <2>1, <2>2, LaunchMoves DEF InsertRow, LaunchPcs
  <2>3. ASSUME NEW x \in Rows, NEW u \in Users,
               rows' = [rows EXCEPT ![x] = [status |-> "provisioning", ended |-> FALSE,
                                            user |-> u, lab |-> l, sid |-> FALSE]],
               launch' = [launch EXCEPT ![p].pc = "provision", ![p].row = x]
        PROVE  rows' \in [Rows -> RowStates] /\ launch' \in [Launchers -> LaunchStates]
    <3>1. [status |-> "provisioning", ended |-> FALSE, user |-> u, lab |-> l, sid |-> FALSE]
            \in RowStates
      BY DEF RowStates, LaunchStates, Statuses, Live
    <3>2. [launch[p] EXCEPT !.pc = "provision", !.row = x] \in LaunchStates
      BY DEF LaunchStates, LaunchPcs
    <3> QED  BY <2>3, <3>1, <3>2
  <2> QED  BY <1>1, <1>6, <2>1, <2>2, <2>3 DEF InsertRow, LaunchAt
<1>7. CASE FinalizeActive(p)
  <2>1. QueueTypeOK'
    BY <1>7 DEF FinalizeActive, queueVars, QueueTypeOK
  <2>2. rows' \in [Rows -> RowStates]
    <3>1. \A row \in RowStates : Finalized(row) \in RowStates
      BY DEF Finalized, RowStates, Statuses, Live
    <3> QED  BY <1>7, <3>1 DEF FinalizeActive
  <2>3. launch' \in [Launchers -> LaunchStates]
    BY <1>7, LaunchMoves DEF FinalizeActive, LaunchPcs
  <2> QED  BY <1>7, <2>1, <2>2, <2>3 DEF FinalizeActive
<1>8. CASE FinalizeError(p)
  <2>1. QueueTypeOK'
    BY <1>8 DEF FinalizeError, queueVars, QueueTypeOK
  <2>2. rows' \in [Rows -> RowStates]
    BY <1>8 DEF FinalizeError, RowStates, Statuses
  <2>3. launch' \in [Launchers -> LaunchStates]
    BY <1>8, LaunchMoves DEF FinalizeError, LaunchPcs
  <2> QED  BY <1>8, <2>1, <2>2, <2>3 DEF FinalizeError
<1>9. CASE GiveBack(p)
  <2>1. QueueTypeOK'
    BY <1>1, <1>9, QueueStepType DEF GiveBack, LaunchAt, queueVars, QueueTypeOK
  <2>2. launch' \in [Launchers -> LaunchStates]
    BY <1>9, LaunchMoves DEF GiveBack, LaunchPcs
  <2> QED  BY <1>9, <2>1, <2>2 DEF GiveBack
<1>10. CASE Lookup(p) \/ Provision(p) \/ StartNodes(p) \/ Publish(p)
  <2>1. QueueTypeOK'
    BY <1>10 DEF Lookup, Provision, StartNodes, Publish, queueVars, QueueTypeOK
  <2>2. launch' \in [Launchers -> LaunchStates]
    BY <1>10, LaunchMoves DEF Lookup, Provision, StartNodes, Publish, LaunchPcs
  <2>3. gns3' \in [Rows -> {"none", "up", "lost", "deleted"}] /\ gauge' \in [Labs -> Int]
    BY <1>10 DEF Lookup, Provision, StartNodes, Publish
  <2> QED  BY <1>10, <2>1, <2>2, <2>3 DEF Lookup, Provision, StartNodes, Publish
<1> QED  BY <1>3, <1>4, <1>5, <1>6, <1>7, <1>8, <1>9, <1>10 DEF LaunchStep

\* A row that is marked ended is a row.
LEMMA EndedIsRow ==
  \A v \in RowStates : [v EXCEPT !.status = "ended", !.ended = TRUE] \in RowStates
BY DEF RowStates, Statuses

\* A step of a closer keeps the types.
LEMMA CloseStepType ==
  ASSUME TypeOK, ClosesSound, NEW e \in Closers, CloseStep(e)
  PROVE  TypeOK'
<1> USE DEF TypeOK
<1> DEFINE r == close[e].row
<1>1. close[e].pc # "idle" => r \in Rows
  BY DEF ClosesSound, CloseStates, IdleClose
<1>2. CASE ReapReread(e) \/ StateAnswered(e) \/ MarkEnded(e) \/ Measure(e) \/ Teardown(e)
  <2>1. QueueTypeOK'
    BY <1>2 DEF ReapReread, StateAnswered, MarkEnded, Measure, Teardown, queueVars, QueueTypeOK
  <2>2. close' \in [Closers -> CloseStates]
    <3>1. CASE ReapReread(e) /\ Exists(r)
      <4>1. \A b, c \in BOOLEAN : [close[e] EXCEPT !.pc = "mark", !.ended = b, !.wasActive = c]
                                    \in CloseStates
        BY DEF CloseStates, ClosePcs
      <4>2. rows[r].ended \in BOOLEAN /\ (rows[r].status = "active") \in BOOLEAN
        BY <1>1, <3>1 DEF ReapReread, CloseAt, RowStates
      <4> QED  BY <3>1, <4>1, <4>2 DEF ReapReread
    <3>2. CASE MarkEnded(e) /\ ~close[e].ended /\ Exists(r)
      <4>1. \A b \in BOOLEAN : [close[e] EXCEPT !.pc = "measure", !.sid = b] \in CloseStates
        BY DEF CloseStates, ClosePcs
      <4>2. close[e].sid \in BOOLEAN /\ rows[r].sid \in BOOLEAN
        BY <1>1, <3>2 DEF MarkEnded, CloseAt, RowStates, CloseStates
      <4> QED  BY <3>2, <4>1, <4>2 DEF MarkEnded
    <3>3. CASE \/ ReapReread(e) /\ ~Exists(r)
               \/ MarkEnded(e) /\ (close[e].ended \/ ~Exists(r))
               \/ StateAnswered(e) \/ Measure(e) \/ Teardown(e)
      BY <3>3, CloseMoves
      DEF ReapReread, StateAnswered, MarkEnded, Measure, Teardown, ClosePcs
    <3> QED  BY <1>2, <3>1, <3>2, <3>3
  <2>3. rows' \in [Rows -> RowStates]
    <3>1. \/ UNCHANGED rows
          \/ MarkEnded(e) /\ rows' = [rows EXCEPT ![r].status = "ended", ![r].ended = TRUE]
      BY <1>2 DEF ReapReread, StateAnswered, MarkEnded, Measure, Teardown
    <3>2. CASE MarkEnded(e) /\ rows' = [rows EXCEPT ![r].status = "ended", ![r].ended = TRUE]
      <4>1. r \in Rows
        BY <1>1, <3>2 DEF MarkEnded, CloseAt
      <4> QED  BY <3>2, <4>1, EndedIsRow
    <3> QED  BY <3>1, <3>2
  <2>4. gns3' \in [Rows -> {"none", "up", "lost", "deleted"}] /\ metrics' \in [Rows -> Nat]
    BY <1>2 DEF ReapReread, StateAnswered, MarkEnded, Measure, Teardown
  <2> QED
    BY <1>2, <2>1, <2>2, <2>3, <2>4
    DEF ReapReread, StateAnswered, MarkEnded, Measure, Teardown
<1>3. CASE FreeSlot(e)
  <2>1. QueueTypeOK'
    <3>1. CASE close[e].lab \in Labs
      BY <1>3, <3>1, QueueStepType DEF FreeSlot, queueVars, QueueTypeOK
    <3>2. CASE close[e].lab \notin Labs
      BY <1>3, <3>2, DecrementedNat DEF FreeSlot, ReleaseSlot, queueVars, QueueTypeOK
    <3> QED  BY <3>1, <3>2
  <2>2. close' \in [Closers -> CloseStates]
    BY <1>3, CloseMoves DEF FreeSlot, ClosePcs
  <2>3. gauge' \in [Labs -> Int]
    <3>1. ASSUME NEW l \in Labs \cup {None}, NEW g \in [Labs -> Int]
          PROVE  [g EXCEPT ![l] = @ - 1] \in [Labs -> Int]
      <4>1. CASE l \in Labs
        BY <4>1
      <4>2. CASE l \notin Labs
        BY <4>2
      <4> QED  BY <4>1, <4>2
    <3>2. close[e].lab \in Labs \cup {None}
      BY DEF CloseStates
    <3> QED  BY <1>3, <3>1, <3>2 DEF FreeSlot
  <2> QED  BY <1>3, <2>1, <2>2, <2>3 DEF FreeSlot
<1> QED  BY <1>2, <1>3 DEF CloseStep

\* A new request, a pass of the reaper, a fault: the types are kept.
LEMMA OtherStepType ==
  ASSUME TypeOK,
         \/ \E p \in Launchers, u \in Users, l \in Labs : Ask(p, u, l)
         \/ \E e \in Closers, r \in Rows : EndAsked(e, r) \/ StateAsked(e, r)
         \/ ReapSelect
         \/ \E r \in Rows : ReapPick(r) \/ FallDue(r) \/ LoseGns3(r)
         \/ \E u \in Users : Erase(u)
         \/ Crash \/ CountersExpire \/ QueueExpires
  PROVE  TypeOK'
<1> USE DEF TypeOK
<1>a. ASSUME UNCHANGED queueVars PROVE QueueTypeOK'
  BY <1>a DEF queueVars, QueueTypeOK
<1>1. ASSUME NEW p \in Launchers, NEW u \in Users, NEW l \in Labs, Ask(p, u, l) PROVE TypeOK'
  BY <1>1, <1>a DEF Ask, LaunchStates, LaunchPcs
<1>2. ASSUME NEW e \in Closers, NEW r \in Rows, NEW pc \in ClosePcs,
             NEW kind \in {"end", "reap", "state"}, NEW sid \in BOOLEAN,
             Loaded(e, kind, r, sid, pc)
      PROVE  close' \in [Closers -> CloseStates]
  BY <1>2 DEF Loaded, CloseStates, RowStates
<1>3. ASSUME NEW e \in Closers, NEW r \in Rows, EndAsked(e, r) \/ StateAsked(e, r)
      PROVE  TypeOK'
  <2>1. rows[r].sid \in BOOLEAN
    BY DEF RowStates
  <2> QED  BY <1>2, <1>3, <1>a, <2>1 DEF EndAsked, StateAsked, FinalizeFirst, ClosePcs
<1>4. ASSUME NEW r \in Rows, ReapPick(r) PROVE TypeOK'
  BY <1>2, <1>4, <1>a, LifecycleAssumption DEF ReapPick, ClosePcs
<1>b. CASE ReapSelect
  <2>1. \A r \in Rows : rows[r].sid \in BOOLEAN
    BY DEF RowStates
  <2> QED  BY <1>a, <1>b, <2>1 DEF ReapSelect
<1>5. ASSUME NEW r \in Rows, FallDue(r) \/ LoseGns3(r) PROVE TypeOK'
  BY <1>5, <1>a DEF FallDue, LoseGns3
<1>6. ASSUME NEW u \in Users, Erase(u) PROVE TypeOK'
  BY <1>6, <1>a DEF Erase, RowStates, NoRow, Statuses
<1>7. CASE Crash
  BY <1>7, <1>a, LifecycleAssumption
  DEF Crash, LaunchStates, LaunchPcs, CloseStates, ClosePcs, IdleLaunch, IdleClose
<1>8. CASE CountersExpire \/ QueueExpires
  <2>1. QueueTypeOK'
    <3>1. ASSUME NEW l \in Labs, ExpireLabCounter(l) \/ ExpireQueue(l) PROVE QueueTypeOK'
      BY <3>1, QueueStepType
    <3>2. CASE ExpireTotalCounter
      BY <3>2 DEF ExpireTotalCounter, QueueTypeOK
    <3> QED  BY <1>8, <3>1, <3>2 DEF CountersExpire, QueueExpires
  <2> QED  BY <1>8, <2>1 DEF CountersExpire, QueueExpires
<1> QED  BY <1>1, <1>3, <1>4, <1>b, <1>5, <1>6, <1>7, <1>8

\* So every step keeps the types.
LEMMA NextType == TypeOK /\ LaunchesSound /\ ClosesSound /\ [Next]_vars => TypeOK'
<1> SUFFICES ASSUME TypeOK, LaunchesSound, ClosesSound, [Next]_vars PROVE TypeOK'
  OBVIOUS
<1>1. CASE UNCHANGED vars
  BY <1>1 DEF vars, TypeOK, queueVars, QueueTypeOK
<1>2. CASE Next
  BY <1>2, LaunchStepType, CloseStepType, OtherStepType DEF Next
<1> QED  BY <1>1, <1>2
-----------------------------------------------------------------------------
(* The history of a row *)

\* Only five handlers write the table of sessions.
LEMMA RowWriters ==
  ASSUME [Next]_vars
  PROVE  \/ UNCHANGED rows
         \/ \E p \in Launchers : InsertRow(p) \/ FinalizeActive(p) \/ FinalizeError(p)
         \/ \E e \in Closers : MarkEnded(e)
         \/ \E u \in Users : Erase(u)
BY DEF Next, vars, LaunchStep, CloseStep, TryAcquire, LeaveQueue, JoinQueue, Lookup, Provision,
       StartNodes, Publish, GiveBack, ReapReread, StateAnswered, Measure, FreeSlot, Teardown,
       Ask, EndAsked, StateAsked, ReapSelect, ReapPick, FallDue, LoseGns3, Crash,
       CountersExpire, QueueExpires

\* The row a launch makes active: the rest of it, and the other rows, stay.
LEMMA ActiveRow ==
  ASSUME TypeOK, NEW p \in Launchers, FinalizeActive(p), NEW r \in Rows
  PROVE  \/ rows'[r] = rows[r]
         \/ /\ r = launch[p].row /\ Exists(r) /\ NoTwinOf(r)
            /\ rows'[r].status = "active" /\ rows'[r].sid
            /\ rows'[r].ended = rows[r].ended
            /\ rows'[r].user = rows[r].user /\ rows'[r].lab = rows[r].lab
<1>1. Finalized(rows[r]).status = "active" /\ Finalized(rows[r]).sid
      /\ Finalized(rows[r]).ended = rows[r].ended
      /\ Finalized(rows[r]).user = rows[r].user /\ Finalized(rows[r]).lab = rows[r].lab
  BY DEF TypeOK, Finalized, RowStates
<1>2. CASE UNCHANGED rows
  BY <1>2
<1>3. CASE /\ Exists(launch[p].row) /\ NoTwinOf(launch[p].row)
           /\ rows' = [rows EXCEPT ![launch[p].row] = Finalized(@)]
  BY <1>1, <1>3 DEF TypeOK
<1> QED  BY <1>2, <1>3 DEF FinalizeActive

\* The row a closer marks as ended, likewise.
LEMMA EndedRow ==
  ASSUME TypeOK, NEW e \in Closers, MarkEnded(e), NEW r \in Rows
  PROVE  \/ rows'[r] = rows[r]
         \/ /\ r = close[e].row /\ ~close[e].ended /\ Exists(r)
            /\ rows'[r].status = "ended" /\ rows'[r].ended
            /\ rows'[r].sid = rows[r].sid
            /\ rows'[r].user = rows[r].user /\ rows'[r].lab = rows[r].lab
<1>1. \A row \in RowStates :
        LET new == [row EXCEPT !.status = "ended", !.ended = TRUE]
        IN /\ new.status = "ended" /\ new.ended /\ new.sid = row.sid
           /\ new.user = row.user /\ new.lab = row.lab
  BY DEF RowStates
<1>2. CASE UNCHANGED rows
  BY <1>2
<1>3. CASE /\ ~close[e].ended /\ Exists(close[e].row)
           /\ rows' = [rows EXCEPT ![close[e].row].status = "ended", ![close[e].row].ended = TRUE]
  <2>1. rows'[r] = IF r = close[e].row
                   THEN [rows[r] EXCEPT !.status = "ended", !.ended = TRUE] ELSE rows[r]
    BY <1>3 DEF TypeOK
  <2> QED  BY <1>1, <1>3, <2>1 DEF TypeOK
<1> QED  BY <1>2, <1>3 DEF MarkEnded

\* What each of them leaves of a row: a row once used is never unused again,
\* an erased one stays erased, an ended one stays ended and keeps its gns3 id.
RowsOnward ==
  \A r \in Rows :
    /\ rows[r].status # "none" => rows'[r].status # "none"
    /\ rows[r].status = "erased" => rows'[r].status = "erased"
    /\ rows[r].ended => \/ rows'[r].status = "erased"
                        \/ rows'[r].ended /\ (rows[r].sid => rows'[r].sid)

\* No step takes a row back in its life.
LEMMA RowsGoOnward ==
  ASSUME TypeOK, UnusedRowsSound, [Next]_vars
  PROVE  RowsOnward
<1> USE DEF TypeOK, RowsOnward
<1>1. CASE UNCHANGED rows
  BY <1>1
<1>2. ASSUME NEW p \in Launchers, InsertRow(p) PROVE RowsOnward
  BY <1>2 DEF InsertRow, UnusedRowsSound
<1>3. ASSUME NEW p \in Launchers, FinalizeActive(p) PROVE RowsOnward
  BY <1>3, ActiveRow DEF Exists
<1>4. ASSUME NEW p \in Launchers, FinalizeError(p) PROVE RowsOnward
  BY <1>4 DEF FinalizeError, Exists, RowStates
<1>5. ASSUME NEW e \in Closers, MarkEnded(e) PROVE RowsOnward
  BY <1>5, EndedRow DEF Exists
<1>6. ASSUME NEW u \in Users, Erase(u) PROVE RowsOnward
  BY <1>6 DEF Erase, NoRow
<1> QED  BY <1>1, <1>2, <1>3, <1>4, <1>5, <1>6, RowWriters

\* A row that is unused or erased has no ended_at.
LEMMA UnusedRowsStep ==
  ASSUME TypeOK, UnusedRowsSound, [Next]_vars
  PROVE  UnusedRowsSound'
<1> USE DEF TypeOK, UnusedRowsSound
<1>1. CASE UNCHANGED rows
  BY <1>1
<1>2. ASSUME NEW p \in Launchers, InsertRow(p) PROVE UnusedRowsSound'
  BY <1>2 DEF InsertRow
<1>3. ASSUME NEW p \in Launchers, FinalizeActive(p) PROVE UnusedRowsSound'
  BY <1>3, ActiveRow DEF Exists
<1>4. ASSUME NEW p \in Launchers, FinalizeError(p) PROVE UnusedRowsSound'
  BY <1>4 DEF FinalizeError
<1>5. ASSUME NEW e \in Closers, MarkEnded(e) PROVE UnusedRowsSound'
  BY <1>5, EndedRow
<1>6. ASSUME NEW u \in Users, Erase(u) PROVE UnusedRowsSound'
  BY <1>6 DEF Erase, NoRow
<1> QED  BY <1>1, <1>2, <1>3, <1>4, <1>5, <1>6, RowWriters

\* An insert finds no twin, and setting a row to active is refused if there is one.
LEMMA OneLiveStep ==
  ASSUME TypeOK, OneLivePerLab, [Next]_vars
  PROVE  OneLivePerLab'
<1> USE DEF TypeOK, OneLivePerLab
<1>1. CASE UNCHANGED rows
  BY <1>1
<1>2. ASSUME NEW p \in Launchers, InsertRow(p) PROVE OneLivePerLab'
  BY <1>2 DEF InsertRow, LiveRowsOn, LiveRows
<1>3. ASSUME NEW p \in Launchers, FinalizeActive(p) PROVE OneLivePerLab'
  <2> SUFFICES ASSUME NEW r1 \in Rows, NEW r2 \in Rows,
                      rows'[r1].status \in Live, rows'[r2].status \in Live,
                      rows'[r1].user = rows'[r2].user, rows'[r1].lab = rows'[r2].lab
               PROVE  r1 = r2
    OBVIOUS
  <2>1. CASE rows'[r1] = rows[r1] /\ rows'[r2] = rows[r2]
    BY <2>1
  <2>2. CASE rows'[r1] # rows[r1]
    BY <1>3, <2>2, ActiveRow DEF NoTwinOf, LiveRowsOn, LiveRows
  <2>3. CASE rows'[r2] # rows[r2]
    BY <1>3, <2>3, ActiveRow DEF NoTwinOf, LiveRowsOn, LiveRows
  <2> QED  BY <2>1, <2>2, <2>3
<1>4. ASSUME NEW p \in Launchers, FinalizeError(p) PROVE OneLivePerLab'
  BY <1>4 DEF FinalizeError, Live, RowStates
<1>5. ASSUME NEW e \in Closers, MarkEnded(e) PROVE OneLivePerLab'
  BY <1>5, EndedRow DEF Live
<1>6. ASSUME NEW u \in Users, Erase(u) PROVE OneLivePerLab'
  BY <1>6 DEF Erase, NoRow, Live
<1> QED  BY <1>1, <1>2, <1>3, <1>4, <1>5, <1>6, RowWriters

\* What a closer is entitled to think of its row.
Entitled(c, rs) ==
  c # IdleClose =>
    /\ c.row # None /\ rs[c.row].status # "none"
    /\ c.pc \in {"measure", "free", "teardown"} \/ c.ended =>
         rs[c.row].ended \/ rs[c.row].status = "erased"

\* A closer that does nothing stays entitled, whatever becomes of the rows.
LEMMA StaysEntitled ==
  ASSUME TypeOK, RowsOnward, NEW e \in Closers, Entitled(close[e], rows), close'[e] = close[e]
  PROVE  Entitled(close'[e], rows')
BY DEF Entitled, RowsOnward, TypeOK, CloseStates

\* A closer that loads a row that has been used is entitled to it.
LEMMA LoadedEntitled ==
  ASSUME TypeOK, NEW e \in Closers, NEW r \in Rows, NEW kind, NEW sid,
         NEW pc \in {"mark", "reread", "ask"},
         rows[r].status # "none", Loaded(e, kind, r, sid, pc), UNCHANGED rows
  PROVE  Entitled(close'[e], rows')
<1>1. r # None
  BY LifecycleAssumption
<1> QED  BY <1>1 DEF TypeOK, Loaded, Entitled

\* Each step of a closer leaves it entitled.
LEMMA CloseStepEntitled ==
  ASSUME TypeOK, RowsOnward, NEW e \in Closers, Entitled(close[e], rows), CloseStep(e)
  PROVE  Entitled(close'[e], rows')
<1> DEFINE r == close[e].row
<1> USE DEF Entitled
<1>1. /\ close[e].pc # "idle" /\ close[e] # IdleClose
      /\ r \in Rows /\ r # None /\ rows[r].status # "none"
  BY DEF CloseStep, ReapReread, StateAnswered, MarkEnded, Measure, FreeSlot, Teardown, CloseAt,
         IdleClose, TypeOK, CloseStates
<1>2. rows'[r].status # "none"
  BY <1>1 DEF RowsOnward
<1>3. CASE ReapReread(e)
  <2>1. CASE Exists(r)
    BY <1>1, <1>3, <2>1 DEF ReapReread, TypeOK, CloseStates
  <2>2. CASE ~Exists(r)
    BY <1>1, <1>3, <2>2 DEF ReapReread, Exists, CloseTo, TypeOK, CloseStates
  <2> QED  BY <2>1, <2>2
<1>4. CASE StateAnswered(e)
  BY <1>1, <1>4 DEF StateAnswered, CloseTo, TypeOK, CloseStates
<1>5. CASE MarkEnded(e)
  <2>1. CASE close[e].ended
    BY <1>1, <1>5, <2>1 DEF MarkEnded, CloseTo, TypeOK, CloseStates
  <2>2. CASE ~close[e].ended /\ Exists(r)
    <3>1. rows'[r].ended
      BY <1>1, <1>5, <2>2 DEF MarkEnded, TypeOK, RowStates
    <3>2. close'[e].row = r
      BY <1>5, <2>2 DEF MarkEnded, TypeOK, CloseStates
    <3> QED  BY <1>1, <1>2, <3>1, <3>2
  <2>3. CASE ~close[e].ended /\ ~Exists(r)
    BY <1>5, <2>3 DEF MarkEnded, TypeOK
  <2> QED  BY <2>1, <2>2, <2>3
<1>6. CASE Measure(e) \/ FreeSlot(e)
  BY <1>1, <1>6 DEF Measure, FreeSlot, CloseAt, CloseTo, TypeOK, CloseStates
<1>7. CASE Teardown(e)
  BY <1>7 DEF Teardown, TypeOK
<1> QED  BY <1>3, <1>4, <1>5, <1>6, <1>7 DEF CloseStep

\* So a closer has always ended its row, or found it ended, before it goes on.
LEMMA ClosesStep ==
  ASSUME TypeOK, ClosesSound, SelectionSound, UnusedRowsSound, [Next]_vars
  PROVE  ClosesSound'
<1>1. RowsOnward
  BY RowsGoOnward
<1>2. \A e \in Closers : Entitled(close[e], rows)
  BY DEF ClosesSound, Entitled
<1> SUFFICES ASSUME NEW e \in Closers PROVE Entitled(close'[e], rows')
  BY DEF ClosesSound, Entitled
<1>3. CASE close'[e] = close[e]
  BY <1>1, <1>2, <1>3, StaysEntitled
<1>4. CASE CloseStep(e)
  BY <1>1, <1>2, <1>4, CloseStepEntitled
<1>5. ASSUME NEW r \in Rows, EndAsked(e, r) \/ StateAsked(e, r) PROVE Entitled(close'[e], rows')
  BY <1>5, LoadedEntitled DEF EndAsked, StateAsked, FinalizeFirst, Exists
<1>6. ASSUME NEW r \in Rows, ReapPick(r), e = Reaper PROVE Entitled(close'[e], rows')
  BY <1>6, LoadedEntitled DEF ReapPick, SelectionSound
<1>7. CASE Crash
  BY <1>7 DEF Crash, Entitled
<1>8. \/ close'[e] = close[e]
      \/ CloseStep(e)
      \/ \E r \in Rows : EndAsked(e, r) \/ StateAsked(e, r) \/ (ReapPick(r) /\ e = Reaper)
      \/ Crash
  <2>1. CASE UNCHANGED close
    BY <2>1
  <2>2. CASE ~UNCHANGED close
    <3>1. \/ \E f \in Closers : CloseStep(f) \/ \E r \in Rows : EndAsked(f, r) \/ StateAsked(f, r)
          \/ \E r \in Rows : ReapPick(r)
          \/ Crash
      BY <2>2
      DEF Next, vars, LaunchStep, TryAcquire, LeaveQueue, JoinQueue, Lookup, InsertRow, Provision,
          FinalizeActive, FinalizeError, StartNodes, Publish, GiveBack, Ask, ReapSelect, FallDue,
          LoseGns3, Erase, CountersExpire, QueueExpires
    <3>2. ASSUME NEW f \in Closers, f # e, CloseStep(f) PROVE close'[e] = close[e]
      BY <3>2 DEF TypeOK, CloseStep, ReapReread, StateAnswered, MarkEnded, Measure, FreeSlot,
                  Teardown, CloseTo
    <3>3. ASSUME NEW f \in Closers, f # e, NEW r \in Rows,
                 EndAsked(f, r) \/ StateAsked(f, r) \/ (ReapPick(r) /\ f = Reaper)
          PROVE  close'[e] = close[e]
      BY <3>3 DEF TypeOK, EndAsked, StateAsked, ReapPick, Loaded
    <3>4. CASE \E f \in Closers : CloseStep(f)
      BY <3>2, <3>4
    <3>5. ASSUME NEW f \in Closers, NEW r \in Rows, EndAsked(f, r) \/ StateAsked(f, r)
          PROVE  \/ close'[e] = close[e]
                 \/ \E s \in Rows : EndAsked(e, s) \/ StateAsked(e, s)
      <4>1. CASE f = e
        BY <3>5, <4>1 DEF EndAsked, StateAsked
      <4>2. CASE f # e
        BY <3>3, <3>5, <4>2
      <4> QED  BY <4>1, <4>2
    <3>6. CASE \E r \in Rows : ReapPick(r)
      BY <3>3, <3>6, LifecycleAssumption
    <3> QED  BY <3>1, <3>4, <3>5, <3>6
  <2> QED  BY <2>1, <2>2
<1> QED  BY <1>3, <1>4, <1>5, <1>6, <1>7, <1>8

\* The reaper selects live rows, and a row that has been used stays one.
LEMMA SelectionStep ==
  ASSUME TypeOK, SelectionSound, UnusedRowsSound, [Next]_vars
  PROVE  SelectionSound'
<1>1. RowsOnward
  BY RowsGoOnward
<1>2. CASE selected' \subseteq selected
  BY <1>1, <1>2 DEF SelectionSound, RowsOnward, TypeOK
<1>3. CASE ReapSelect
  <2>1. \A r \in Rows : Overdue(r) => rows[r].status # "none"
    BY DEF Overdue, Live
  <2> QED  BY <1>3, <2>1 DEF ReapSelect, SelectionSound
<1>4. selected' \subseteq selected \/ ReapSelect
  BY DEF Next, vars, LaunchStep, CloseStep, TryAcquire, LeaveQueue, JoinQueue, Lookup, InsertRow,
         Provision, FinalizeActive, FinalizeError, StartNodes, Publish, GiveBack, ReapReread,
         StateAnswered, MarkEnded, Measure, FreeSlot, Teardown, Ask, EndAsked, StateAsked,
         ReapPick, FallDue, LoseGns3, Erase, Crash, CountersExpire, QueueExpires
<1> QED  BY <1>2, <1>3, <1>4

\* A GNS3 session is torn down for a row that has ended.
LEMMA TeardownStep ==
  ASSUME TypeOK, TeardownAfterEnd, ClosesSound, UnusedRowsSound, [Next]_vars
  PROVE  TeardownAfterEnd'
<1> USE DEF TeardownAfterEnd
<1>1. RowsOnward
  BY RowsGoOnward
<1> SUFFICES ASSUME NEW r \in Rows, gns3'[r] = "deleted"
             PROVE  rows'[r].ended \/ rows'[r].status = "erased"
  BY DEF TypeOK
<1>2. CASE gns3[r] = "deleted"
  BY <1>1, <1>2 DEF RowsOnward
<1>3. ASSUME NEW e \in Closers, Teardown(e), gns3[r] # "deleted"
      PROVE  rows'[r].ended \/ rows'[r].status = "erased"
  BY <1>3 DEF Teardown, CloseAt, ClosesSound, IdleClose, TypeOK
<1>4. gns3[r] = "deleted" \/ \E e \in Closers : Teardown(e)
  BY DEF Next, vars, LaunchStep, CloseStep, TryAcquire, LeaveQueue, JoinQueue, Lookup, InsertRow,
         Provision, FinalizeActive, FinalizeError, StartNodes, Publish, GiveBack, ReapReread,
         StateAnswered, MarkEnded, Measure, FreeSlot, Ask, EndAsked, StateAsked, ReapSelect,
         ReapPick, FallDue, LoseGns3, Erase, Crash, CountersExpire, QueueExpires, TypeOK
<1> QED  BY <1>2, <1>3, <1>4

\* What a launch is entitled to think of its learner, its lab and its row.
Aware(n, rs) ==
  /\ n.pc # "idle" => n.user \in Users /\ n.lab \in Labs
  /\ n.row # None <=> n.pc \in {"provision", "finalize", "fail", "start", "publish"}
  /\ n.row # None => rs[n.row].status # "none"
  /\ n.pc \in {"provision", "finalize"} =>
       rs[n.row].status \in {"provisioning", "erased"} \/ rs[n.row].ended

\* No two launches have the same row.
OwnRows == \A p, q \in Launchers : launch[p].row # None /\ launch[q].row = launch[p].row => p = q

\* Where a launch is after it has moved on, and after it has left.
LEMMA Moved ==
  ASSUME TypeOK, NEW p \in Launchers, NEW pc, LaunchTo(p, pc)
  PROVE  /\ launch'[p].pc = pc /\ launch'[p].row = launch[p].row
         /\ launch'[p].user = launch[p].user /\ launch'[p].lab = launch[p].lab
         /\ launch'[p].isNew = launch[p].isNew
         /\ \A q \in Launchers : q # p => launch'[q] = launch[q]
BY DEF LaunchTo, TypeOK, LaunchStates

\* What a launch that leaves keeps is what the release needs.
LEMMA Left ==
  ASSUME TypeOK, NEW p \in Launchers, Leave(p)
  PROVE  /\ launch'[p].row = None
         /\ IF launch[p].isNew
            THEN /\ launch'[p].pc = "release" /\ launch'[p].user = launch[p].user
                 /\ launch'[p].lab = launch[p].lab /\ launch'[p].isNew
            ELSE launch'[p] = IdleLaunch
         /\ \A q \in Launchers : q # p => launch'[q] = launch[q]
<1>1. LET n == [launch[p] EXCEPT !.pc = "release", !.row = None]
      IN /\ n.row = None /\ n.pc = "release" /\ n.user = launch[p].user
         /\ n.lab = launch[p].lab /\ n.isNew = launch[p].isNew
  BY DEF TypeOK, LaunchStates
<1>2. launch'[p] = IF launch[p].isNew
                   THEN [launch[p] EXCEPT !.pc = "release", !.row = None] ELSE IdleLaunch
  BY DEF Leave, TypeOK
<1>3. \A q \in Launchers : q # p => launch'[q] = launch[q]
  BY DEF Leave, TypeOK
<1> QED  BY <1>1, <1>2, <1>3 DEF IdleLaunch, TypeOK, LaunchStates

\* Only a launch itself makes its row anything but provisioning, ended or erased.
LEMMA OthersRows ==
  ASSUME TypeOK, UnusedRowsSound, OwnRows, [Next]_vars,
         NEW p \in Launchers, Aware(launch[p], rows), launch'[p] = launch[p]
  PROVE  Aware(launch'[p], rows')
<1> DEFINE r == launch[p].row
<1>1. RowsOnward
  BY RowsGoOnward
<1>2. CASE r = None
  BY <1>2 DEF Aware
<1>3. CASE r # None
  <2>1. r \in Rows /\ rows'[r].status # "none"
    BY <1>1, <1>3 DEF TypeOK, LaunchStates, Aware, RowsOnward
  <2>2. ASSUME rows[r].status = "provisioning", launch[p].pc \in {"provision", "finalize"}
        PROVE  rows'[r].status \in {"provisioning", "erased"} \/ rows'[r].ended
    <3>1. ASSUME NEW q \in Launchers, InsertRow(q) PROVE rows'[r] = rows[r]
      BY <2>1, <2>2, <3>1 DEF InsertRow, TypeOK
    <3>2. ASSUME NEW q \in Launchers, FinalizeActive(q) \/ FinalizeError(q)
          PROVE  rows'[r] = rows[r]
      <4>1. launch'[q].pc # launch[q].pc
        BY <3>2, Moved, Left DEF FinalizeActive, FinalizeError, LaunchAt, IdleLaunch
      <4>2. launch[q].row # r
        BY <1>3, <4>1 DEF OwnRows
      <4> QED  BY <2>1, <3>2, <4>2, ActiveRow DEF FinalizeError, TypeOK
    <3>3. ASSUME NEW e \in Closers, MarkEnded(e) PROVE rows'[r] = rows[r] \/ rows'[r].ended
      BY <2>1, <3>3, EndedRow
    <3>4. ASSUME NEW u \in Users, Erase(u) PROVE rows'[r] = rows[r] \/ rows'[r].status = "erased"
      BY <2>1, <3>4 DEF Erase, NoRow
    <3> QED  BY <2>1, <2>2, <3>1, <3>2, <3>3, <3>4, RowWriters
  <2> QED  BY <1>1, <1>3, <2>1, <2>2 DEF Aware, RowsOnward
<1> QED  BY <1>2, <1>3

\* A launch that has left has no row.
LEMMA LeftAware ==
  ASSUME TypeOK, NEW p \in Launchers, Aware(launch[p], rows), launch[p].pc # "idle",
         Leave(p) \/ launch' = [launch EXCEPT ![p] = IdleLaunch]
  PROVE  launch'[p].row = None /\ Aware(launch'[p], rows')
<1>1. IdleLaunch.row = None /\ IdleLaunch.pc = "idle"
  BY DEF IdleLaunch
<1>2. CASE Leave(p)
  BY <1>1, <1>2, Left DEF Aware
<1>3. CASE launch' = [launch EXCEPT ![p] = IdleLaunch]
  BY <1>1, <1>3 DEF Aware, TypeOK
<1> QED  BY <1>2, <1>3

\* Each step of a launch leaves it aware, and only the insert gives it a row.
LEMMA LaunchStepAware ==
  ASSUME TypeOK, RowsOnward, UnusedRowsSound, NEW p \in Launchers, Aware(launch[p], rows),
         LaunchStep(p)
  PROVE  /\ Aware(launch'[p], rows')
         /\ \/ launch'[p].row \in {launch[p].row, None}
            \/ launch'[p].row \in Rows /\ rows[launch'[p].row].status = "none"
<1> DEFINE r == launch[p].row
<1>1. launch[p] \in LaunchStates /\ launch[p].pc # "idle"
  BY DEF TypeOK, LaunchStep, LaunchAt, TryAcquire, LeaveQueue, JoinQueue, Lookup, InsertRow,
         Provision, FinalizeActive, FinalizeError, StartNodes, Publish, GiveBack
<1>2. ASSUME Leave(p) \/ launch' = [launch EXCEPT ![p] = IdleLaunch]
      PROVE  launch'[p].row = None /\ Aware(launch'[p], rows')
  BY <1>1, <1>2, LeftAware
<1>3. ASSUME NEW pc, LaunchTo(p, pc)
      PROVE  /\ launch'[p].pc = pc /\ launch'[p].row = r
             /\ launch'[p].user = launch[p].user /\ launch'[p].lab = launch[p].lab
  BY <1>3, Moved
<1>4. CASE TryAcquire(p) \/ LeaveQueue(p) \/ Lookup(p)
  BY <1>1, <1>2, <1>3, <1>4 DEF TryAcquire, LeaveQueue, Lookup, LaunchAt, Aware
<1>5. CASE InsertRow(p)
  <2>1. CASE Leave(p)
    BY <1>2, <2>1
  <2>2. ASSUME NEW x \in Rows, rows[x].status = "none",
               rows' = [rows EXCEPT ![x] = [status |-> "provisioning", ended |-> FALSE,
                                            user |-> launch[p].user, lab |-> launch[p].lab,
                                            sid |-> FALSE]],
               launch' = [launch EXCEPT ![p].pc = "provision", ![p].row = x]
        PROVE  Aware(launch'[p], rows') /\ launch'[p].row = x
    <3>1. rows'[x].status = "provisioning"
      BY <2>2 DEF TypeOK
    <3>2. LET n == [launch[p] EXCEPT !.pc = "provision", !.row = x]
          IN /\ launch'[p] = n /\ n.row = x /\ n.pc = "provision"
             /\ n.user = launch[p].user /\ n.lab = launch[p].lab
      BY <1>1, <2>2 DEF TypeOK, LaunchStates
    <3>3. x # None
      BY LifecycleAssumption
    <3> QED  BY <1>1, <3>1, <3>2, <3>3 DEF Aware
  <2> QED  BY <1>5, <2>1, <2>2 DEF InsertRow
<1>6. CASE Provision(p)
  BY <1>3, <1>6 DEF Provision, LaunchAt, Aware
<1>7. CASE FinalizeActive(p)
  <2>1. CASE Leave(p)
    BY <1>2, <2>1
  <2>2. CASE LaunchTo(p, "start") /\ launch[p].pc = "finalize"
    <3>1. r \in Rows /\ rows'[r].status # "none"
      BY <1>1, <2>2 DEF Aware, LaunchStates, RowsOnward
    <3> QED  BY <1>1, <1>3, <2>2, <3>1 DEF Aware
  <2> QED  BY <1>7, <2>1, <2>2 DEF FinalizeActive, LaunchAt
<1>8. CASE FinalizeError(p)
  BY <1>2, <1>8 DEF FinalizeError
<1>9. CASE StartNodes(p)
  BY <1>2, <1>3, <1>9 DEF StartNodes, LaunchAt, Aware
<1>10. CASE JoinQueue(p) \/ Publish(p) \/ GiveBack(p)
  BY <1>2, <1>10 DEF JoinQueue, Publish, GiveBack
<1> QED  BY <1>4, <1>5, <1>6, <1>7, <1>8, <1>9, <1>10 DEF LaunchStep

\* So every launch stays aware and keeps its row to itself.
LEMMA LaunchesStep ==
  ASSUME TypeOK, LaunchesSound, UnusedRowsSound, [Next]_vars
  PROVE  LaunchesSound'
<1>1. RowsOnward
  BY RowsGoOnward
<1>2. OwnRows /\ \A p \in Launchers : Aware(launch[p], rows)
  BY DEF LaunchesSound, OwnRows, Aware
<1>3. ASSUME NEW p \in Launchers, LaunchStep(p) PROVE LaunchesSound'
  <2>1. \A q \in Launchers : q # p => launch'[q] = launch[q]
    BY <1>3, Moved, Left
    DEF LaunchStep, TryAcquire, LeaveQueue, JoinQueue, Lookup, InsertRow, Provision,
        FinalizeActive, FinalizeError, StartNodes, Publish, GiveBack, TypeOK
  <2>2. /\ Aware(launch'[p], rows')
        /\ \/ launch'[p].row \in {launch[p].row, None}
           \/ launch'[p].row \in Rows /\ rows[launch'[p].row].status = "none"
    BY <1>1, <1>2, <1>3, LaunchStepAware
  <2>3. \A q \in Launchers : Aware(launch'[q], rows')
    BY <1>2, <2>1, <2>2, OthersRows
  <2>4. \A q \in Launchers : launch[q].row # None => rows[launch[q].row].status # "none"
    BY <1>2 DEF Aware
  <2>5. OwnRows'
    BY <1>2, <2>1, <2>2, <2>4 DEF OwnRows
  <2> QED  BY <2>3, <2>5 DEF OwnRows, Aware, LaunchesSound
<1>4. ASSUME NEW p \in Launchers, NEW u \in Users, NEW l \in Labs, Ask(p, u, l)
      PROVE  LaunchesSound'
  <2>1. /\ launch'[p].pc \in {"acquire", "lookup"} /\ launch'[p].user = u /\ launch'[p].lab = l
        /\ launch'[p].row = None
        /\ \A q \in Launchers : q # p => launch'[q] = launch[q]
    BY <1>4 DEF Ask, TypeOK
  <2>2. \A q \in Launchers : Aware(launch'[q], rows')
    BY <1>2, <2>1, OthersRows DEF Aware
  <2>3. OwnRows'
    BY <1>2, <2>1 DEF OwnRows
  <2> QED  BY <2>2, <2>3 DEF OwnRows, Aware, LaunchesSound
<1>5. CASE Crash
  BY <1>5 DEF Crash, IdleLaunch, LaunchesSound
<1>6. CASE UNCHANGED launch
  <2>1. \A q \in Launchers : Aware(launch'[q], rows')
    BY <1>2, <1>6, OthersRows
  <2> QED  BY <1>2, <1>6, <2>1 DEF OwnRows, Aware, LaunchesSound
<1>7. \/ UNCHANGED launch
      \/ \E p \in Launchers : LaunchStep(p) \/ \E u \in Users, l \in Labs : Ask(p, u, l)
      \/ Crash
  BY DEF Next, vars, CloseStep, ReapReread, StateAnswered, MarkEnded, Measure, FreeSlot, Teardown,
         EndAsked, StateAsked, ReapSelect, ReapPick, FallDue, LoseGns3, Erase, CountersExpire,
         QueueExpires
<1> QED  BY <1>3, <1>4, <1>5, <1>6, <1>7

-----------------------------------------------------------------------------
(* The limit on the sessions of one learner *)

\* There are finitely many rows.
LEMMA RowsFinite ==
  ASSUME NEW S \in SUBSET Rows
  PROVE  IsFiniteSet(S) /\ Cardinality(S) \in Nat
BY LifecycleAssumption, FS_Subset, FS_CardinalityType

\* An insert opens one session for a learner who is below the limit; nothing
\* else opens one.
LEMMA UserCapStep ==
  ASSUME TypeOK, UserCapHolds, LaunchesSound, [Next]_vars
  PROVE  UserCapHolds'
<1> SUFFICES ASSUME NEW u \in Users PROVE Cardinality(OpenRows(u)') <= MaxPerUser
  BY DEF UserCapHolds
<1>1. IsFiniteSet(OpenRows(u)) /\ Cardinality(OpenRows(u)) \in Nat
      /\ Cardinality(OpenRows(u)) <= MaxPerUser
  BY RowsFinite DEF OpenRows, LiveRows, UserCapHolds
<1>2. ASSUME OpenRows(u)' \subseteq OpenRows(u)
      PROVE  Cardinality(OpenRows(u)') <= MaxPerUser
  <2>1. Cardinality(OpenRows(u)') <= Cardinality(OpenRows(u)) /\ Cardinality(OpenRows(u)') \in Nat
    BY <1>1, <1>2, FS_Subset, FS_CardinalityType
  <2> QED  BY <1>1, <2>1, LifecycleAssumption
<1>3. ASSUME NEW p \in Launchers, InsertRow(p) PROVE Cardinality(OpenRows(u)') <= MaxPerUser
  <2>1. CASE UNCHANGED rows
    BY <1>2, <2>1 DEF OpenRows, LiveRows
  <2>2. ASSUME NEW x \in Rows, UnderUserCap(launch[p].user), rows[x].status = "none",
               rows' = [rows EXCEPT ![x] = [status |-> "provisioning", ended |-> FALSE,
                                            user |-> launch[p].user, lab |-> launch[p].lab,
                                            sid |-> FALSE]]
        PROVE  Cardinality(OpenRows(u)') <= MaxPerUser
    <3>1. CASE launch[p].user # u
      BY <1>2, <2>2, <3>1 DEF OpenRows, LiveRows, TypeOK
    <3>2. CASE launch[p].user = u
      <4>1. OpenRows(u)' \subseteq LiveRows(u) \cup {x}
        BY <2>2 DEF OpenRows, LiveRows, TypeOK
      <4>2. /\ IsFiniteSet(LiveRows(u)) /\ Cardinality(LiveRows(u)) \in Nat
            /\ Cardinality(LiveRows(u)) < MaxPerUser
        BY <2>2, <3>2, RowsFinite DEF LiveRows, UnderUserCap
      <4>3. /\ IsFiniteSet(LiveRows(u) \cup {x})
            /\ Cardinality(LiveRows(u) \cup {x}) <= MaxPerUser
            /\ Cardinality(LiveRows(u) \cup {x}) \in Nat
        <5>1. /\ IsFiniteSet(LiveRows(u) \cup {x})
              /\ \/ Cardinality(LiveRows(u) \cup {x}) = Cardinality(LiveRows(u))
                 \/ Cardinality(LiveRows(u) \cup {x}) = Cardinality(LiveRows(u)) + 1
          BY <4>2, FS_AddElement
        <5> QED  BY <4>2, <5>1, LifecycleAssumption
      <4>4. /\ Cardinality(OpenRows(u)') <= Cardinality(LiveRows(u) \cup {x})
            /\ Cardinality(OpenRows(u)') \in Nat
        BY <4>1, <4>3, FS_Subset, FS_CardinalityType
      <4> QED  BY <4>3, <4>4, LifecycleAssumption
    <3> QED  BY <3>1, <3>2
  <2> QED  BY <1>3, <2>1, <2>2 DEF InsertRow
<1>4. ASSUME NEW p \in Launchers, FinalizeActive(p)
      PROVE  Cardinality(OpenRows(u)') <= MaxPerUser
  <2>1. ASSUME NEW r \in Rows, r \in OpenRows(u)' PROVE r \in OpenRows(u)
    <3>1. CASE rows'[r] = rows[r]
      BY <2>1, <3>1 DEF OpenRows, LiveRows
    <3>2. CASE rows'[r] # rows[r]
      <4>1. /\ r = launch[p].row /\ Exists(r) /\ ~rows[r].ended /\ rows[r].user = u
        BY <1>4, <2>1, <3>2, ActiveRow DEF OpenRows, LiveRows
      <4>2. rows[r].status = "provisioning"
        BY <1>4, <4>1 DEF LaunchesSound, FinalizeActive, LaunchAt, Exists
      <4> QED  BY <4>1, <4>2 DEF OpenRows, LiveRows, Live
    <3> QED  BY <3>1, <3>2
  <2>2. OpenRows(u)' \subseteq OpenRows(u)
    BY <2>1 DEF OpenRows, LiveRows
  <2> QED  BY <1>2, <2>2
<1>5. ASSUME NEW p \in Launchers, FinalizeError(p)
      PROVE  Cardinality(OpenRows(u)') <= MaxPerUser
  <2>1. OpenRows(u)' \subseteq OpenRows(u)
    BY <1>5 DEF FinalizeError, OpenRows, LiveRows, Live, TypeOK, RowStates
  <2> QED  BY <1>2, <2>1
<1>6. ASSUME NEW e \in Closers, MarkEnded(e) PROVE Cardinality(OpenRows(u)') <= MaxPerUser
  <2>1. OpenRows(u)' \subseteq OpenRows(u)
    BY <1>6, EndedRow DEF OpenRows, LiveRows
  <2> QED  BY <1>2, <2>1
<1>7. ASSUME NEW v \in Users, Erase(v) PROVE Cardinality(OpenRows(u)') <= MaxPerUser
  <2>1. OpenRows(u)' \subseteq OpenRows(u)
    BY <1>7 DEF Erase, NoRow, OpenRows, LiveRows, Live
  <2> QED  BY <1>2, <2>1
<1>8. CASE UNCHANGED rows
  BY <1>2, <1>8 DEF OpenRows, LiveRows
<1> QED  BY <1>3, <1>4, <1>5, <1>6, <1>7, <1>8, RowWriters

-----------------------------------------------------------------------------
(* The theorems *)

\* The invariant holds of an empty table.
LEMMA InitInv == Init => LifecycleInv
<1> SUFFICES ASSUME Init PROVE LifecycleInv
  OBVIOUS
<1>1. TypeOK
  BY InitType
<1>2. /\ OneLivePerLab /\ TeardownAfterEnd /\ LaunchesSound /\ ClosesSound
      /\ SelectionSound /\ UnusedRowsSound
  BY DEF Init, NoRow, Live, IdleLaunch, OneLivePerLab, TeardownAfterEnd, LaunchesSound,
         ClosesSound, SelectionSound, UnusedRowsSound
<1>3. UserCapHolds
  <2>1. \A u \in Users : OpenRows(u) = {}
    BY DEF Init, NoRow, OpenRows, LiveRows, Live
  <2> QED  BY <2>1, FS_EmptySet, LifecycleAssumption DEF UserCapHolds
<1> QED  BY <1>1, <1>2, <1>3 DEF LifecycleInv

\* Every step keeps the invariant.
LEMMA NextInv == LifecycleInv /\ [Next]_vars => LifecycleInv'
BY NextType, OneLiveStep, UserCapStep, TeardownStep, LaunchesStep, ClosesStep, SelectionStep,
   UnusedRowsStep
DEF LifecycleInv

\* The variables keep their types, through every interleaving, fault and restart.
THEOREM TypeCorrect == Spec => []TypeOK
<1>1. LifecycleInv => TypeOK
  BY DEF LifecycleInv
<1> QED  BY <1>1, InitInv, NextInv, PTL DEF Spec

\* A learner never has two live sessions on one lab: the endpoint's lookup, the
\* launch's own lookup, the insert and the late finalization may interleave with
\* those of any number of other requests and of the paths that end sessions.
THEOREM OneLiveSession == Spec => []OneLivePerLab
<1>1. LifecycleInv => OneLivePerLab
  BY DEF LifecycleInv
<1> QED  BY <1>1, InitInv, NextInv, PTL DEF Spec

\* No number of concurrent launches takes a learner past max_sessions_per_user
\* open sessions.
THEOREM UserCapRespected == Spec => []UserCapHolds
<1>1. LifecycleInv => UserCapHolds
  BY DEF LifecycleInv
<1> QED  BY <1>1, InitInv, NextInv, PTL DEF Spec

\* A GNS3 session is deleted only once its row has an ended_at.
THEOREM TeardownComesLast == Spec => []TeardownAfterEnd
<1>1. LifecycleInv => TeardownAfterEnd
  BY DEF LifecycleInv
<1> QED  BY <1>1, InitInv, NextInv, PTL DEF Spec

\* No step reopens a session that has ended or loses its gns3 id, a late
\* finalization of the launch included.
THEOREM EndedStaysEnded == Spec => EndedForGood
<1>1. LifecycleInv /\ [Next]_vars =>
        \A r \in Rows : rows[r].ended =>
          rows'[r].status = "erased" \/ (rows'[r].ended /\ (rows[r].sid => rows'[r].sid))
  BY RowsGoOnward DEF LifecycleInv, RowsOnward
<1> QED  BY <1>1, InitInv, NextInv, PTL DEF Spec, EndedForGood
-----------------------------------------------------------------------------
(***************************************************************************)
(* No slot of a lab is lost, for every instance of SessionLifecycle in     *)
(* which the process does not restart, accounts are not erased and Redis   *)
(* answers, whatever GNS3 does and however requests overlap.               *)
(*                                                                         *)
(* NoSlotLeak alone is not inductive.  A launch that found a session to    *)
(* resume takes no slot; if that session ends before the launch looks      *)
(* again, it creates a row without one.  When its provisioning fails the   *)
(* row is a claim less and no slot is given back, so such a row must not   *)
(* have been counted: Backed leaves it out until it is active.             *)
(***************************************************************************)
LaunchHolds(p, l) ==
  /\ launch[p].lab = l /\ launch[p].isNew
  /\ launch[p].pc \in {"dequeue", "lookup", "insert", "release"}

\* A launch that took no slot and has a row it has not finalized.
Unpaid(p) == ~launch[p].isNew /\ launch[p].pc \in {"provision", "finalize", "fail"}

RowHolds(r, l) ==
  /\ rows[r].lab = l /\ rows[r].status \in Live /\ ~rows[r].ended
  /\ \A p \in Launchers : Unpaid(p) => launch[p].row # r

CloseHolds(e, l) == close[e].lab = l /\ close[e].pc \in {"measure", "free"}

Backed(l) ==
  ({"launch"} \X {p \in Launchers : LaunchHolds(p, l)})
  \cup ({"row"} \X {r \in Rows : RowHolds(r, l)})
  \cup ({"close"} \X {e \in Closers : CloseHolds(e, l)})

\* A launch and a closer have the lab of their row.
LabsAgree ==
  /\ \A r \in Rows : rows[r].status # "erased"
  /\ \A p \in Launchers : launch[p].row # None => rows[launch[p].row].lab = launch[p].lab
  /\ \A p \in Launchers : launch[p].pc = "acquire" => launch[p].isNew
  /\ \A e \in Closers : close[e] # IdleClose => close[e].lab = rows[close[e].row].lab

SlotsBacked == \A l \in Labs : labCount[l] <= Cardinality(Backed(l))

SlotInv == LifecycleInv /\ LabsAgree /\ SlotsBacked

\* Nothing happens that loses a slot without a handler's doing.
NothingLost == {"redis", "crash", "erase"} \cap Perils = {}
-----------------------------------------------------------------------------
(* Counting *)

AllClaims == ({"launch"} \X Launchers) \cup ({"row"} \X Rows) \cup ({"close"} \X Closers)

\* There are finitely many claims.
LEMMA ClaimsFinite ==
  ASSUME NEW S \in SUBSET AllClaims
  PROVE  IsFiniteSet(S) /\ Cardinality(S) \in Nat
<1>1. IsFiniteSet({"launch"}) /\ IsFiniteSet({"row"}) /\ IsFiniteSet({"close"})
  BY FS_Singleton
<1>2. /\ IsFiniteSet({"launch"} \X Launchers)
      /\ IsFiniteSet({"row"} \X Rows)
      /\ IsFiniteSet({"close"} \X Closers)
  BY <1>1, LifecycleAssumption, FS_Product
<1>3. IsFiniteSet(AllClaims)
  BY <1>2, FS_Union DEF AllClaims
<1> QED  BY <1>3, FS_Subset, FS_CardinalityType

\* So are the claims that back a lab's slots, before a step and after it.
LEMMA BackedFinite ==
  ASSUME NEW l
  PROVE  /\ IsFiniteSet(Backed(l)) /\ Cardinality(Backed(l)) \in Nat
         /\ IsFiniteSet(Backed(l)') /\ Cardinality(Backed(l)') \in Nat
<1>1. Backed(l) \subseteq AllClaims /\ Backed(l)' \subseteq AllClaims
  BY DEF Backed, AllClaims
<1> QED  BY <1>1, ClaimsFinite

\* A set that loses at most x, and gains y for it, does not shrink.
LEMMA Exchange ==
  ASSUME NEW S, NEW T, IsFiniteSet(S), IsFiniteSet(T), NEW x, NEW y,
         S \ {x} \subseteq T, x \in S => y \in T /\ y \notin S
  PROVE  Cardinality(S) <= Cardinality(T)
<1>0. Cardinality(S) \in Nat /\ Cardinality(T) \in Nat
  BY FS_CardinalityType
<1>1. CASE x \notin S
  BY <1>0, <1>1, FS_Subset
<1>2. CASE x \in S
  <2>1. /\ IsFiniteSet(S \ {x}) /\ Cardinality(S \ {x}) = Cardinality(S) - 1
    BY <1>2, FS_RemoveElement
  <2>2. /\ IsFiniteSet((S \ {x}) \cup {y})
        /\ Cardinality((S \ {x}) \cup {y}) = Cardinality(S \ {x}) + 1
    BY <1>2, <2>1, FS_AddElement
  <2>3. (S \ {x}) \cup {y} \subseteq T
    BY <1>2
  <2>4. Cardinality((S \ {x}) \cup {y}) <= Cardinality(T)
    BY <2>3, FS_Subset
  <2> QED  BY <1>0, <2>1, <2>2, <2>4
<1> QED  BY <1>1, <1>2

\* A set that loses at most x shrinks by one at most.
LEMMA LoseOne ==
  ASSUME NEW S, NEW T, IsFiniteSet(S), IsFiniteSet(T), NEW x, S \ {x} \subseteq T
  PROVE  Cardinality(S) - 1 <= Cardinality(T)
<1>0. Cardinality(S) \in Nat /\ Cardinality(T) \in Nat
  BY FS_CardinalityType
<1>1. /\ IsFiniteSet(S \ {x})
      /\ Cardinality(S \ {x}) = IF x \in S THEN Cardinality(S) - 1 ELSE Cardinality(S)
  BY FS_RemoveElement
<1>2. Cardinality(S \ {x}) <= Cardinality(T)
  BY FS_Subset
<1> QED  BY <1>0, <1>1, <1>2

\* A set that gains y grows.
LEMMA GainOne ==
  ASSUME NEW S, NEW T, IsFiniteSet(S), IsFiniteSet(T), NEW y, S \cup {y} \subseteq T, y \notin S
  PROVE  Cardinality(S) + 1 <= Cardinality(T)
<1>0. Cardinality(S) \in Nat /\ Cardinality(T) \in Nat
  BY FS_CardinalityType
<1>1. IsFiniteSet(S \cup {y}) /\ Cardinality(S \cup {y}) = Cardinality(S) + 1
  BY FS_AddElement
<1>2. Cardinality(S \cup {y}) <= Cardinality(T)
  BY FS_Subset
<1> QED  BY <1>0, <1>1, <1>2

\* Who keeps its claim: everybody but x.
Keeps(l, x) ==
  /\ \A p \in Launchers : LaunchHolds(p, l) /\ x # <<"launch", p>> => LaunchHolds(p, l)'
  /\ \A r \in Rows : RowHolds(r, l) /\ x # <<"row", r>> => RowHolds(r, l)'
  /\ \A e \in Closers : CloseHolds(e, l) /\ x # <<"close", e>> => CloseHolds(e, l)'

\* A step that keeps the claims of a lab but for one keeps their set but for it.
LEMMA KeepsBacked ==
  ASSUME NEW l, NEW x, Keeps(l, x)
  PROVE  Backed(l) \ {x} \subseteq Backed(l)'
BY DEF Keeps, Backed
-----------------------------------------------------------------------------
(* The labs agree *)

\* At first there is nothing to agree about.
LEMMA LabsAgreeInit == Init => LabsAgree
BY DEF Init, NoRow, IdleLaunch, LabsAgree

\* A step of a launch: it leaves, or it keeps its lab and its claim to be new;
\* it gets a row only by inserting it.
LEMMA LaunchFrame ==
  ASSUME TypeOK, NEW p \in Launchers, LaunchStep(p)
  PROVE  /\ \A q \in Launchers : q # p => launch'[q] = launch[q]
         /\ \/ launch'[p] = IdleLaunch
            \/ /\ launch'[p].lab = launch[p].lab /\ launch'[p].isNew = launch[p].isNew
               /\ launch'[p].pc # "acquire"
         /\ \/ launch'[p].row \in {launch[p].row, None}
            \/ /\ launch'[p].row \in Rows /\ rows[launch'[p].row].status = "none"
               /\ rows'[launch'[p].row].lab = launch[p].lab
         /\ Unpaid(p)' => \/ Unpaid(p) /\ launch'[p].row = launch[p].row
                          \/ rows[launch'[p].row].status = "none"
<1> USE DEF Unpaid
<1>1. ASSUME NEW pc, LaunchTo(p, pc)
      PROVE  /\ launch'[p].pc = pc /\ launch'[p].row = launch[p].row
             /\ launch'[p].lab = launch[p].lab /\ launch'[p].isNew = launch[p].isNew
             /\ \A q \in Launchers : q # p => launch'[q] = launch[q]
  BY <1>1, Moved
<1>2. ASSUME Leave(p) \/ launch' = [launch EXCEPT ![p] = IdleLaunch]
      PROVE  /\ launch'[p].row = None
             /\ \/ launch'[p] = IdleLaunch
                \/ /\ launch'[p].lab = launch[p].lab /\ launch'[p].isNew = launch[p].isNew
                   /\ launch'[p].pc = "release"
             /\ ~Unpaid(p)'
             /\ \A q \in Launchers : q # p => launch'[q] = launch[q]
  <2>1. IdleLaunch.row = None /\ IdleLaunch.pc = "idle"
    BY DEF IdleLaunch
  <2>2. CASE Leave(p)
    BY <2>1, <2>2, Left DEF TypeOK, LaunchStates
  <2>3. CASE launch' = [launch EXCEPT ![p] = IdleLaunch]
    BY <2>1, <2>3 DEF TypeOK
  <2> QED  BY <1>2, <2>2, <2>3
<1>3. CASE TryAcquire(p) \/ LeaveQueue(p) \/ Lookup(p) \/ StartNodes(p)
  BY <1>1, <1>2, <1>3 DEF TryAcquire, LeaveQueue, Lookup, StartNodes
<1>4. CASE InsertRow(p)
  <2>1. CASE Leave(p)
    BY <1>2, <2>1
  <2>2. ASSUME NEW x \in Rows, rows[x].status = "none",
               rows' = [rows EXCEPT ![x] = [status |-> "provisioning", ended |-> FALSE,
                                            user |-> launch[p].user, lab |-> launch[p].lab,
                                            sid |-> FALSE]],
               launch' = [launch EXCEPT ![p].pc = "provision", ![p].row = x]
        PROVE  /\ rows'[x].lab = launch[p].lab
               /\ launch'[p].pc = "provision" /\ launch'[p].row = x
               /\ launch'[p].lab = launch[p].lab /\ launch'[p].isNew = launch[p].isNew
               /\ \A q \in Launchers : q # p => launch'[q] = launch[q]
    <3>1. rows'[x].lab = launch[p].lab
      BY <2>2 DEF TypeOK
    <3>2. LET n == [launch[p] EXCEPT !.pc = "provision", !.row = x]
          IN /\ launch'[p] = n /\ n.row = x /\ n.pc = "provision"
             /\ n.lab = launch[p].lab /\ n.isNew = launch[p].isNew
      BY <2>2 DEF TypeOK, LaunchStates
    <3>3. \A q \in Launchers : q # p => launch'[q] = launch[q]
      BY <2>2 DEF TypeOK
    <3> QED  BY <3>1, <3>2, <3>3
  <2> QED  BY <1>4, <2>1, <2>2 DEF InsertRow
<1>5. CASE Provision(p)
  BY <1>1, <1>5 DEF Provision, LaunchAt
<1>6. CASE FinalizeActive(p)
  BY <1>1, <1>2, <1>6 DEF FinalizeActive
<1>7. CASE FinalizeError(p)
  BY <1>2, <1>7 DEF FinalizeError
<1>8. CASE JoinQueue(p) \/ Publish(p) \/ GiveBack(p)
  BY <1>2, <1>8 DEF JoinQueue, Publish, GiveBack
<1> QED  BY <1>3, <1>4, <1>5, <1>6, <1>7, <1>8 DEF LaunchStep

\* A step of a closer: it is done, or it keeps its row and its lab.
LEMMA CloseFrame ==
  ASSUME TypeOK, NEW e \in Closers, CloseStep(e)
  PROVE  /\ \A f \in Closers : f # e => close'[f] = close[f]
         /\ \/ close'[e] = IdleClose
            \/ /\ close'[e].row = close[e].row /\ close'[e].lab = close[e].lab
               /\ close[e] # IdleClose
<1>1. ASSUME NEW pc, CloseTo(e, pc), close[e].pc # "idle"
      PROVE  /\ close'[e].row = close[e].row /\ close'[e].lab = close[e].lab
             /\ close[e] # IdleClose
             /\ \A f \in Closers : f # e => close'[f] = close[f]
  BY <1>1 DEF CloseTo, TypeOK, CloseStates, IdleClose
<1>2. ASSUME close' = [close EXCEPT ![e] = IdleClose]
      PROVE  /\ close'[e] = IdleClose
             /\ \A f \in Closers : f # e => close'[f] = close[f]
  BY <1>2 DEF TypeOK
<1>3. CASE ReapReread(e)
  BY <1>1, <1>3 DEF ReapReread, CloseAt, TypeOK, CloseStates, IdleClose
<1>4. CASE MarkEnded(e)
  BY <1>1, <1>2, <1>4 DEF MarkEnded, CloseAt, TypeOK, CloseStates, IdleClose
<1>5. CASE StateAnswered(e) \/ Teardown(e)
  BY <1>1, <1>2, <1>5 DEF StateAnswered, Teardown, CloseAt
<1>6. CASE Measure(e) \/ FreeSlot(e)
  BY <1>1, <1>6 DEF Measure, FreeSlot, CloseAt
<1> QED  BY <1>3, <1>4, <1>5, <1>6 DEF CloseStep

\* The lab of a row that is used does not change, and no row is erased.
LEMMA RowLabsKept ==
  ASSUME TypeOK, LabsAgree, NothingLost, [Next]_vars, NEW r \in Rows
  PROVE  /\ rows'[r].status # "erased"
         /\ rows[r].status # "none" => rows'[r].lab = rows[r].lab
<1>1. CASE UNCHANGED rows
  BY <1>1 DEF LabsAgree
<1>2. ASSUME NEW p \in Launchers, InsertRow(p)
      PROVE  /\ rows'[r].status # "erased"
             /\ rows[r].status # "none" => rows'[r].lab = rows[r].lab
  BY <1>2 DEF InsertRow, TypeOK, LabsAgree
<1>3. ASSUME NEW p \in Launchers, FinalizeActive(p)
      PROVE  rows'[r].status # "erased" /\ rows'[r].lab = rows[r].lab
  BY <1>3, ActiveRow DEF LabsAgree
<1>4. ASSUME NEW p \in Launchers, FinalizeError(p)
      PROVE  rows'[r].status # "erased" /\ rows'[r].lab = rows[r].lab
  BY <1>4 DEF FinalizeError, TypeOK, RowStates, LabsAgree
<1>5. ASSUME NEW e \in Closers, MarkEnded(e)
      PROVE  rows'[r].status # "erased" /\ rows'[r].lab = rows[r].lab
  BY <1>5, EndedRow DEF LabsAgree
<1>6. ASSUME NEW u \in Users, Erase(u) PROVE FALSE
  BY <1>6 DEF Erase, NothingLost
<1> QED  BY <1>1, <1>2, <1>3, <1>4, <1>5, <1>6, RowWriters

\* Every step of Next, when nothing is lost.
LEMMA StepKinds ==
  ASSUME NothingLost, [Next]_vars
  PROVE  \/ \E p \in Launchers : LaunchStep(p)
         \/ \E p \in Launchers, u \in Users, l \in Labs : Ask(p, u, l)
         \/ \E e \in Closers : CloseStep(e)
         \/ \E e \in Closers, r \in Rows : EndAsked(e, r) \/ StateAsked(e, r)
         \/ \E r \in Rows : ReapPick(r)
         \/ UNCHANGED <<labCount, rows, launch, close>>
         \/ CountersExpire
BY DEF Next, vars, queueVars, ReapSelect, FallDue, LoseGns3, Erase, Crash, QueueExpires, ExpireQueue,
       counterVars, NothingLost

\* No step parts a launch or a closer from the lab of its row.
LEMMA LabsAgreeStep ==
  ASSUME LifecycleInv, LabsAgree, NothingLost, [Next]_vars
  PROVE  LabsAgree'
<1> USE DEF LifecycleInv
<1>1. \A r \in Rows : /\ rows'[r].status # "erased"
                      /\ rows[r].status # "none" => rows'[r].lab = rows[r].lab
  BY RowLabsKept
<1> DEFINE LaunchAgrees(n, rs) == /\ n.row # None => rs[n.row].lab = n.lab
                                  /\ n.pc = "acquire" => n.isNew
           CloseAgrees(c, rs) == c # IdleClose => rs[c.row].lab = c.lab
<1>2. ASSUME NEW p \in Launchers, launch'[p] = launch[p]
      PROVE  LaunchAgrees(launch'[p], rows')
  BY <1>1, <1>2 DEF LabsAgree, LaunchesSound, TypeOK, LaunchStates
<1>3. ASSUME NEW e \in Closers, close'[e] = close[e]
      PROVE  CloseAgrees(close'[e], rows')
  BY <1>1, <1>3 DEF LabsAgree, ClosesSound, TypeOK, CloseStates
<1>4. ASSUME \A p \in Launchers : LaunchAgrees(launch'[p], rows'),
             \A e \in Closers : CloseAgrees(close'[e], rows')
      PROVE  LabsAgree'
  BY <1>1, <1>4 DEF LabsAgree
<1>5. ASSUME NEW p \in Launchers, LaunchStep(p) PROVE LabsAgree'
  <2>1. LaunchAgrees(launch'[p], rows')
    BY <1>1, <1>5, LaunchFrame DEF LabsAgree, LaunchesSound, TypeOK, LaunchStates, IdleLaunch
  <2>2. UNCHANGED close
    BY <1>5 DEF LaunchStep, TryAcquire, LeaveQueue, JoinQueue, Lookup, InsertRow, Provision,
                FinalizeActive, FinalizeError, StartNodes, Publish, GiveBack
  <2> QED  BY <1>2, <1>3, <1>4, <1>5, <2>1, <2>2, LaunchFrame
<1>6. ASSUME NEW p \in Launchers, NEW u \in Users, NEW l \in Labs, Ask(p, u, l) PROVE LabsAgree'
  <2>1. LaunchAgrees(launch'[p], rows')
    BY <1>6 DEF Ask, TypeOK
  <2>2. \A q \in Launchers : q # p => launch'[q] = launch[q]
    BY <1>6 DEF Ask, TypeOK
  <2> QED  BY <1>2, <1>3, <1>4, <1>6, <2>1, <2>2 DEF Ask
<1>7. ASSUME NEW e \in Closers, CloseStep(e) PROVE LabsAgree'
  <2>1. CloseAgrees(close'[e], rows')
    BY <1>1, <1>7, CloseFrame DEF LabsAgree, ClosesSound, TypeOK, CloseStates
  <2>2. UNCHANGED launch
    BY <1>7 DEF CloseStep, ReapReread, StateAnswered, MarkEnded, Measure, FreeSlot, Teardown
  <2> QED  BY <1>2, <1>3, <1>4, <1>7, <2>1, <2>2, CloseFrame
<1>8. ASSUME NEW e \in Closers, NEW r \in Rows, NEW kind, NEW sid, NEW pc,
             Loaded(e, kind, r, sid, pc),
             UNCHANGED <<rows, launch>>
      PROVE  LabsAgree'
  <2>1. CloseAgrees(close'[e], rows')
    BY <1>8 DEF Loaded, TypeOK
  <2>2. \A f \in Closers : f # e => close'[f] = close[f]
    BY <1>8 DEF Loaded, TypeOK
  <2> QED  BY <1>2, <1>3, <1>4, <1>8, <2>1, <2>2
<1>9. ASSUME NEW e \in Closers, NEW r \in Rows, EndAsked(e, r) \/ StateAsked(e, r)
      PROVE  LabsAgree'
  BY <1>8, <1>9 DEF EndAsked, StateAsked
<1>10. ASSUME NEW r \in Rows, ReapPick(r) PROVE LabsAgree'
  BY <1>8, <1>10, LifecycleAssumption DEF ReapPick
<1>11. CASE UNCHANGED <<launch, close>>
  BY <1>2, <1>3, <1>4, <1>11
<1>12. CASE CountersExpire
  BY <1>11, <1>12 DEF CountersExpire
<1> QED  BY <1>5, <1>6, <1>7, <1>9, <1>10, <1>11, <1>12, StepKinds

-----------------------------------------------------------------------------
(* The claims *)

\* A launch becomes unpaid only together with a fresh row.
LEMMA UnpaidFrame ==
  ASSUME TypeOK, NothingLost, [Next]_vars, NEW p \in Launchers, Unpaid(p)'
  PROVE  \/ Unpaid(p) /\ launch'[p].row = launch[p].row
         \/ rows[launch'[p].row].status = "none"
<1>1. CASE launch'[p] = launch[p]
  BY <1>1 DEF Unpaid
<1>2. CASE LaunchStep(p)
  BY <1>2, LaunchFrame
<1>3. ASSUME NEW q \in Launchers, q # p, LaunchStep(q) PROVE launch'[p] = launch[p]
  BY <1>3, LaunchFrame
<1>4. ASSUME NEW q \in Launchers, NEW u \in Users, NEW l \in Labs, Ask(q, u, l)
      PROVE  launch'[p] = launch[p]
  <2>1. launch'[q].pc \in {"acquire", "lookup"}
    BY <1>4 DEF Ask, TypeOK
  <2>2. q # p
    BY <2>1 DEF Unpaid
  <2> QED  BY <1>4, <2>2 DEF Ask, TypeOK
<1>5. \/ \E q \in Launchers : LaunchStep(q)
      \/ \E q \in Launchers, u \in Users, l \in Labs : Ask(q, u, l)
      \/ UNCHANGED launch
  BY StepKinds
  DEF CloseStep, ReapReread, StateAnswered, MarkEnded, Measure, FreeSlot, Teardown, EndAsked,
      StateAsked, ReapPick, CountersExpire
<1>6. CASE \E q \in Launchers : LaunchStep(q)
  <2>1. PICK q \in Launchers : LaunchStep(q)
    BY <1>6
  <2>2. CASE q = p
    BY <1>2, <2>1, <2>2
  <2>3. CASE q # p
    BY <1>1, <1>3, <2>1, <2>3
  <2> QED  BY <2>2, <2>3
<1> QED  BY <1>1, <1>4, <1>5, <1>6

\* A row that stays live and open keeps its claim.
LEMMA RowKeepsClaim ==
  ASSUME TypeOK, LabsAgree, NothingLost, [Next]_vars, NEW r \in Rows, NEW l,
         RowHolds(r, l), rows'[r].status \in Live, ~rows'[r].ended
  PROVE  RowHolds(r, l)'
<1>1. rows[r].status # "none"
  BY DEF RowHolds, Live
<1>2. rows'[r].lab = l
  BY <1>1, RowLabsKept DEF RowHolds
<1>3. ASSUME NEW p \in Launchers, Unpaid(p)' PROVE launch'[p].row # r
  BY <1>1, <1>3, UnpaidFrame DEF RowHolds
<1> QED  BY <1>2, <1>3 DEF RowHolds

\* What a step of a launch must leave alone for everybody but x to keep their claims.
LEMMA LaunchKeeps ==
  ASSUME TypeOK, LabsAgree, NothingLost, [Next]_vars,
         NEW p \in Launchers, LaunchStep(p), NEW l, NEW x,
         LaunchHolds(p, l) /\ x # <<"launch", p>> => LaunchHolds(p, l)',
         \A r \in Rows : RowHolds(r, l) /\ x # <<"row", r>> =>
                           rows'[r].status \in Live /\ ~rows'[r].ended
  PROVE  Backed(l) \ {x} \subseteq Backed(l)'
<1>1. \A q \in Launchers : q # p => launch'[q] = launch[q]
  BY LaunchFrame
<1>2. UNCHANGED close
  BY DEF LaunchStep, TryAcquire, LeaveQueue, JoinQueue, Lookup, InsertRow, Provision,
         FinalizeActive, FinalizeError, StartNodes, Publish, GiveBack
<1>3. \A q \in Launchers : LaunchHolds(q, l) /\ x # <<"launch", q>> => LaunchHolds(q, l)'
  BY <1>1 DEF LaunchHolds
<1>4. \A r \in Rows : RowHolds(r, l) /\ x # <<"row", r>> => RowHolds(r, l)'
  BY RowKeepsClaim
<1>5. \A e \in Closers : CloseHolds(e, l) => CloseHolds(e, l)'
  BY <1>2 DEF CloseHolds
<1> QED  BY <1>3, <1>4, <1>5, KeepsBacked DEF Keeps

\* The same for a step that leaves the launches alone.
LEMMA CloseKeeps ==
  ASSUME TypeOK, LabsAgree, NothingLost, [Next]_vars, UNCHANGED launch, NEW l, NEW x,
         \A e \in Closers : CloseHolds(e, l) /\ x # <<"close", e>> => CloseHolds(e, l)',
         \A r \in Rows : RowHolds(r, l) /\ x # <<"row", r>> =>
                           rows'[r].status \in Live /\ ~rows'[r].ended
  PROVE  Backed(l) \ {x} \subseteq Backed(l)'
<1>1. \A p \in Launchers : LaunchHolds(p, l) => LaunchHolds(p, l)'
  BY DEF LaunchHolds
<1>2. \A r \in Rows : RowHolds(r, l) /\ x # <<"row", r>> => RowHolds(r, l)'
  BY RowKeepsClaim
<1> QED  BY <1>1, <1>2, KeepsBacked DEF Keeps

\* When a lab's counter does not move and its claims lose x and gain y for it,
\* every slot of the lab is still backed.
LEMMA StillBacked ==
  ASSUME TypeOK, NEW l \in Labs, labCount[l] <= Cardinality(Backed(l)),
         labCount'[l] = labCount[l], NEW x, NEW y, Backed(l) \ {x} \subseteq Backed(l)',
         x \in Backed(l) => y \in Backed(l)' /\ y \notin Backed(l)
  PROVE  labCount'[l] <= Cardinality(Backed(l)')
<1>1. IsFiniteSet(Backed(l)) /\ Cardinality(Backed(l)) \in Nat
  BY BackedFinite
<1>2. IsFiniteSet(Backed(l)') /\ Cardinality(Backed(l)') \in Nat
  BY BackedFinite
<1>3. Cardinality(Backed(l)) <= Cardinality(Backed(l)')
  BY <1>1, <1>2, Exchange
<1> QED  BY <1>1, <1>2, <1>3 DEF TypeOK, QueueTypeOK

\* When a lab's counter does not move and no claim is lost, every slot of the lab
\* is still backed.
LEMMA NoneLost ==
  ASSUME TypeOK, NEW l \in Labs, labCount[l] <= Cardinality(Backed(l)),
         labCount'[l] = labCount[l], Backed(l) \subseteq Backed(l)'
  PROVE  labCount'[l] <= Cardinality(Backed(l)')
<1>1. /\ IsFiniteSet(Backed(l)) /\ Cardinality(Backed(l)) \in Nat
      /\ IsFiniteSet(Backed(l)') /\ Cardinality(Backed(l)') \in Nat
  BY BackedFinite
<1>2. Cardinality(Backed(l)) <= Cardinality(Backed(l)')
  BY <1>1, FS_Subset
<1> QED  BY <1>1, <1>2 DEF TypeOK, QueueTypeOK

\* When a slot of the lab is given back and at most one claim is lost, likewise.
LEMMA OneReleased ==
  ASSUME TypeOK, NEW l \in Labs, labCount[l] <= Cardinality(Backed(l)),
         labCount'[l] = Decremented(labCount[l]), NEW x, Backed(l) \ {x} \subseteq Backed(l)'
  PROVE  labCount'[l] <= Cardinality(Backed(l)')
<1>1. /\ IsFiniteSet(Backed(l)) /\ Cardinality(Backed(l)) \in Nat
      /\ IsFiniteSet(Backed(l)') /\ Cardinality(Backed(l)') \in Nat
  BY BackedFinite
<1>2. Cardinality(Backed(l)) - 1 <= Cardinality(Backed(l)')
  BY <1>1, LoseOne
<1>3. labCount[l] \in Nat
  BY DEF TypeOK, QueueTypeOK
<1> QED  BY <1>1, <1>2, <1>3 DEF Decremented

\* Who has which claim.
LEMMA ClaimMembers ==
  ASSUME NEW l
  PROVE  /\ \A p \in Launchers : <<"launch", p>> \in Backed(l) <=> LaunchHolds(p, l)
         /\ \A r \in Rows : <<"row", r>> \in Backed(l) <=> RowHolds(r, l)
         /\ \A e \in Closers : <<"close", e>> \in Backed(l) <=> CloseHolds(e, l)
         /\ \A p \in Launchers : <<"launch", p>> \in Backed(l)' <=> LaunchHolds(p, l)'
         /\ \A e \in Closers : <<"close", e>> \in Backed(l)' <=> CloseHolds(e, l)'
         /\ \A r \in Rows : <<"row", r>> \in Backed(l)' <=> RowHolds(r, l)'
BY DEF Backed

\* A slot is taken for the launch that acquires it.
LEMMA AcquireBacked ==
  ASSUME SlotInv, NothingLost, [Next]_vars, NEW p \in Launchers, TryAcquire(p)
  PROVE  SlotsBacked'
<1> USE DEF SlotInv, LifecycleInv
<1> SUFFICES ASSUME NEW l \in Labs PROVE labCount'[l] <= Cardinality(Backed(l)')
  BY DEF SlotsBacked
<1> DEFINE y == <<"launch", p>>
<1>1. launch[p].pc = "acquire" /\ launch[p].isNew /\ ~LaunchHolds(p, l) /\ LaunchStep(p)
  BY DEF TryAcquire, LaunchAt, LabsAgree, LaunchHolds, LaunchStep
<1>2. /\ IsFiniteSet(Backed(l)) /\ Cardinality(Backed(l)) \in Nat
      /\ IsFiniteSet(Backed(l)') /\ Cardinality(Backed(l)') \in Nat
      /\ labCount[l] <= Cardinality(Backed(l)) /\ labCount[l] \in Nat
  BY BackedFinite DEF SlotsBacked, TypeOK, QueueTypeOK
<1>3. y \notin Backed(l)
  BY <1>1, ClaimMembers
<1>4. UNCHANGED rows
  BY DEF TryAcquire
<1>5. Backed(l) \subseteq Backed(l)'
  <2>1. \A r \in Rows : RowHolds(r, l) => rows'[r].status \in Live /\ ~rows'[r].ended
    BY <1>4 DEF RowHolds
  <2>2. Backed(l) \ {y} \subseteq Backed(l)'
    BY <1>1, <2>1, LaunchKeeps
  <2> QED  BY <1>3, <2>2
<1>6. CASE labCount'[l] = labCount[l]
  BY <1>2, <1>5, <1>6, FS_Subset
<1>7. CASE labCount'[l] # labCount[l]
  <2>1. /\ launch[p].lab = l /\ labCount'[l] = labCount[l] + 1 /\ LaunchTo(p, "dequeue")
    BY <1>7 DEF TryAcquire, AcquireSlot, RejectSlot, queueVars, TypeOK, QueueTypeOK
  <2>2. LaunchHolds(p, l)'
    BY <1>1, <2>1, Moved DEF LaunchHolds
  <2>3. y \in Backed(l)'
    BY <2>2, ClaimMembers
  <2>4. Cardinality(Backed(l)) + 1 <= Cardinality(Backed(l)')
    BY <1>2, <1>3, <1>5, <2>3, GainOne
  <2> QED  BY <1>2, <2>1, <2>4
<1> QED  BY <1>6, <1>7

\* An insert hands the slot over to the row.
LEMMA InsertBacked ==
  ASSUME SlotInv, NothingLost, [Next]_vars, NEW p \in Launchers, InsertRow(p)
  PROVE  SlotsBacked'
<1> USE DEF SlotInv, LifecycleInv
<1> SUFFICES ASSUME NEW l \in Labs PROVE labCount'[l] <= Cardinality(Backed(l)')
  BY DEF SlotsBacked
<1>1. LaunchStep(p) /\ launch[p].pc = "insert" /\ UNCHANGED labCount
  BY DEF LaunchStep, InsertRow, LaunchAt, queueVars
<1> DEFINE x == <<"launch", p>>
<1>2. ASSUME NEW r \in Rows, RowHolds(r, l) PROVE rows'[r].status \in Live /\ ~rows'[r].ended
  BY <1>2 DEF InsertRow, RowHolds, Live, TypeOK
<1>3. Backed(l) \ {x} \subseteq Backed(l)'
  BY <1>1, <1>2, LaunchKeeps
<1>4. CASE Leave(p) /\ UNCHANGED rows
  <2>1. LaunchHolds(p, l) => LaunchHolds(p, l)'
    BY <1>4, Left DEF LaunchHolds
  <2>2. Backed(l) \subseteq Backed(l)'
    BY <1>3, <2>1, ClaimMembers
  <2> QED  BY <1>1, <2>2, NoneLost DEF SlotsBacked
<1>5. ASSUME NEW y \in Rows, rows[y].status = "none",
             rows' = [rows EXCEPT ![y] = [status |-> "provisioning", ended |-> FALSE,
                                          user |-> launch[p].user, lab |-> launch[p].lab,
                                          sid |-> FALSE]],
             launch' = [launch EXCEPT ![p].pc = "provision", ![p].row = y]
      PROVE  labCount'[l] <= Cardinality(Backed(l)')
  <2>1. ASSUME LaunchHolds(p, l) PROVE RowHolds(y, l)'
    <3>1. rows'[y].lab = l /\ rows'[y].status \in Live /\ ~rows'[y].ended
      BY <1>5, <2>1 DEF LaunchHolds, Live, TypeOK
    <3>2. launch'[p].isNew
      BY <1>5, <2>1 DEF LaunchHolds, TypeOK, LaunchStates
    <3>3. \A q \in Launchers : q # p => launch'[q] = launch[q] /\ launch[q].row # y
      BY <1>5, LifecycleAssumption DEF LaunchesSound, TypeOK, LaunchStates
    <3>4. \A q \in Launchers : Unpaid(q)' => launch'[q].row # y
      BY <3>2, <3>3 DEF Unpaid
    <3> QED  BY <3>1, <3>4 DEF RowHolds
  <2>2. ~RowHolds(y, l)
    BY <1>5 DEF RowHolds, Live
  <2> QED  BY <1>1, <1>3, <2>1, <2>2, ClaimMembers, StillBacked DEF SlotsBacked
<1> QED  BY <1>4, <1>5 DEF InsertRow

\* A failed launch takes the slot back from its row, to give it back.
LEMMA FailedBacked ==
  ASSUME SlotInv, NothingLost, [Next]_vars, NEW p \in Launchers, FinalizeError(p)
  PROVE  SlotsBacked'
<1> USE DEF SlotInv, LifecycleInv
<1> SUFFICES ASSUME NEW l \in Labs PROVE labCount'[l] <= Cardinality(Backed(l)')
  BY DEF SlotsBacked
<1> DEFINE r == launch[p].row
           x == <<"row", r>>
           y == <<"launch", p>>
<1>1. LaunchStep(p) /\ launch[p].pc = "fail" /\ UNCHANGED labCount
  BY DEF LaunchStep, FinalizeError, LaunchAt, queueVars
<1>2. r \in Rows
  BY <1>1 DEF LaunchesSound, TypeOK, LaunchStates
<1>3. ~LaunchHolds(p, l)
  BY <1>1 DEF LaunchHolds
<1>4. \A s \in Rows : RowHolds(s, l) /\ x # <<"row", s>> =>
                        rows'[s].status \in Live /\ ~rows'[s].ended
  BY DEF FinalizeError, RowHolds, TypeOK
<1>5. Backed(l) \ {x} \subseteq Backed(l)'
  <2> HIDE DEF x
  <2> QED  BY <1>1, <1>3, <1>4, LaunchKeeps
<1>6. ASSUME RowHolds(r, l) PROVE LaunchHolds(p, l)'
  <2>1. launch[p].isNew
    BY <1>1, <1>6 DEF RowHolds, Unpaid
  <2>2. launch[p].lab = l
    BY <1>1, <1>2, <1>6 DEF RowHolds, LabsAgree, LaunchesSound
  <2> QED  BY <2>1, <2>2, Left DEF FinalizeError, LaunchHolds
<1> QED  BY <1>1, <1>2, <1>3, <1>5, <1>6, ClaimMembers, StillBacked DEF SlotsBacked

\* A launch gives back the slot it holds.
LEMMA GivenBack ==
  ASSUME SlotInv, NothingLost, [Next]_vars, NEW p \in Launchers, GiveBack(p)
  PROVE  SlotsBacked'
<1> USE DEF SlotInv, LifecycleInv
<1> SUFFICES ASSUME NEW l \in Labs PROVE labCount'[l] <= Cardinality(Backed(l)')
  BY DEF SlotsBacked
<1> DEFINE x == <<"launch", p>>
<1>1. LaunchStep(p) /\ UNCHANGED rows /\ ReleaseSlot(launch[p].lab)
  BY DEF LaunchStep, GiveBack, NothingLost
<1>2. Backed(l) \ {x} \subseteq Backed(l)'
  BY <1>1, LaunchKeeps DEF RowHolds
<1>3. CASE launch[p].lab = l
  <2>1. labCount'[l] = Decremented(labCount[l])
    BY <1>1, <1>3 DEF ReleaseSlot, TypeOK, QueueTypeOK
  <2> QED  BY <1>2, <2>1, OneReleased DEF SlotsBacked
<1>4. CASE launch[p].lab # l
  <2>1. labCount'[l] = labCount[l]
    BY <1>1, <1>4 DEF ReleaseSlot, TypeOK, QueueTypeOK
  <2>2. x \notin Backed(l)
    BY <1>4, ClaimMembers DEF LaunchHolds
  <2> QED  BY <1>2, <2>1, <2>2, NoneLost DEF SlotsBacked
<1> QED  BY <1>3, <1>4

\* The other steps of a launch move no counter and no claim.
LEMMA LaunchBacked ==
  ASSUME SlotInv, NothingLost, [Next]_vars, NEW p \in Launchers, LaunchStep(p)
  PROVE  SlotsBacked'
<1> USE DEF SlotInv, LifecycleInv
<1>1. ASSUME UNCHANGED labCount,
             \A l \in Labs : LaunchHolds(p, l) => LaunchHolds(p, l)',
             \A l \in Labs : \A r \in Rows : RowHolds(r, l) =>
                                               rows'[r].status \in Live /\ ~rows'[r].ended
      PROVE  SlotsBacked'
  <2> SUFFICES ASSUME NEW l \in Labs PROVE labCount'[l] <= Cardinality(Backed(l)')
    BY DEF SlotsBacked
  <2>1. Backed(l) \ {<<"launch", p>>} \subseteq Backed(l)'
    BY <1>1, LaunchKeeps
  <2>2. Backed(l) \subseteq Backed(l)'
    BY <1>1, <2>1, ClaimMembers
  <2> QED  BY <1>1, <2>2, NoneLost DEF SlotsBacked
<1>2. ASSUME UNCHANGED rows, NEW l \in Labs, NEW r \in Rows, RowHolds(r, l)
      PROVE  rows'[r].status \in Live /\ ~rows'[r].ended
  BY <1>2 DEF RowHolds
<1>3. CASE LeaveQueue(p)
  <2>1. UNCHANGED <<labCount, rows>> /\ launch[p].pc = "dequeue" /\ LaunchTo(p, "lookup")
    BY <1>3 DEF LeaveQueue, LaunchAt, Dequeue, counterVars, NothingLost
  <2>2. \A l \in Labs : LaunchHolds(p, l) => LaunchHolds(p, l)'
    BY <2>1, Moved DEF LaunchHolds
  <2> QED  BY <1>1, <1>2, <2>1, <2>2
<1>4. CASE Lookup(p)
  <2>1. UNCHANGED <<labCount, rows>> /\ (Leave(p) \/ LaunchTo(p, "insert"))
    BY <1>4 DEF Lookup, queueVars
  <2>2. \A l \in Labs : LaunchHolds(p, l) => LaunchHolds(p, l)'
    BY <2>1, Moved, Left DEF LaunchHolds
  <2> QED  BY <1>1, <1>2, <2>1, <2>2
<1>5. CASE JoinQueue(p) \/ Provision(p) \/ StartNodes(p) \/ Publish(p)
  <2>1. /\ UNCHANGED <<labCount, rows>>
        /\ launch[p].pc \in {"enqueue", "provision", "start", "publish"}
    BY <1>5 DEF JoinQueue, Provision, StartNodes, Publish, LaunchAt, Enqueue, queueVars, counterVars
  <2>2. \A l \in Labs : ~LaunchHolds(p, l)
    BY <2>1 DEF LaunchHolds
  <2> QED  BY <1>1, <1>2, <2>1, <2>2
<1>6. CASE FinalizeActive(p)
  <2>1. UNCHANGED labCount /\ launch[p].pc = "finalize"
    BY <1>6 DEF FinalizeActive, LaunchAt, queueVars
  <2>2. \A l \in Labs : ~LaunchHolds(p, l)
    BY <2>1 DEF LaunchHolds
  <2>3. \A l \in Labs : \A r \in Rows : RowHolds(r, l) =>
                                          rows'[r].status \in Live /\ ~rows'[r].ended
    BY <1>6, ActiveRow DEF RowHolds, Live
  <2> QED  BY <1>1, <2>1, <2>2, <2>3
<1> QED
  BY <1>3, <1>4, <1>5, <1>6, AcquireBacked, InsertBacked, FailedBacked, GivenBack DEF LaunchStep

\* A closer takes the slot over from the row it ends, and gives it back.
LEMMA CloseBacked ==
  ASSUME SlotInv, NothingLost, [Next]_vars, NEW e \in Closers, CloseStep(e)
  PROVE  SlotsBacked'
<1> USE DEF SlotInv, LifecycleInv
<1> SUFFICES ASSUME NEW l \in Labs PROVE labCount'[l] <= Cardinality(Backed(l)')
  BY DEF SlotsBacked
<1> DEFINE r == close[e].row
           y == <<"close", e>>
<1>1. UNCHANGED launch /\ \A f \in Closers : f # e => close'[f] = close[f]
  BY CloseFrame
  DEF CloseStep, ReapReread, StateAnswered, MarkEnded, Measure, FreeSlot, Teardown
<1>2. ASSUME UNCHANGED <<labCount, rows>>, CloseHolds(e, l) => CloseHolds(e, l)'
      PROVE  labCount'[l] <= Cardinality(Backed(l)')
  <2>1. Backed(l) \ {y} \subseteq Backed(l)'
    BY <1>1, <1>2, CloseKeeps DEF CloseHolds, RowHolds
  <2>2. Backed(l) \subseteq Backed(l)'
    BY <1>2, <2>1, ClaimMembers
  <2> QED  BY <1>2, <2>2, NoneLost DEF SlotsBacked
<1>3. CASE ReapReread(e) \/ StateAnswered(e) \/ Teardown(e)
  <2>1. /\ UNCHANGED <<labCount, rows>>
        /\ close[e].pc \in {"reread", "ask", "teardown"}
    BY <1>3 DEF ReapReread, StateAnswered, Teardown, CloseAt, queueVars
  <2> QED  BY <1>2, <2>1 DEF CloseHolds
<1>4. CASE Measure(e)
  <2>1. UNCHANGED <<labCount, rows>> /\ CloseTo(e, "free")
    BY <1>4 DEF Measure, queueVars
  <2>2. close'[e].pc = "free" /\ close'[e].lab = close[e].lab
    BY <2>1 DEF CloseTo, TypeOK, CloseStates
  <2> QED  BY <1>2, <2>1, <2>2 DEF CloseHolds
<1>5. CASE MarkEnded(e)
  <2> DEFINE x == <<"row", r>>
  <2>1. close[e].pc = "mark" /\ UNCHANGED labCount /\ r \in Rows /\ close[e] # IdleClose
    BY <1>5 DEF MarkEnded, CloseAt, queueVars, ClosesSound, TypeOK, CloseStates, IdleClose
  <2>2. CASE UNCHANGED rows
    BY <1>2, <2>1, <2>2 DEF CloseHolds
  <2>3. CASE ~UNCHANGED rows
    <3>1. close'[e].pc = "measure" /\ close'[e].lab = close[e].lab
      BY <1>5, <2>3 DEF MarkEnded, TypeOK, CloseStates
    <3>2. \A s \in Rows : RowHolds(s, l) /\ x # <<"row", s>> =>
                            rows'[s].status \in Live /\ ~rows'[s].ended
      BY <1>5, EndedRow DEF RowHolds
    <3>3. \A f \in Closers : CloseHolds(f, l) /\ x # <<"close", f>> => CloseHolds(f, l)'
      BY <1>1, <2>1 DEF CloseHolds
    <3>4. Backed(l) \ {x} \subseteq Backed(l)'
      <4> HIDE DEF x
      <4> QED  BY <1>1, <3>2, <3>3, CloseKeeps
    <3>5. ASSUME RowHolds(r, l) PROVE CloseHolds(e, l)' /\ ~CloseHolds(e, l)
      BY <2>1, <3>1, <3>5 DEF RowHolds, CloseHolds, LabsAgree
    <3> QED  BY <2>1, <3>4, <3>5, ClaimMembers, StillBacked DEF SlotsBacked
  <2> QED  BY <2>2, <2>3
<1>6. CASE FreeSlot(e)
  <2>1. UNCHANGED rows /\ ReleaseSlot(close[e].lab)
    BY <1>6 DEF FreeSlot, NothingLost
  <2>2. Backed(l) \ {y} \subseteq Backed(l)'
    BY <1>1, <2>1, CloseKeeps DEF CloseHolds, RowHolds
  <2>3. CASE close[e].lab = l
    <3>1. labCount'[l] = Decremented(labCount[l])
      BY <2>1, <2>3 DEF ReleaseSlot, TypeOK, QueueTypeOK
    <3> QED  BY <2>2, <3>1, OneReleased DEF SlotsBacked
  <2>4. CASE close[e].lab # l
    <3>1. labCount'[l] = labCount[l]
      BY <2>1, <2>4 DEF ReleaseSlot, TypeOK, QueueTypeOK
    <3>2. y \notin Backed(l)
      BY <2>4, ClaimMembers DEF CloseHolds
    <3> QED  BY <2>2, <3>1, <3>2, NoneLost DEF SlotsBacked
  <2> QED  BY <2>3, <2>4
<1> QED  BY <1>3, <1>4, <1>5, <1>6 DEF CloseStep

\* A step that starts a request, or that only empties a counter, loses nothing.
LEMMA OtherBacked ==
  ASSUME SlotInv, NothingLost, [Next]_vars,
         \/ \E p \in Launchers, u \in Users, l \in Labs : Ask(p, u, l)
         \/ \E e \in Closers, r \in Rows : EndAsked(e, r) \/ StateAsked(e, r)
         \/ \E r \in Rows : ReapPick(r)
         \/ UNCHANGED <<labCount, rows, launch, close>>
         \/ CountersExpire
  PROVE  SlotsBacked'
<1> USE DEF SlotInv, LifecycleInv
<1> SUFFICES ASSUME NEW l \in Labs PROVE labCount'[l] <= Cardinality(Backed(l)')
  BY DEF SlotsBacked
<1>1. UNCHANGED rows
  BY DEF Ask, EndAsked, StateAsked, ReapPick, CountersExpire
<1>2. \A p \in Launchers : LaunchHolds(p, l) => LaunchHolds(p, l)'
  <2>1. ASSUME NEW p \in Launchers, LaunchHolds(p, l) PROVE launch'[p] = launch[p]
    BY <2>1 DEF LaunchHolds, LaunchAt, Ask, EndAsked, StateAsked, ReapPick, CountersExpire, TypeOK
  <2> QED  BY <2>1 DEF LaunchHolds
<1>3. \A e \in Closers : CloseHolds(e, l) => CloseHolds(e, l)'
  <2>1. ASSUME NEW e \in Closers, CloseHolds(e, l) PROVE close'[e] = close[e]
    BY <2>1
    DEF CloseHolds, CloseAt, Ask, EndAsked, StateAsked, ReapPick, Loaded, CountersExpire, TypeOK
  <2> QED  BY <2>1 DEF CloseHolds
<1>4. Backed(l) \subseteq Backed(l)'
  <2>1. \A r \in Rows : RowHolds(r, l) => RowHolds(r, l)'
    BY <1>1, RowKeepsClaim DEF RowHolds
  <2> QED  BY <1>2, <1>3, <2>1 DEF Backed
<1>5. CASE labCount'[l] = labCount[l]
  BY <1>4, <1>5, NoneLost DEF SlotsBacked
<1>6. CASE labCount'[l] # labCount[l]
  <2>1. labCount'[l] = 0
    BY <1>6
    DEF Ask, EndAsked, StateAsked, ReapPick, CountersExpire, ExpireLabCounter, ExpireTotalCounter,
        queueVars, TypeOK, QueueTypeOK
  <2> QED  BY <2>1, BackedFinite
<1> QED  BY <1>5, <1>6

-----------------------------------------------------------------------------
(* The theorem *)

\* At first no slot is counted.
LEMMA SlotInit == Init => SlotInv
<1> SUFFICES ASSUME Init PROVE SlotInv
  OBVIOUS
<1>1. \A l \in Labs : labCount[l] = 0
  BY DEF Init, QueueInit
<1> QED  BY <1>1, InitInv, LabsAgreeInit, BackedFinite DEF SlotInv, SlotsBacked

\* Every step keeps the slots backed.
LEMMA SlotNext == ASSUME NothingLost PROVE SlotInv /\ [Next]_vars => SlotInv'
<1> SUFFICES ASSUME SlotInv, [Next]_vars PROVE SlotInv'
  OBVIOUS
<1>1. LifecycleInv'
  BY NextInv DEF SlotInv
<1>2. LabsAgree'
  BY LabsAgreeStep DEF SlotInv
<1>3. SlotsBacked'
  BY LaunchBacked, CloseBacked, OtherBacked, StepKinds
<1> QED  BY <1>1, <1>2, <1>3 DEF SlotInv

\* What backs a slot is a claim.
LEMMA BackedAreClaims == SlotInv => NoSlotLeak
<1> SUFFICES ASSUME SlotInv, NEW l \in Labs PROVE labCount[l] <= Cardinality(Claims(l))
  BY DEF NoSlotLeak
<1>1. Backed(l) \subseteq Claims(l) /\ Claims(l) \subseteq AllClaims
  BY DEF Backed, Claims, AllClaims, LaunchHolds, RowHolds, CloseHolds
<1>2. /\ IsFiniteSet(Claims(l)) /\ Cardinality(Claims(l)) \in Nat
      /\ Cardinality(Backed(l)) \in Nat
  BY <1>1, ClaimsFinite, BackedFinite
<1>3. Cardinality(Backed(l)) <= Cardinality(Claims(l))
  BY <1>1, <1>2, FS_Subset
<1> QED
  BY <1>2, <1>3 DEF SlotInv, SlotsBacked, LifecycleInv, TypeOK, QueueTypeOK

\* However launches, resumptions, failures and ends of sessions interleave, each
\* taken slot of a lab has somebody who will give it back, provided that the
\* process does not restart, no account is erased and Redis answers.
THEOREM NoSlotIsLost == ASSUME NothingLost PROVE Spec => []NoSlotLeak
BY SlotInit, SlotNext, BackedAreClaims, PTL DEF Spec
-----------------------------------------------------------------------------
(***************************************************************************)
(* The counters are exact, for every instance of SessionLifecycle in which *)
(* a learner's requests do not overlap the end of their session and Redis  *)
(* answers; GNS3 may fail, accounts may be erased and the process may      *)
(* restart.                                                                *)
(*                                                                         *)
(* SlotsExact speaks of the claims before a restart or an erasure.  To be  *)
(* inductive it must say who holds a slot after one: a launch whose row is *)
(* erased under it still gives the slot back, so it holds it (Stranded).   *)
(* HoldersCounted is what survives a restart and an erasure, and what      *)
(* bounds the open sessions.  The rest says why no holder is ever without  *)
(* a slot: whoever has a row has paid for it, a launch that took no slot   *)
(* finds its session still there, and who ends a session is alone with it. *)
(***************************************************************************)
\* Nothing but GNS3, erasures and restarts interferes with a session.
Calm == {"redis", "overlap", "endFailed"} \cap Perils = {}

\* A launch whose row went with its learner's account: it will find that out
\* and give back the slot.
Stranded(p, l) ==
  launch[p].lab = l /\ launch[p].pc \in {"provision", "finalize", "fail", "start"}
  /\ rows[launch[p].row].status = "erased"

\* Who holds a slot of lab l, as for NoSlotLeak, with the stranded launches.
LaunchHeld(p, l) == LaunchHolds(p, l) \/ Stranded(p, l)
RowHeld(r, l) == rows[r].lab = l /\ rows[r].status \in Live /\ ~rows[r].ended

Holders(l) ==
  ({"launch"} \X {p \in Launchers : LaunchHeld(p, l)})
  \cup ({"row"} \X {r \in Rows : RowHeld(r, l)})
  \cup ({"close"} \X {e \in Closers : CloseHolds(e, l)})
AllHolders == UNION {Holders(l) : l \in Labs}

\* What a row is when no request overlaps the end of its session.
RowSettled(row) ==
  /\ row.status \notin {"none", "erased"} => row.user \in accounts /\ row.lab \in Labs
  /\ row.status \in {"none", "erased"} => row.user = None /\ row.lab = None
  /\ row.ended <=> row.status = "ended"
  /\ row.sid => row.status \in {"active", "ended"}
  /\ row.status = "erased" => accounts # Users
RowsSettled == \A r \in Rows : RowSettled(rows[r])

\* A row that is overdue, or that a closer is about to end, is no launch's row
\* and its launch did not fail.
Settled == {"erased", "ended"} \cup Live
DueSettled == /\ \A r \in due : ~InFlight(r) /\ rows[r].status \in Settled
              /\ \A x \in selected : x[1] \in due

\* The row a launch works on is as the launch left it, or erased.
OwnRow(n, row) ==
  row.status = "erased"
  \/ (/\ row.lab = n.lab /\ row.user = n.user
      /\ row.status = IF n.pc \in {"provision", "finalize", "fail"}
                      THEN "provisioning" ELSE "active")
\* A launch with a row took a slot for it; one that took none resumes a session
\* that is still active, unless its learner is erased meanwhile.
Paid(n) ==
  /\ n.pc \in {"acquire", "dequeue", "enqueue", "release"} \/ n.row # None => n.isNew
  /\ n.row # None => OwnRow(n, rows[n.row])
  /\ n.pc # "idle" /\ ~n.isNew /\ n.user \in accounts
       => n.pc = "lookup" /\ ActiveRowsOn(n.user, n.lab) # {}
AllPaid == \A p \in Launchers : Paid(launch[p])

\* What a closer has read of its row is still so.
Knows(c) ==
  /\ c.row # None /\ Exists(c.row) => c.lab = rows[c.row].lab
  /\ c.pc \in {"ask", "reread", "mark"} => rows[c.row].status \in Settled
  /\ c.pc \in {"ask", "mark"} /\ Exists(c.row) => (c.ended <=> rows[c.row].ended)
  /\ c.pc \in {"measure", "free"} => c.lab \in Labs
AllKnow == \A e \in Closers : Knows(close[e])

\* Whoever ends a session is alone with its learner.
OwnerOf(e) == rows[close[e].row].user
AllApart ==
  \A e \in Closers : close[e].row # None /\ OwnerOf(e) # None =>
    /\ \A p \in Launchers : launch[p].pc # "idle" => launch[p].user # OwnerOf(e)
    /\ \A f \in Closers : close[f].row # None /\ OwnerOf(f) = OwnerOf(e) => f = e

\* Every holder is counted, and nobody else until a restart or an erasure.
HoldersCounted == \A l \in Labs : Cardinality(Holders(l)) <= labCount[l]
Exact ==
  crashes = 0 /\ accounts = Users =>
    /\ \A l \in Labs : labCount[l] = Cardinality(Holders(l))
    /\ total = Cardinality(AllHolders)

ExactInv == LifecycleInv /\ RowsSettled /\ DueSettled /\ AllPaid /\ AllKnow /\ AllApart
            /\ HoldersCounted /\ Exact
-----------------------------------------------------------------------------
(* Counting the holders *)

\* There are finitely many holders, before a step and after it.
LEMMA HoldersFinite ==
  /\ \A l : /\ IsFiniteSet(Holders(l)) /\ Cardinality(Holders(l)) \in Nat
            /\ IsFiniteSet(Holders(l)') /\ Cardinality(Holders(l)') \in Nat
  /\ IsFiniteSet(AllHolders) /\ Cardinality(AllHolders) \in Nat
  /\ IsFiniteSet(AllHolders') /\ Cardinality(AllHolders') \in Nat
<1>1. \A l : Holders(l) \subseteq AllClaims /\ Holders(l)' \subseteq AllClaims
  BY DEF Holders, AllClaims
<1>2. AllHolders \subseteq AllClaims /\ AllHolders' \subseteq AllClaims
  BY <1>1 DEF AllHolders
<1> QED  BY <1>1, <1>2, ClaimsFinite

\* Who holds a slot of which lab.
LEMMA HolderMembers ==
  ASSUME NEW l
  PROVE  /\ \A p \in Launchers : <<"launch", p>> \in Holders(l) <=> LaunchHeld(p, l)
         /\ \A r \in Rows : <<"row", r>> \in Holders(l) <=> RowHeld(r, l)
         /\ \A e \in Closers : <<"close", e>> \in Holders(l) <=> CloseHolds(e, l)
         /\ \A p \in Launchers : <<"launch", p>> \in Holders(l)' <=> LaunchHeld(p, l)'
         /\ \A r \in Rows : <<"row", r>> \in Holders(l)' <=> RowHeld(r, l)'
         /\ \A e \in Closers : <<"close", e>> \in Holders(l)' <=> CloseHolds(e, l)'
BY DEF Holders

\* Nobody holds a slot of two labs.
LEMMA OneLabEach ==
  ASSUME NEW l, NEW m, NEW x \in Holders(l), x \in Holders(m)
  PROVE  l = m
BY DEF Holders, LaunchHeld, LaunchHolds, Stranded, RowHeld, CloseHolds

\* Who is not one of X holds a slot of l after the step if it did before.
SameBut(l, X) ==
  /\ \A p \in Launchers : <<"launch", p>> \notin X => (LaunchHeld(p, l)' <=> LaunchHeld(p, l))
  /\ \A r \in Rows : <<"row", r>> \notin X => (RowHeld(r, l)' <=> RowHeld(r, l))
  /\ \A e \in Closers : <<"close", e>> \notin X => (CloseHolds(e, l)' <=> CloseHolds(e, l))

\* Then the others are the same set.
LEMMA SameButHolders ==
  ASSUME NEW l, NEW X, SameBut(l, X)
  PROVE  Holders(l)' \ X = Holders(l) \ X
<1>1. ASSUME NEW h, h \notin X PROVE h \in Holders(l)' <=> h \in Holders(l)
  BY <1>1 DEF SameBut, Holders
<1> QED  BY <1>1

\* When none of X holds a slot of l before or after, nothing changes for l.
LEMMA NotTheirLab ==
  ASSUME NEW l, NEW X, SameBut(l, X), \A h \in X : h \notin Holders(l) /\ h \notin Holders(l)'
  PROVE  Holders(l)' = Holders(l)
<1>1. Holders(l)' \ X = Holders(l) \ X
  BY SameButHolders
<1> QED  BY <1>1

\* One holder for another.
LEMMA Swapped ==
  ASSUME NEW S, IsFiniteSet(S), NEW x \in S, NEW y, y \notin S
  PROVE  Cardinality((S \ {x}) \cup {y}) = Cardinality(S)
<1>0. Cardinality(S) \in Nat
  BY FS_CardinalityType
<1>1. /\ IsFiniteSet(S \ {x}) /\ Cardinality(S \ {x}) = Cardinality(S) - 1
  BY FS_RemoveElement
<1>2. Cardinality((S \ {x}) \cup {y}) = Cardinality(S \ {x}) + 1
  BY <1>1, FS_AddElement
<1> QED  BY <1>0, <1>1, <1>2

\* The process has not restarted and no account is erased after a step only if
\* that was so before.
LEMMA CalmBefore ==
  ASSUME TypeOK, [Next]_vars, crashes' = 0, accounts' = Users
  PROVE  crashes = 0 /\ accounts = Users
<1>1. crashes' = crashes \/ crashes' = crashes + 1
  BY DEF Next, vars, LaunchStep, CloseStep, TryAcquire, LeaveQueue, JoinQueue, Lookup, InsertRow,
         Provision, FinalizeActive, FinalizeError, StartNodes, Publish, GiveBack, ReapReread,
         StateAnswered, MarkEnded, Measure, FreeSlot, Teardown, Ask, EndAsked, StateAsked,
         ReapSelect, ReapPick, FallDue, LoseGns3, Erase, Crash, CountersExpire, QueueExpires
<1>2. accounts' \subseteq accounts
  BY DEF Next, vars, LaunchStep, CloseStep, TryAcquire, LeaveQueue, JoinQueue, Lookup, InsertRow,
         Provision, FinalizeActive, FinalizeError, StartNodes, Publish, GiveBack, ReapReread,
         StateAnswered, MarkEnded, Measure, FreeSlot, Teardown, Ask, EndAsked, StateAsked,
         ReapSelect, ReapPick, FallDue, LoseGns3, Erase, Crash, CountersExpire, QueueExpires
<1> QED  BY <1>1, <1>2, LifecycleAssumption DEF TypeOK

\* A step that moves no counter and no holder.
LEMMA NobodyMoves ==
  ASSUME TypeOK, [Next]_vars, HoldersCounted, Exact, UNCHANGED <<labCount, total>>,
         \A l \in Labs : SameBut(l, {})
  PROVE  HoldersCounted' /\ Exact'
<1>1. \A l \in Labs : Holders(l)' = Holders(l)
  BY SameButHolders
<1>2. AllHolders' = AllHolders
  BY <1>1 DEF AllHolders
<1>3. HoldersCounted'
  BY <1>1 DEF HoldersCounted
<1>4. Exact'
  BY <1>1, <1>2, CalmBefore DEF Exact
<1> QED  BY <1>3, <1>4

\* A step that moves a slot of lab k from x to y.
LEMMA SlotMoves ==
  ASSUME TypeOK, [Next]_vars, HoldersCounted, Exact, UNCHANGED <<labCount, total>>,
         NEW k \in Labs, NEW x, NEW y, x # y,
         \A l \in Labs : SameBut(l, {x, y}),
         \A l \in Labs : x \in Holders(l) <=> l = k,
         \A l \in Labs : y \in Holders(l)' <=> l = k,
         \A l \in Labs : y \notin Holders(l) /\ x \notin Holders(l)'
  PROVE  HoldersCounted' /\ Exact'
<1>1. ASSUME NEW l \in Labs, l # k PROVE Holders(l)' = Holders(l)
  <2> DEFINE X == {x, y}
  <2>1. SameBut(l, X) /\ \A h \in X : h \notin Holders(l) /\ h \notin Holders(l)'
    BY <1>1
  <2> HIDE DEF X
  <2> QED  BY <2>1, NotTheirLab
<1>2. Holders(k)' = (Holders(k) \ {x}) \cup {y}
  <2> DEFINE X == {x, y}
  <2>0. SameBut(k, X)
    OBVIOUS
  <2>1. Holders(k)' \ X = Holders(k) \ X
    <3> HIDE DEF X
    <3> QED  BY <2>0, SameButHolders
  <2>2. y \in Holders(k)' /\ y \notin Holders(k) /\ x \notin Holders(k)'
    OBVIOUS
  <2> QED  BY <2>1, <2>2
<1>3. Cardinality(Holders(k)') = Cardinality(Holders(k))
  BY <1>2, HoldersFinite, Swapped
<1>4. AllHolders' = (AllHolders \ {x}) \cup {y} /\ x \in AllHolders /\ y \notin AllHolders
  BY <1>1, <1>2 DEF AllHolders
<1>5. Cardinality(AllHolders') = Cardinality(AllHolders)
  BY <1>4, HoldersFinite, Swapped
<1>6. HoldersCounted'
  BY <1>1, <1>3 DEF HoldersCounted
<1>7. Exact'
  BY <1>1, <1>3, <1>5, CalmBefore DEF Exact
<1> QED  BY <1>6, <1>7

\* A step that takes a slot of lab k for y.
LEMMA SlotTaken ==
  ASSUME TypeOK, [Next]_vars, HoldersCounted, Exact,
         NEW k \in Labs, NEW y, AcquireSlot(k),
         \A l \in Labs : SameBut(l, {y}),
         \A l \in Labs : y \in Holders(l)' <=> l = k,
         \A l \in Labs : y \notin Holders(l)
  PROVE  HoldersCounted' /\ Exact'
<1>0. /\ \A l \in Labs : labCount[l] \in Nat
      /\ labCount'[k] = labCount[k] + 1 /\ total' = total + 1
      /\ \A l \in Labs : l # k => labCount'[l] = labCount[l]
  BY DEF AcquireSlot, TypeOK, QueueTypeOK
<1>1. ASSUME NEW l \in Labs, l # k PROVE Holders(l)' = Holders(l)
  <2> DEFINE X == {y}
  <2>1. SameBut(l, X) /\ \A h \in X : h \notin Holders(l) /\ h \notin Holders(l)'
    BY <1>1
  <2> HIDE DEF X
  <2> QED  BY <2>1, NotTheirLab
<1>2. Holders(k)' = Holders(k) \cup {y}
  <2> DEFINE X == {y}
  <2>0. SameBut(k, X)
    OBVIOUS
  <2>1. Holders(k)' \ X = Holders(k) \ X
    <3> HIDE DEF X
    <3> QED  BY <2>0, SameButHolders
  <2> QED  BY <2>1
<1>3. Cardinality(Holders(k)') = Cardinality(Holders(k)) + 1
  BY <1>2, HoldersFinite, FS_AddElement
<1>4. AllHolders' = AllHolders \cup {y} /\ y \notin AllHolders
  BY <1>1, <1>2 DEF AllHolders
<1>5. Cardinality(AllHolders') = Cardinality(AllHolders) + 1
  BY <1>4, HoldersFinite, FS_AddElement
<1>6. HoldersCounted'
  BY <1>0, <1>1, <1>3, HoldersFinite DEF HoldersCounted
<1>7. Exact'
  BY <1>0, <1>1, <1>3, <1>5, CalmBefore DEF Exact
<1> QED  BY <1>6, <1>7

\* A step that gives back the slot of lab k that x holds.
LEMMA SlotGivenBack ==
  ASSUME TypeOK, [Next]_vars, HoldersCounted, Exact,
         NEW k \in Labs, NEW x, ReleaseSlot(k),
         \A l \in Labs : SameBut(l, {x}),
         \A l \in Labs : x \in Holders(l) <=> l = k,
         \A l \in Labs : x \notin Holders(l)'
  PROVE  HoldersCounted' /\ Exact'
<1>0. /\ \A l \in Labs : labCount[l] \in Nat
      /\ labCount'[k] = Decremented(labCount[k]) /\ total' = Decremented(total)
      /\ \A l \in Labs : l # k => labCount'[l] = labCount[l]
  BY DEF ReleaseSlot, TypeOK, QueueTypeOK
<1>1. ASSUME NEW l \in Labs, l # k PROVE Holders(l)' = Holders(l)
  <2> DEFINE X == {x}
  <2>1. SameBut(l, X) /\ \A h \in X : h \notin Holders(l) /\ h \notin Holders(l)'
    BY <1>1
  <2> HIDE DEF X
  <2> QED  BY <2>1, NotTheirLab
<1>2. Holders(k)' = Holders(k) \ {x} /\ x \in Holders(k)
  <2> DEFINE X == {x}
  <2>0. SameBut(k, X)
    OBVIOUS
  <2>1. Holders(k)' \ X = Holders(k) \ X
    <3> HIDE DEF X
    <3> QED  BY <2>0, SameButHolders
  <2> QED  BY <2>1
<1>3. /\ Cardinality(Holders(k)') = Cardinality(Holders(k)) - 1
  BY <1>2, HoldersFinite, FS_RemoveElement
<1>4. AllHolders' = AllHolders \ {x} /\ x \in AllHolders
  BY <1>1, <1>2 DEF AllHolders
<1>5. Cardinality(AllHolders') = Cardinality(AllHolders) - 1
  BY <1>4, HoldersFinite, FS_RemoveElement
<1>6. Cardinality(Holders(k)) > 0 /\ Cardinality(AllHolders) > 0
  <2>1. Cardinality(Holders(k)') \in Nat /\ Cardinality(AllHolders') \in Nat
        /\ Cardinality(Holders(k)) \in Nat /\ Cardinality(AllHolders) \in Nat
    BY HoldersFinite
  <2> QED  BY <1>3, <1>5, <2>1
<1>7. labCount'[k] = labCount[k] - 1
  <2>1. Cardinality(Holders(k)) <= labCount[k]
    BY DEF HoldersCounted
  <2> QED  BY <1>0, <1>6, <2>1, HoldersFinite DEF Decremented
<1>8. HoldersCounted'
  <2>1. Cardinality(Holders(k)) <= labCount[k]
    BY DEF HoldersCounted
  <2>2. Cardinality(Holders(k)') <= labCount'[k]
    BY <1>0, <1>3, <1>7, <2>1, HoldersFinite
  <2> QED  BY <1>0, <1>1, <2>2 DEF HoldersCounted
<1>9. Exact'
  <2>1. CASE crashes' = 0 /\ accounts' = Users
    <3>1. /\ \A l \in Labs : labCount[l] = Cardinality(Holders(l))
          /\ total = Cardinality(AllHolders)
      BY <2>1, CalmBefore DEF Exact
    <3>2. total' = total - 1
      BY <1>0, <1>6, <3>1, HoldersFinite DEF Decremented
    <3> QED  BY <1>0, <1>1, <1>3, <1>5, <1>7, <3>1, <3>2 DEF Exact
  <2> QED  BY <2>1 DEF Exact
<1> QED  BY <1>8, <1>9
-----------------------------------------------------------------------------
(* Rows, launches and closers stay in step *)

\* Accounts go by erasure only.
LEMMA AccountsFrame ==
  ASSUME [Next]_vars
  PROVE  accounts' = accounts \/ \E u \in Users : Erase(u)
BY DEF Next, vars, LaunchStep, CloseStep, TryAcquire, LeaveQueue, JoinQueue, Lookup, InsertRow,
       Provision, FinalizeActive, FinalizeError, StartNodes, Publish, GiveBack, ReapReread,
       StateAnswered, MarkEnded, Measure, FreeSlot, Teardown, Ask, EndAsked, StateAsked,
       ReapSelect, ReapPick, FallDue, LoseGns3, Crash, CountersExpire, QueueExpires

\* The row an erasure leaves.
LEMMA ErasedRow ==
  ASSUME TypeOK, NEW u \in Users, Erase(u), NEW r \in Rows
  PROVE  IF rows[r].user = u
         THEN /\ rows'[r].status = "erased" /\ ~rows'[r].ended /\ ~rows'[r].sid
              /\ rows'[r].user = None /\ rows'[r].lab = None
         ELSE rows'[r] = rows[r]
BY DEF Erase, NoRow

\* The row an insert makes.
LEMMA InsertedRow ==
  ASSUME TypeOK, NEW p \in Launchers, InsertRow(p)
  PROVE  \/ Leave(p) /\ UNCHANGED rows
         \/ \E x \in Rows :
              /\ rows[x].status = "none"
              /\ \A r \in Rows : r # x => rows'[r] = rows[r]
              /\ rows'[x].status = "provisioning" /\ ~rows'[x].ended /\ ~rows'[x].sid
              /\ rows'[x].user = launch[p].user /\ rows'[x].lab = launch[p].lab
              /\ launch[p].user \in accounts
              /\ launch'[p].pc = "provision" /\ launch'[p].row = x
              /\ launch'[p].user = launch[p].user /\ launch'[p].lab = launch[p].lab
              /\ launch'[p].isNew = launch[p].isNew
              /\ \A q \in Launchers : q # p => launch'[q] = launch[q]
<1>1. ASSUME NEW x \in Rows, rows[x].status = "none", launch[p].user \in accounts,
             rows' = [rows EXCEPT ![x] = [status |-> "provisioning", ended |-> FALSE,
                                          user |-> launch[p].user, lab |-> launch[p].lab,
                                          sid |-> FALSE]],
             launch' = [launch EXCEPT ![p].pc = "provision", ![p].row = x]
      PROVE  /\ \A r \in Rows : r # x => rows'[r] = rows[r]
             /\ rows'[x].status = "provisioning" /\ ~rows'[x].ended /\ ~rows'[x].sid
             /\ rows'[x].user = launch[p].user /\ rows'[x].lab = launch[p].lab
             /\ launch'[p].pc = "provision" /\ launch'[p].row = x
             /\ launch'[p].user = launch[p].user /\ launch'[p].lab = launch[p].lab
             /\ launch'[p].isNew = launch[p].isNew
             /\ \A q \in Launchers : q # p => launch'[q] = launch[q]
  <2>1. LET n == [launch[p] EXCEPT !.pc = "provision", !.row = x]
        IN /\ launch'[p] = n /\ n.row = x /\ n.pc = "provision" /\ n.user = launch[p].user
           /\ n.lab = launch[p].lab /\ n.isNew = launch[p].isNew
    BY <1>1 DEF TypeOK, LaunchStates
  <2>2. \A q \in Launchers : q # p => launch'[q] = launch[q]
    BY <1>1 DEF TypeOK
  <2>3. /\ \A r \in Rows : r # x => rows'[r] = rows[r]
        /\ rows'[x].status = "provisioning" /\ ~rows'[x].ended /\ ~rows'[x].sid
        /\ rows'[x].user = launch[p].user /\ rows'[x].lab = launch[p].lab
    BY <1>1 DEF TypeOK
  <2> QED  BY <2>1, <2>2, <2>3
<1> QED  BY <1>1 DEF InsertRow

\* The row a failed launch leaves.
LEMMA FailedRow ==
  ASSUME TypeOK, NEW p \in Launchers, FinalizeError(p), NEW r \in Rows
  PROVE  \/ rows'[r] = rows[r] /\ (r = launch[p].row => ~Exists(r))
         \/ /\ r = launch[p].row /\ Exists(r) /\ rows'[r].status = "error"
            /\ rows'[r].ended = rows[r].ended /\ rows'[r].sid = rows[r].sid
            /\ rows'[r].user = rows[r].user /\ rows'[r].lab = rows[r].lab
BY DEF FinalizeError, TypeOK, RowStates

\* What a launch that writes its row finds there.
LEMMA LaunchRow ==
  ASSUME TypeOK, LaunchesSound, AllPaid, RowsSettled, NEW p \in Launchers,
         launch[p].pc \in {"provision", "finalize", "fail", "start", "publish"}
  PROVE  /\ launch[p].row \in Rows /\ launch[p].row # None /\ launch[p].isNew
         /\ launch[p].user \in Users /\ launch[p].lab \in Labs
         /\ OwnRow(launch[p], rows[launch[p].row])
         /\ ~rows[launch[p].row].ended
<1>1. /\ launch[p].row \in Rows /\ launch[p].row # None
      /\ launch[p].user \in Users /\ launch[p].lab \in Labs
  BY DEF LaunchesSound, TypeOK, LaunchStates
<1>2. launch[p].isNew /\ OwnRow(launch[p], rows[launch[p].row])
  BY <1>1 DEF AllPaid, Paid
<1>3. rows[launch[p].row].status # "ended"
  BY <1>2 DEF OwnRow
<1> QED  BY <1>1, <1>2, <1>3 DEF RowsSettled, RowSettled

\* The rows stay settled.
LEMMA SettledStep ==
  ASSUME LifecycleInv, RowsSettled, AllPaid, [Next]_vars
  PROVE  RowsSettled'
<1> USE DEF LifecycleInv
<1> SUFFICES ASSUME NEW r \in Rows PROVE RowSettled(rows[r])'
  BY DEF RowsSettled
<1>0. RowSettled(rows[r])
  BY DEF RowsSettled
<1>1. CASE rows'[r] = rows[r] /\ accounts' = accounts
  BY <1>0, <1>1 DEF RowSettled
<1>2. ASSUME NEW u \in Users, Erase(u) PROVE RowSettled(rows[r])'
  <2>1. u \in accounts /\ accounts' = accounts \ {u}
    BY <1>2 DEF Erase
  <2>2. accounts' # Users
    BY <2>1
  <2>3. CASE rows[r].user = u
    BY <1>2, <2>2, <2>3, ErasedRow DEF RowSettled
  <2>4. CASE rows[r].user # u
    <3>1. rows'[r] = rows[r]
      BY <1>2, <2>4, ErasedRow
    <3> QED  BY <1>0, <2>1, <2>2, <2>4, <3>1 DEF RowSettled
  <2> QED  BY <2>3, <2>4
<1>3. ASSUME NEW p \in Launchers, InsertRow(p), accounts' = accounts PROVE RowSettled(rows[r])'
  <2>1. launch[p].lab \in Labs
    BY <1>3 DEF InsertRow, LaunchAt, LaunchesSound
  <2>2. CASE rows'[r] = rows[r]
    BY <1>1, <1>3, <2>2
  <2>3. CASE rows'[r] # rows[r]
    <3>1. /\ rows'[r].status = "provisioning" /\ ~rows'[r].ended /\ ~rows'[r].sid
          /\ rows'[r].user \in accounts /\ rows'[r].lab = launch[p].lab
      BY <1>3, <2>3, InsertedRow
    <3> QED  BY <1>3, <2>1, <3>1 DEF RowSettled
  <2> QED  BY <2>2, <2>3
<1>4. ASSUME NEW p \in Launchers, FinalizeActive(p) \/ FinalizeError(p), accounts' = accounts
      PROVE  RowSettled(rows[r])'
  <2>1. CASE rows'[r] = rows[r]
    BY <1>1, <1>4, <2>1
  <2>2. CASE rows'[r] # rows[r]
    <3>1. /\ r = launch[p].row /\ Exists(r) /\ rows'[r].ended = rows[r].ended
          /\ rows'[r].user = rows[r].user /\ rows'[r].lab = rows[r].lab
          /\ \/ rows'[r].status = "active"
             \/ rows'[r].status = "error" /\ rows'[r].sid = rows[r].sid
      BY <1>4, <2>2, ActiveRow, FailedRow
    <3>2. launch[p].pc \in {"finalize", "fail"}
      BY <1>4 DEF FinalizeActive, FinalizeError, LaunchAt
    <3>3. ~rows[r].ended /\ OwnRow(launch[p], rows[r])
      BY <3>1, <3>2, LaunchRow
    <3>4. rows[r].status = "provisioning"
      BY <3>1, <3>2, <3>3 DEF OwnRow, Exists
    <3> QED  BY <1>0, <1>4, <3>1, <3>3, <3>4 DEF RowSettled
  <2> QED  BY <2>1, <2>2
<1>5. ASSUME NEW e \in Closers, MarkEnded(e), accounts' = accounts PROVE RowSettled(rows[r])'
  <2>1. CASE rows'[r] = rows[r]
    BY <1>1, <1>5, <2>1
  <2>2. CASE rows'[r] # rows[r]
    <3>1. /\ Exists(r) /\ rows'[r].status = "ended" /\ rows'[r].ended
          /\ rows'[r].user = rows[r].user /\ rows'[r].lab = rows[r].lab
      BY <1>5, <2>2, EndedRow
    <3> QED  BY <1>0, <1>5, <3>1 DEF RowSettled, Exists
  <2> QED  BY <2>1, <2>2
<1>6. CASE UNCHANGED <<rows, accounts>>
  BY <1>1, <1>6
<1> QED  BY <1>2, <1>3, <1>4, <1>5, <1>6, RowWriters, AccountsFrame

\* How the record of a launch can change.
LEMMA LaunchMovers ==
  ASSUME TypeOK, [Next]_vars, NEW p \in Launchers
  PROVE  \/ launch'[p] = launch[p]
         \/ LaunchStep(p)
         \/ \E u \in Users, l \in Labs : Ask(p, u, l)
         \/ Crash
<1>1. ASSUME NEW q \in Launchers, q # p, LaunchStep(q) PROVE launch'[p] = launch[p]
  BY <1>1, LaunchFrame
<1>2. ASSUME NEW q \in Launchers, q # p, NEW u \in Users, NEW l \in Labs, Ask(q, u, l)
      PROVE  launch'[p] = launch[p]
  BY <1>2 DEF Ask, TypeOK
<1>3. \/ UNCHANGED launch
      \/ \E q \in Launchers : LaunchStep(q) \/ \E u \in Users, l \in Labs : Ask(q, u, l)
      \/ Crash
  BY DEF Next, vars, CloseStep, ReapReread, StateAnswered, MarkEnded, Measure, FreeSlot, Teardown,
         EndAsked, StateAsked, ReapSelect, ReapPick, FallDue, LoseGns3, Erase, CountersExpire,
         QueueExpires
<1>4. ASSUME NEW q \in Launchers, LaunchStep(q) \/ \E u \in Users, l \in Labs : Ask(q, u, l)
      PROVE  \/ launch'[p] = launch[p]
             \/ LaunchStep(p)
             \/ \E u \in Users, l \in Labs : Ask(p, u, l)
  <2>1. CASE q = p
    BY <1>4, <2>1
  <2>2. CASE q # p
    BY <1>1, <1>2, <1>4, <2>2
  <2> QED  BY <2>1, <2>2
<1> QED  BY <1>3, <1>4

\* How the record of a closer can change.
LEMMA CloseMovers ==
  ASSUME TypeOK, [Next]_vars, NEW e \in Closers
  PROVE  \/ close'[e] = close[e]
         \/ CloseStep(e)
         \/ \E r \in Rows : EndAsked(e, r) \/ StateAsked(e, r) \/ (ReapPick(r) /\ e = Reaper)
         \/ Crash
<1>1. ASSUME NEW f \in Closers, f # e, CloseStep(f) PROVE close'[e] = close[e]
  BY <1>1, CloseFrame
<1>2. ASSUME NEW f \in Closers, f # e, NEW r \in Rows,
             EndAsked(f, r) \/ StateAsked(f, r) \/ (ReapPick(r) /\ f = Reaper)
      PROVE  close'[e] = close[e]
  BY <1>2 DEF TypeOK, EndAsked, StateAsked, ReapPick, Loaded
<1>3. \/ UNCHANGED close
      \/ \E f \in Closers : CloseStep(f) \/ \E r \in Rows : EndAsked(f, r) \/ StateAsked(f, r)
      \/ \E r \in Rows : ReapPick(r)
      \/ Crash
  BY DEF Next, vars, LaunchStep, TryAcquire, LeaveQueue, JoinQueue, Lookup, InsertRow, Provision,
         FinalizeActive, FinalizeError, StartNodes, Publish, GiveBack, Ask, ReapSelect, FallDue,
         LoseGns3, Erase, CountersExpire, QueueExpires
<1> DEFINE Loads(f) == \E r \in Rows : EndAsked(f, r) \/ StateAsked(f, r)
                                        \/ (ReapPick(r) /\ f = Reaper)
<1>4. ASSUME NEW f \in Closers, CloseStep(f) \/ Loads(f)
      PROVE  close'[e] = close[e] \/ CloseStep(e) \/ Loads(e)
  <2>1. CASE f = e
    BY <1>4, <2>1
  <2>2. CASE f # e
    BY <1>1, <1>2, <1>4, <2>2
  <2> QED  BY <2>1, <2>2
<1>5. \/ UNCHANGED close
      \/ \E f \in Closers : CloseStep(f) \/ Loads(f)
      \/ Crash
  BY <1>3, LifecycleAssumption
<1> HIDE DEF Loads
<1>6. close'[e] = close[e] \/ CloseStep(e) \/ Loads(e) \/ Crash
  BY <1>4, <1>5
<1> QED  BY <1>6 DEF Loads

\* What a closer has once it has loaded a row.
LEMMA LoadedRow ==
  ASSUME TypeOK, NEW e \in Closers, NEW r \in Rows,
         EndAsked(e, r) \/ StateAsked(e, r) \/ (ReapPick(r) /\ e = Reaper)
  PROVE  /\ close[e].pc = "idle"
         /\ close'[e].row = r /\ close'[e].lab = rows[r].lab /\ close'[e].ended = rows[r].ended
         /\ close'[e].pc \in {"mark", "ask", "reread"}
         /\ \A f \in Closers : f # e => close'[f] = close[f]
         /\ Apart(r) /\ UNCHANGED <<queueVars, rows, launch, accounts, crashes, due>>
<1>1. ASSUME NEW kind, NEW sid, NEW pc \in {"mark", "ask", "reread"}, Loaded(e, kind, r, sid, pc)
      PROVE  /\ close'[e].row = r /\ close'[e].lab = rows[r].lab /\ close'[e].ended = rows[r].ended
             /\ close'[e].pc \in {"mark", "ask", "reread"}
             /\ \A f \in Closers : f # e => close'[f] = close[f]
  BY <1>1 DEF Loaded, TypeOK
<1>2. CASE EndAsked(e, r)
  BY <1>1, <1>2 DEF EndAsked, CloseAt, FinalizeFirst
<1>3. CASE StateAsked(e, r)
  BY <1>1, <1>3 DEF StateAsked, CloseAt
<1>4. CASE ReapPick(r) /\ e = Reaper
  BY <1>1, <1>4 DEF ReapPick, CloseAt
<1> QED  BY <1>2, <1>3, <1>4

\* The launches: what a launch that moves keeps of its learner.
LEMMA LaunchUser ==
  ASSUME TypeOK, NEW p \in Launchers, LaunchStep(p), launch'[p].pc # "idle"
  PROVE  launch[p].pc # "idle" /\ launch'[p].user = launch[p].user
<1>1. launch[p].pc # "idle"
  BY DEF LaunchStep, LaunchAt, TryAcquire, LeaveQueue, JoinQueue, Lookup, InsertRow,
         Provision, FinalizeActive, FinalizeError, StartNodes, Publish, GiveBack
<1>2. IdleLaunch.pc = "idle"
  BY DEF IdleLaunch
<1>3. ASSUME Leave(p) PROVE launch'[p].user = launch[p].user
  BY <1>2, <1>3, Left
<1>4. ASSUME launch' = [launch EXCEPT ![p] = IdleLaunch] PROVE FALSE
  BY <1>2, <1>4 DEF TypeOK
<1>5. ASSUME NEW pc, LaunchTo(p, pc) PROVE launch'[p].user = launch[p].user
  BY <1>5, Moved
<1>6. CASE InsertRow(p)
  <2>1. Leave(p) \/ launch'[p].user = launch[p].user
    BY <1>6, InsertedRow
  <2> QED  BY <1>1, <1>3, <2>1
<1>7. CASE ~InsertRow(p)
  <2>1. \/ Leave(p) \/ launch' = [launch EXCEPT ![p] = IdleLaunch]
        \/ \E pc \in LaunchPcs : LaunchTo(p, pc)
    BY <1>7
    DEF LaunchStep, TryAcquire, LeaveQueue, JoinQueue, Lookup, Provision, FinalizeActive,
        FinalizeError, StartNodes, Publish, GiveBack, LaunchPcs
  <2> QED  BY <1>1, <1>3, <1>4, <1>5, <2>1
<1> QED  BY <1>1, <1>6, <1>7

\* The owner of a row that is used stays, or is erased.
LEMMA OwnerKept ==
  ASSUME TypeOK, [Next]_vars, NEW r \in Rows, rows[r].status # "none"
  PROVE  /\ rows'[r].user \in {rows[r].user, None}
         /\ rows'[r].status # "erased" => rows'[r].user = rows[r].user /\ rows'[r].lab = rows[r].lab
<1>1. ASSUME NEW p \in Launchers, InsertRow(p) PROVE rows'[r] = rows[r]
  BY <1>1, InsertedRow
<1>2. ASSUME NEW p \in Launchers, FinalizeActive(p) \/ FinalizeError(p)
      PROVE  rows'[r].user = rows[r].user /\ rows'[r].lab = rows[r].lab
  BY <1>2, ActiveRow, FailedRow
<1>3. ASSUME NEW e \in Closers, MarkEnded(e)
      PROVE  rows'[r].user = rows[r].user /\ rows'[r].lab = rows[r].lab
  BY <1>3, EndedRow
<1>4. ASSUME NEW u \in Users, Erase(u)
      PROVE  rows'[r] = rows[r] \/ (rows'[r].user = None /\ rows'[r].status = "erased")
  BY <1>4, ErasedRow
<1> QED  BY <1>1, <1>2, <1>3, <1>4, RowWriters

\* Where a closer that has a row has it from.
LEMMA CloserRow ==
  ASSUME TypeOK, [Next]_vars, NEW e \in Closers, close'[e].row # None
  PROVE  \/ close[e].row = close'[e].row
         \/ \E r \in Rows : /\ EndAsked(e, r) \/ StateAsked(e, r) \/ (ReapPick(r) /\ e = Reaper)
                            /\ close'[e].row = r
<1>1. IdleClose.row = None
  BY DEF IdleClose
<1>2. CASE CloseStep(e)
  BY <1>1, <1>2, CloseFrame
<1>3. CASE Crash
  BY <1>1, <1>3 DEF Crash
<1> QED  BY <1>2, <1>3, CloseMovers, LoadedRow

\* A learner's requests stay apart from the end of their session.
LEMMA ApartStep ==
  ASSUME Calm, LifecycleInv, RowsSettled, AllApart, [Next]_vars
  PROVE  AllApart'
<1> USE DEF LifecycleInv
<1>0. "overlap" \notin Perils
  BY DEF Calm
<1>1. ASSUME NEW e \in Closers, close[e].row # None, close'[e].row = close[e].row,
             OwnerOf(e)' # None
      PROVE  OwnerOf(e)' = OwnerOf(e) /\ close[e].row \in Rows
  <2>1. close[e].row \in Rows /\ rows[close[e].row].status # "none"
    BY <1>1 DEF ClosesSound, IdleClose, TypeOK, CloseStates
  <2> QED  BY <1>1, <2>1, OwnerKept DEF OwnerOf
<1>2. ASSUME NEW e \in Closers, NEW r \in Rows,
             EndAsked(e, r) \/ StateAsked(e, r) \/ (ReapPick(r) /\ e = Reaper)
      PROVE  /\ OwnerOf(e)' = rows[r].user
             /\ \A p \in Launchers : launch'[p].pc # "idle" => launch'[p].user # rows[r].user
             /\ \A f \in Closers : f # e /\ close'[f].row # None => OwnerOf(f)' # rows[r].user
  <2>1. Apart(r) /\ UNCHANGED <<rows, launch>> /\ close'[e].row = r
        /\ \A f \in Closers : f # e => close'[f] = close[f]
    BY <1>2, LoadedRow
  <2> QED  BY <1>0, <2>1 DEF Apart, Launching, Closing, OwnerOf
<1>3. ASSUME NEW e \in Closers, close'[e].row # None, OwnerOf(e)' # None,
             NEW p \in Launchers, launch'[p].pc # "idle"
      PROVE  launch'[p].user # OwnerOf(e)'
  <2>1. CASE \E r \in Rows : EndAsked(e, r) \/ StateAsked(e, r) \/ (ReapPick(r) /\ e = Reaper)
    BY <1>2, <1>3, <2>1
  <2>2. CASE close'[e].row = close[e].row
    <3>1. OwnerOf(e)' = OwnerOf(e) /\ close[e].row # None
      BY <1>1, <1>3, <2>2
    <3>2. ASSUME NEW u \in Users, NEW l \in Labs, Ask(p, u, l)
          PROVE  launch'[p].user = u /\ ~Closing(u)
      BY <1>0, <3>2 DEF Ask, TypeOK
    <3>3. CASE \E u \in Users, l \in Labs : Ask(p, u, l)
      BY <3>1, <3>2, <3>3 DEF Closing, OwnerOf
    <3>4. CASE LaunchStep(p) \/ launch'[p] = launch[p]
      BY <1>3, <3>1, <3>4, LaunchUser DEF AllApart
    <3>5. CASE Crash
      BY <1>3, <3>5 DEF Crash, IdleLaunch
    <3> QED  BY <3>3, <3>4, <3>5, LaunchMovers
  <2> QED  BY <1>3, <2>1, <2>2, CloserRow
<1>4. ASSUME NEW e \in Closers, close'[e].row # None, OwnerOf(e)' # None,
             NEW f \in Closers, close'[f].row # None, OwnerOf(f)' = OwnerOf(e)'
      PROVE  f = e
  <2>1. CASE \E r \in Rows : EndAsked(e, r) \/ StateAsked(e, r) \/ (ReapPick(r) /\ e = Reaper)
    BY <1>2, <1>4, <2>1
  <2>2. CASE \E r \in Rows : EndAsked(f, r) \/ StateAsked(f, r) \/ (ReapPick(r) /\ f = Reaper)
    BY <1>2, <1>4, <2>2
  <2>3. CASE close'[e].row = close[e].row /\ close'[f].row = close[f].row
    <3>1. OwnerOf(e)' = OwnerOf(e) /\ OwnerOf(f)' = OwnerOf(f)
      BY <1>1, <1>4, <2>3
    <3> QED  BY <1>4, <2>3, <3>1 DEF AllApart
  <2> QED  BY <1>4, <2>1, <2>2, <2>3, CloserRow
<1> QED  BY <1>3, <1>4 DEF AllApart

\* A launch gets a row only by inserting it.
LEMMA RowGained ==
  ASSUME TypeOK, [Next]_vars, NEW p \in Launchers, launch'[p].row # None
  PROVE  \/ launch'[p].row = launch[p].row
         \/ launch'[p].row \in Rows /\ rows[launch'[p].row].status = "none"
<1>1. CASE LaunchStep(p)
  BY <1>1, LaunchFrame
<1>2. ASSUME NEW u \in Users, NEW l \in Labs, Ask(p, u, l) PROVE launch'[p].row = None
  BY <1>2 DEF Ask, TypeOK
<1>3. CASE Crash
  BY <1>3 DEF Crash, IdleLaunch
<1> QED  BY <1>1, <1>2, <1>3, LaunchMovers

\* Who writes a row that is used: its launch, a closer of it, an erasure.
LEMMA RowChanges ==
  ASSUME TypeOK, [Next]_vars, NEW r \in Rows, rows[r].status # "none", rows'[r] # rows[r]
  PROVE  \/ \E p \in Launchers : /\ FinalizeActive(p) /\ launch[p].row = r
                                  /\ rows'[r].status = "active"
         \/ \E p \in Launchers : FinalizeError(p) /\ launch[p].row = r
         \/ \E e \in Closers : /\ MarkEnded(e) /\ close[e].row = r /\ ~close[e].ended
                               /\ Exists(r) /\ rows'[r].status = "ended"
         \/ \E u \in Users : Erase(u) /\ rows[r].user = u /\ rows'[r].status = "erased"
<1>1. ASSUME NEW p \in Launchers, InsertRow(p) PROVE FALSE
  BY <1>1, InsertedRow
<1>2. ASSUME NEW p \in Launchers, FinalizeActive(p)
      PROVE  launch[p].row = r /\ rows'[r].status = "active"
  BY <1>2, ActiveRow
<1>3. ASSUME NEW p \in Launchers, FinalizeError(p) PROVE launch[p].row = r
  BY <1>3, FailedRow
<1>4. ASSUME NEW e \in Closers, MarkEnded(e)
      PROVE  close[e].row = r /\ ~close[e].ended /\ Exists(r) /\ rows'[r].status = "ended"
  BY <1>4, EndedRow
<1>5. ASSUME NEW u \in Users, Erase(u) PROVE rows[r].user = u /\ rows'[r].status = "erased"
  BY <1>5, ErasedRow
<1> QED  BY <1>1, <1>2, <1>3, <1>4, <1>5, RowWriters

\* What falls due, and what the reaper has selected, is no launch's row any more.
LEMMA DueStep ==
  ASSUME LifecycleInv, DueSettled, [Next]_vars
  PROVE  DueSettled'
<1> USE DEF LifecycleInv
<1>1. due' = due \/ \E r \in Rows : FallDue(r)
  BY DEF Next, vars, LaunchStep, CloseStep, TryAcquire, LeaveQueue, JoinQueue, Lookup, InsertRow,
         Provision, FinalizeActive, FinalizeError, StartNodes, Publish, GiveBack, ReapReread,
         StateAnswered, MarkEnded, Measure, FreeSlot, Teardown, Ask, EndAsked, StateAsked,
         ReapSelect, ReapPick, LoseGns3, Erase, Crash, CountersExpire, QueueExpires
<1>2. selected' \subseteq selected \/ ReapSelect
  BY DEF Next, vars, LaunchStep, CloseStep, TryAcquire, LeaveQueue, JoinQueue, Lookup, InsertRow,
         Provision, FinalizeActive, FinalizeError, StartNodes, Publish, GiveBack, ReapReread,
         StateAnswered, MarkEnded, Measure, FreeSlot, Teardown, Ask, EndAsked, StateAsked,
         ReapPick, FallDue, LoseGns3, Erase, Crash, CountersExpire, QueueExpires
<1>3. ASSUME NEW r \in Rows, ~InFlight(r), rows[r].status \in Settled
      PROVE  ~InFlight(r)' /\ rows'[r].status \in Settled
  <2>1. rows[r].status # "none" /\ r # None
    BY <1>3, LifecycleAssumption DEF Settled, Live
  <2>2. ~InFlight(r)'
    BY <1>3, <2>1, RowGained DEF InFlight
  <2>3. rows'[r].status \in Settled
    BY <1>3, <2>1, RowChanges DEF InFlight, Settled, Live
  <2> QED  BY <2>2, <2>3
<1>4. ASSUME NEW r \in Rows, FallDue(r)
      PROVE  ~InFlight(r) /\ rows[r].status \in Settled /\ due' = due \cup {r}
  BY <1>4 DEF FallDue, Settled
<1>5. due' \subseteq Rows /\ due \subseteq due'
        /\ \A r \in due' : ~InFlight(r) /\ rows[r].status \in Settled
  BY <1>1, <1>4 DEF DueSettled, TypeOK
<1>6. \A r \in due' : ~InFlight(r)' /\ rows'[r].status \in Settled
  BY <1>3, <1>5
<1>7. \A x \in selected' : x[1] \in due'
  <2>1. CASE ReapSelect
    BY <2>1 DEF ReapSelect, Overdue
  <2> QED  BY <1>2, <1>5, <2>1 DEF DueSettled
<1> QED  BY <1>6, <1>7 DEF DueSettled

\* A closer at work on a live learner's row, and nobody else.
LEMMA CloserAlone ==
  ASSUME LifecycleInv, RowsSettled, AllApart, NEW e \in Closers, close[e].row # None,
         Exists(close[e].row)
  PROVE  /\ \A p \in Launchers : launch[p].pc # "idle" => launch[p].user # rows[close[e].row].user
         /\ \A f \in Closers : close[f].row = close[e].row => f = e
<1>1. close[e].row \in Rows
  BY DEF LifecycleInv, TypeOK, CloseStates
<1>2. rows[close[e].row].user \in Users /\ rows[close[e].row].user # None
  BY <1>1, LifecycleAssumption DEF RowsSettled, RowSettled, Exists, LifecycleInv, TypeOK
<1> QED  BY <1>2 DEF AllApart, OwnerOf

\* A launch at work on a row has it to itself.
LEMMA LaunchAlone ==
  ASSUME LifecycleInv, RowsSettled, AllPaid, AllApart, NEW p \in Launchers,
         launch[p].row # None, NEW e \in Closers, close[e].row = launch[p].row,
         Exists(launch[p].row)
  PROVE  FALSE
<1>1. launch[p].pc \in {"provision", "finalize", "fail", "start", "publish"}
  BY DEF LifecycleInv, LaunchesSound
<1>2. OwnRow(launch[p], rows[launch[p].row])
  BY DEF AllPaid, Paid
<1>3. rows[launch[p].row].user = launch[p].user
  BY <1>2 DEF OwnRow, Exists
<1> QED  BY <1>1, <1>3, CloserAlone

\* What a closer knows of its row stays true while it waits.
LEMMA WaitKnows ==
  ASSUME LifecycleInv, RowsSettled, AllPaid, AllApart, [Next]_vars,
         NEW e \in Closers, Knows(close[e]), close'[e] = close[e]
  PROVE  Knows(close[e])'
<1> USE DEF LifecycleInv
<1> DEFINE r == close[e].row
<1>1. CASE r = None
  <2>1. close[e] = IdleClose
    BY <1>1 DEF ClosesSound
  <2> QED  BY <2>1 DEF Knows, IdleClose
<1>2. CASE r # None
  <2>1. r \in Rows /\ rows[r].status # "none" /\ rows'[r].status # "none"
    <3>1. r \in Rows /\ rows[r].status # "none"
      BY <1>2 DEF ClosesSound, IdleClose, TypeOK, CloseStates
    <3> QED  BY <3>1, RowsGoOnward DEF RowsOnward
  <2>2. CASE rows'[r] = rows[r]
    BY <2>1, <2>2 DEF Knows, Exists
  <2>3. CASE rows'[r] # rows[r]
    <3>1. ASSUME NEW p \in Launchers, FinalizeActive(p) \/ FinalizeError(p), launch[p].row = r
          PROVE  FALSE
      <4>1. Exists(r)
        BY <2>3, <3>1, ActiveRow, FailedRow, <2>1
      <4> QED  BY <1>2, <3>1, <4>1, LaunchAlone
    <3>2. ASSUME NEW f \in Closers, MarkEnded(f), close[f].row = r, ~close[f].ended, Exists(r)
          PROVE  FALSE
      <4>1. f = e
        BY <1>2, <3>2, CloserAlone
      <4>2. close'[e].pc = "measure"
        BY <3>2, <4>1 DEF MarkEnded, TypeOK, CloseStates
      <4> QED  BY <3>2, <4>1, <4>2 DEF MarkEnded, CloseAt
    <3>3. rows'[r].status = "erased"
      BY <2>1, <2>3, <3>1, <3>2, RowChanges
    <3> QED  BY <2>1, <3>3 DEF Knows, Exists, Settled
  <2> QED  BY <2>2, <2>3
<1> QED  BY <1>1, <1>2

\* A closer that moves on knows its row.
LEMMA CloseStepKnows ==
  ASSUME LifecycleInv, RowsSettled, NEW e \in Closers, Knows(close[e]), CloseStep(e)
  PROVE  Knows(close[e])'
<1> USE DEF LifecycleInv
<1> DEFINE r == close[e].row
<1>1. close[e].pc # "idle" /\ r \in Rows /\ rows[r].status # "none" /\ r # None
  BY DEF CloseStep, ReapReread, StateAnswered, MarkEnded, Measure, FreeSlot, Teardown, CloseAt,
         ClosesSound, IdleClose, TypeOK, CloseStates
<1>2. ASSUME NEW pc, CloseTo(e, pc)
      PROVE  /\ close'[e].pc = pc /\ close'[e].row = r /\ close'[e].lab = close[e].lab
             /\ close'[e].ended = close[e].ended
  BY <1>2 DEF CloseTo, TypeOK, CloseStates
<1>3. ASSUME close' = [close EXCEPT ![e] = IdleClose] PROVE Knows(close[e])'
  <2>1. close'[e] = IdleClose
    BY <1>3 DEF TypeOK
  <2> QED  BY <2>1 DEF IdleClose, Knows
<1>4. CASE ReapReread(e)
  <2>1. CASE Exists(r)
    <3>1. /\ close'[e].pc = "mark" /\ close'[e].row = r /\ close'[e].lab = close[e].lab
          /\ close'[e].ended = rows[r].ended
      BY <1>4, <2>1 DEF ReapReread, TypeOK, CloseStates
    <3>2. UNCHANGED rows /\ close[e].pc = "reread"
      BY <1>4 DEF ReapReread, CloseAt
    <3> QED  BY <1>1, <3>1, <3>2 DEF Knows, Exists
  <2>2. CASE ~Exists(r)
    BY <1>2, <1>4, <2>2 DEF ReapReread, Knows, Exists
  <2> QED  BY <2>1, <2>2
<1>5. CASE StateAnswered(e)
  <2>1. CASE CloseTo(e, "mark") /\ close[e].pc = "ask" /\ UNCHANGED rows
    BY <1>2, <2>1 DEF Knows, Exists
  <2> QED  BY <1>3, <1>5, <2>1 DEF StateAnswered, CloseAt
<1>6. CASE MarkEnded(e)
  <2>1. CASE CloseTo(e, "teardown") /\ UNCHANGED rows
    BY <1>2, <2>1 DEF Knows, Exists
  <2>2. CASE /\ ~close[e].ended /\ Exists(r)
             /\ rows' = [rows EXCEPT ![r].status = "ended", ![r].ended = TRUE]
             /\ close' = [close EXCEPT ![e].pc = "measure",
                            ![e].sid = IF close[e].kind = "reap" THEN @ ELSE rows[r].sid]
    <3>1. close'[e].pc = "measure" /\ close'[e].row = r /\ close'[e].lab = close[e].lab
      BY <2>2 DEF TypeOK, CloseStates
    <3>2. close[e].lab = rows[r].lab /\ rows[r].lab \in Labs
      BY <1>1, <2>2 DEF Knows, RowsSettled, RowSettled, Exists
    <3>3. rows'[r].lab = rows[r].lab
      BY <1>1, <1>6, EndedRow
    <3> QED  BY <3>1, <3>2, <3>3 DEF Knows
  <2> QED  BY <1>3, <1>6, <2>1, <2>2 DEF MarkEnded
<1>7. CASE Measure(e) \/ FreeSlot(e)
  <2>1. /\ UNCHANGED rows /\ close[e].pc \in {"measure", "free"}
        /\ CloseTo(e, "free") \/ CloseTo(e, "teardown")
    BY <1>7 DEF Measure, FreeSlot, CloseAt
  <2> QED  BY <1>2, <2>1 DEF Knows, Exists
<1>8. CASE Teardown(e)
  BY <1>3, <1>8 DEF Teardown
<1> QED  BY <1>4, <1>5, <1>6, <1>7, <1>8 DEF CloseStep

\* So every closer knows its row.
LEMMA KnowStep ==
  ASSUME Calm, LifecycleInv, RowsSettled, DueSettled, AllPaid, AllKnow, AllApart, [Next]_vars
  PROVE  AllKnow'
<1> USE DEF LifecycleInv
<1> SUFFICES ASSUME NEW e \in Closers PROVE Knows(close[e])'
  BY DEF AllKnow
<1>1. Knows(close[e])
  BY DEF AllKnow
<1>2. ASSUME NEW r \in Rows,
             EndAsked(e, r) \/ StateAsked(e, r) \/ (ReapPick(r) /\ e = Reaper)
      PROVE  Knows(close[e])'
  <2>1. rows[r].status \in Settled
    <3>1. CASE EndAsked(e, r)
      BY <3>1 DEF EndAsked, Calm, Exists, Settled, Live, TypeOK, RowStates, Statuses
    <3>2. CASE StateAsked(e, r)
      BY <3>2 DEF StateAsked, RowsSettled, RowSettled, Settled, Live
    <3>3. CASE ReapPick(r)
      BY <3>3 DEF ReapPick, DueSettled
    <3> QED  BY <1>2, <3>1, <3>2, <3>3
  <2> QED  BY <1>2, <2>1, LoadedRow DEF Knows, Exists
<1>3. CASE Crash
  BY <1>3 DEF Crash, Knows, IdleClose
<1> QED  BY <1>1, <1>2, <1>3, CloseMovers, WaitKnows, CloseStepKnows

\* A session that a launch resumes is still there while the launch waits.
LEMMA ResumedStays ==
  ASSUME LifecycleInv, RowsSettled, AllPaid, AllApart, [Next]_vars,
         NEW p \in Launchers, launch[p].pc # "idle", launch[p].user \in accounts',
         NEW r \in ActiveRowsOn(launch[p].user, launch[p].lab)
  PROVE  rows'[r] = rows[r]
<1> USE DEF LifecycleInv
<1>1. r \in Rows /\ rows[r].status = "active" /\ rows[r].user = launch[p].user
  BY DEF ActiveRowsOn, LiveRowsOn, LiveRows
<1> SUFFICES ASSUME rows'[r] # rows[r] PROVE FALSE
  OBVIOUS
<1>2. ASSUME NEW q \in Launchers, FinalizeActive(q) \/ FinalizeError(q), launch[q].row = r
      PROVE  FALSE
  <2>1. launch[q].pc \in {"finalize", "fail"}
    BY <1>2 DEF FinalizeActive, FinalizeError, LaunchAt
  <2>2. OwnRow(launch[q], rows[r])
    BY <1>2, <2>1, LaunchRow
  <2> QED  BY <1>1, <2>1, <2>2 DEF OwnRow
<1>3. ASSUME NEW e \in Closers, MarkEnded(e), close[e].row = r PROVE FALSE
  <2>1. r # None /\ Exists(r)
    BY <1>1, LifecycleAssumption DEF Exists
  <2> QED  BY <1>1, <1>3, <2>1, CloserAlone
<1>4. ASSUME NEW u \in Users, Erase(u), rows[r].user = u PROVE FALSE
  BY <1>1, <1>4 DEF Erase
<1> QED  BY <1>1, <1>2, <1>3, <1>4, RowChanges

\* A launch that waits has still paid.
LEMMA WaitPaid ==
  ASSUME LifecycleInv, RowsSettled, AllPaid, AllApart, [Next]_vars,
         NEW p \in Launchers, launch'[p] = launch[p]
  PROVE  Paid(launch[p])'
<1> USE DEF LifecycleInv
<1> DEFINE r == launch[p].row
<1>1. Paid(launch[p])
  BY DEF AllPaid
<1>2. ASSUME r # None PROVE OwnRow(launch[p], rows'[r])
  <2>1. r \in Rows /\ rows[r].status # "none" /\ OwnRow(launch[p], rows[r])
    BY <1>1, <1>2 DEF LaunchesSound, TypeOK, LaunchStates, Paid
  <2>2. CASE rows'[r] = rows[r]
    BY <2>1, <2>2
  <2>3. CASE rows'[r] # rows[r]
    <3>1. ASSUME NEW q \in Launchers, FinalizeActive(q) \/ FinalizeError(q), launch[q].row = r
          PROVE  FALSE
      <4>1. q = p
        BY <1>2, <3>1 DEF LaunchesSound
      <4>2. launch'[p].pc # launch[p].pc
        BY <3>1, <4>1, Moved, Left DEF FinalizeActive, FinalizeError, LaunchAt, IdleLaunch
      <4> QED  BY <4>2
    <3>2. ASSUME NEW e \in Closers, MarkEnded(e), close[e].row = r, Exists(r) PROVE FALSE
      BY <1>2, <3>2, LaunchAlone
    <3>3. rows'[r].status = "erased"
      BY <2>1, <2>3, <3>1, <3>2, RowChanges
    <3> QED  BY <3>3 DEF OwnRow
  <2> QED  BY <2>2, <2>3
<1>3. ASSUME launch[p].pc # "idle", ~launch[p].isNew, launch[p].user \in accounts'
      PROVE  launch[p].pc = "lookup" /\ ActiveRowsOn(launch[p].user, launch[p].lab)' # {}
  <2>1. launch[p].user \in accounts
    BY <1>3, AccountsFrame DEF Erase
  <2>2. PICK x \in ActiveRowsOn(launch[p].user, launch[p].lab) : TRUE
    BY <1>1, <1>3, <2>1 DEF Paid
  <2>3. rows'[x] = rows[x]
    BY <1>3, ResumedStays
  <2>4. x \in ActiveRowsOn(launch[p].user, launch[p].lab)'
    BY <2>3 DEF ActiveRowsOn, LiveRowsOn, LiveRows
  <2> QED  BY <1>1, <1>3, <2>1, <2>4 DEF Paid
<1> QED  BY <1>1, <1>2, <1>3 DEF Paid

\* A launch that has left has paid.
LEMMA LeftPaid ==
  ASSUME TypeOK, NEW p \in Launchers, Leave(p) \/ launch' = [launch EXCEPT ![p] = IdleLaunch]
  PROVE  Paid(launch[p])'
<1>1. CASE launch'[p] = IdleLaunch
  BY <1>1 DEF Paid, IdleLaunch
<1>2. CASE launch'[p].row = None /\ launch'[p].isNew
  BY <1>2 DEF Paid
<1>3. CASE Leave(p)
  BY <1>1, <1>2, <1>3, Left
<1>4. CASE launch' = [launch EXCEPT ![p] = IdleLaunch]
  BY <1>1, <1>4 DEF TypeOK
<1> QED  BY <1>3, <1>4

\* A launch that moves on has paid.
LEMMA LaunchStepPaid ==
  ASSUME Calm, LifecycleInv, RowsSettled, AllPaid, NEW p \in Launchers, LaunchStep(p)
  PROVE  Paid(launch[p])'
<1> USE DEF LifecycleInv
<1> DEFINE r == launch[p].row
<1>1. Paid(launch[p])
  BY DEF AllPaid
<1>2. ASSUME NEW pc, LaunchTo(p, pc)
      PROVE  /\ launch'[p].pc = pc /\ launch'[p].row = r
             /\ launch'[p].user = launch[p].user /\ launch'[p].lab = launch[p].lab
             /\ launch'[p].isNew = launch[p].isNew
  BY <1>2, Moved
<1>3. r # None <=> launch[p].pc \in {"provision", "finalize", "fail", "start", "publish"}
  BY DEF LaunchesSound
<1>4. CASE TryAcquire(p)
  <2>1. /\ launch[p].pc = "acquire" /\ UNCHANGED <<rows, accounts>>
        /\ LaunchTo(p, "dequeue") \/ LaunchTo(p, "enqueue")
    BY <1>4 DEF TryAcquire, LaunchAt
  <2> QED  BY <1>1, <1>2, <1>3, <2>1 DEF Paid
<1>5. CASE LeaveQueue(p)
  <2>1. launch[p].pc = "dequeue" /\ LaunchTo(p, "lookup")
    BY <1>5 DEF LeaveQueue, LaunchAt, Calm
  <2> QED  BY <1>1, <1>2, <1>3, <2>1 DEF Paid
<1>6. CASE Lookup(p)
  <2>1. CASE /\ launch[p].pc = "lookup" /\ LaunchTo(p, "insert") /\ UNCHANGED <<rows, accounts>>
             /\ ActiveRowsOn(launch[p].user, launch[p].lab) = {}
    BY <1>1, <1>2, <1>3, <2>1 DEF Paid
  <2> QED  BY <1>6, <2>1, LeftPaid DEF Lookup, LaunchAt
<1>7. CASE InsertRow(p)
  <2>1. CASE Leave(p)
    BY <2>1, LeftPaid
  <2>2. ASSUME NEW x \in Rows, rows'[x].status = "provisioning",
               rows'[x].user = launch[p].user, rows'[x].lab = launch[p].lab,
               launch[p].user \in accounts, launch'[p].pc = "provision", launch'[p].row = x,
               launch'[p].user = launch[p].user, launch'[p].lab = launch[p].lab,
               launch'[p].isNew = launch[p].isNew
        PROVE  Paid(launch[p])'
    <3>1. launch[p].isNew
      BY <1>1, <1>7, <2>2 DEF Paid, InsertRow, LaunchAt
    <3> QED  BY <2>2, <3>1 DEF Paid, OwnRow
  <2> QED  BY <1>7, <2>1, <2>2, InsertedRow
<1>8. CASE Provision(p)
  <2>1. /\ launch[p].pc = "provision" /\ UNCHANGED <<rows, accounts>>
        /\ LaunchTo(p, "finalize") \/ LaunchTo(p, "fail")
    BY <1>8 DEF Provision, LaunchAt
  <2> QED  BY <1>1, <1>2, <1>3, <2>1 DEF Paid, OwnRow
<1>9. CASE FinalizeActive(p)
  <2>1. CASE Leave(p)
    BY <2>1, LeftPaid
  <2>2. CASE launch[p].pc = "finalize" /\ Exists(r) /\ NoTwinOf(r)
             /\ rows' = [rows EXCEPT ![r] = Finalized(@)] /\ LaunchTo(p, "start")
    <3>1. OwnRow(launch[p], rows[r]) /\ launch[p].isNew /\ r \in Rows
      BY <2>2, LaunchRow
    <3>2. rows[r].status = "provisioning" /\ rows[r].user = launch[p].user
          /\ rows[r].lab = launch[p].lab
      BY <2>2, <3>1 DEF OwnRow, Exists
    <3>3. rows'[r] = Finalized(rows[r])
      BY <2>2, <3>1 DEF TypeOK
    <3>4. rows'[r].status = "active"
      BY <3>1, <3>3 DEF Finalized, TypeOK, RowStates
    <3>5. rows'[r].user = launch[p].user /\ rows'[r].lab = launch[p].lab
      BY <1>9, <3>1, <3>2, ActiveRow
    <3>6. /\ launch'[p].pc = "start" /\ launch'[p].row = r /\ launch'[p].isNew
          /\ launch'[p].user = launch[p].user /\ launch'[p].lab = launch[p].lab
      BY <1>2, <2>2, <3>1
    <3> QED  BY <3>4, <3>5, <3>6 DEF Paid, OwnRow
  <2> QED  BY <1>9, <2>1, <2>2 DEF FinalizeActive, LaunchAt
<1>10. CASE FinalizeError(p) \/ JoinQueue(p) \/ Publish(p) \/ GiveBack(p)
  BY <1>10, LeftPaid DEF FinalizeError, JoinQueue, Publish, GiveBack
<1>11. CASE StartNodes(p)
  <2>1. CASE launch[p].pc = "start" /\ LaunchTo(p, "publish") /\ UNCHANGED <<rows, accounts>>
    BY <1>1, <1>2, <1>3, <2>1 DEF Paid, OwnRow
  <2> QED  BY <1>11, <2>1, LeftPaid DEF StartNodes, LaunchAt
<1> QED  BY <1>4, <1>5, <1>6, <1>7, <1>8, <1>9, <1>10, <1>11 DEF LaunchStep

\* So every launch has paid for what it has.
LEMMA PaidStep ==
  ASSUME Calm, LifecycleInv, RowsSettled, AllPaid, AllApart, [Next]_vars
  PROVE  AllPaid'
<1> USE DEF LifecycleInv
<1> SUFFICES ASSUME NEW p \in Launchers PROVE Paid(launch[p])'
  BY DEF AllPaid
<1>1. ASSUME NEW u \in Users, NEW l \in Labs, Ask(p, u, l) PROVE Paid(launch[p])'
  <2>1. /\ launch'[p].row = None /\ launch'[p].user = u /\ launch'[p].lab = l /\ UNCHANGED rows
        /\ \/ launch'[p].isNew
           \/ launch'[p].pc = "lookup" /\ ActiveRowsOn(u, l) # {}
    BY <1>1 DEF Ask, TypeOK
  <2>2. ActiveRowsOn(u, l)' = ActiveRowsOn(u, l)
    BY <2>1 DEF ActiveRowsOn, LiveRowsOn, LiveRows
  <2> QED  BY <2>1, <2>2 DEF Paid
<1>2. CASE Crash
  BY <1>2 DEF Crash, IdleLaunch, Paid
<1> QED  BY <1>1, <1>2, LaunchMovers, WaitPaid, LaunchStepPaid
-----------------------------------------------------------------------------
(* The slots change hands *)

\* Rows are erased by erasure only.
LEMMA ErasedSame ==
  ASSUME LifecycleInv, [Next]_vars, accounts' = accounts, NEW r \in Rows, rows[r].status # "none"
  PROVE  rows'[r].status = "erased" <=> rows[r].status = "erased"
<1> USE DEF LifecycleInv
<1>1. ASSUME NEW u \in Users, Erase(u) PROVE FALSE
  BY <1>1 DEF Erase
<1>2. rows[r].status = "erased" => rows'[r].status = "erased"
  BY RowsGoOnward DEF RowsOnward
<1>3. ASSUME rows'[r].status = "erased", rows[r].status # "erased" PROVE FALSE
  <2>1. ASSUME NEW p \in Launchers, FinalizeError(p) PROVE rows'[r].status = "error"
    BY <1>3, <2>1, FailedRow
  <2> QED  BY <1>1, <1>3, <2>1, RowChanges
<1> QED  BY <1>2, <1>3

\* The launches that do nothing hold what they held.
LEMMA WaitersHold ==
  ASSUME LifecycleInv, [Next]_vars, accounts' = accounts,
         NEW p \in Launchers, launch'[p] = launch[p], NEW l
  PROVE  LaunchHeld(p, l)' <=> LaunchHeld(p, l)
<1>1. LaunchHolds(p, l)' <=> LaunchHolds(p, l)
  BY DEF LaunchHolds
<1>2. CASE launch[p].pc \in {"provision", "finalize", "fail", "start"}
  <2>1. launch[p].row \in Rows /\ rows[launch[p].row].status # "none"
    BY <1>2 DEF LifecycleInv, LaunchesSound, TypeOK, LaunchStates
  <2>2. rows'[launch[p].row].status = "erased" <=> rows[launch[p].row].status = "erased"
    BY <2>1, ErasedSame
  <2> QED  BY <1>1, <2>2 DEF LaunchHeld, Stranded
<1>3. CASE launch[p].pc \notin {"provision", "finalize", "fail", "start"}
  BY <1>1, <1>3 DEF LaunchHeld, Stranded
<1> QED  BY <1>2, <1>3

\* Rows that stay hold what they held.
LEMMA StillRowsHold ==
  ASSUME NEW r \in Rows, rows'[r] = rows[r], NEW l
  PROVE  RowHeld(r, l)' <=> RowHeld(r, l)
BY DEF RowHeld

\* A step of a launch moves the claims of that launch and of its row at most.
LEMMA LaunchSameBut ==
  ASSUME LifecycleInv, [Next]_vars, NEW p \in Launchers, LaunchStep(p), NEW l, NEW X,
         <<"launch", p>> \in X \/ (LaunchHeld(p, l)' <=> LaunchHeld(p, l)),
         \A r \in Rows : <<"row", r>> \in X \/ (RowHeld(r, l)' <=> RowHeld(r, l))
  PROVE  SameBut(l, X)
<1>1. UNCHANGED <<close, accounts>>
  BY DEF LaunchStep, TryAcquire, LeaveQueue, JoinQueue, Lookup, InsertRow, Provision,
         FinalizeActive, FinalizeError, StartNodes, Publish, GiveBack
<1>2. \A q \in Launchers : q # p => launch'[q] = launch[q]
  BY LaunchFrame DEF LifecycleInv
<1>3. \A q \in Launchers : q # p => (LaunchHeld(q, l)' <=> LaunchHeld(q, l))
  BY <1>1, <1>2, WaitersHold
<1>4. \A e \in Closers : CloseHolds(e, l)' <=> CloseHolds(e, l)
  BY <1>1 DEF CloseHolds
<1> QED  BY <1>3, <1>4 DEF SameBut

\* A launch that leaves holds the slot it took.
LEMMA LeftHeld ==
  ASSUME TypeOK, NEW p \in Launchers, Leave(p), NEW l
  PROVE  LaunchHeld(p, l)' <=> launch[p].isNew /\ launch[p].lab = l
<1>1. CASE launch[p].isNew
  <2>1. launch'[p].pc = "release" /\ launch'[p].lab = launch[p].lab /\ launch'[p].isNew
    BY <1>1, Left
  <2> QED  BY <1>1, <2>1 DEF LaunchHeld, LaunchHolds, Stranded
<1>2. CASE ~launch[p].isNew
  <2>1. launch'[p].pc = "idle"
    BY <1>2, Left DEF IdleLaunch
  <2> QED  BY <1>2, <2>1 DEF LaunchHeld, LaunchHolds, Stranded
<1> QED  BY <1>1, <1>2

\* A launch that is done, or has nothing to do, holds nothing.
LEMMA IdleHeld ==
  ASSUME NEW p \in Launchers, NEW l
  PROVE  /\ launch[p].pc \in {"idle", "acquire", "enqueue", "publish"} => ~LaunchHeld(p, l)
         /\ launch'[p].pc \in {"idle", "acquire", "enqueue", "publish"} => ~LaunchHeld(p, l)'
BY DEF LaunchHeld, LaunchHolds, Stranded

\* What keeps the count while a launch moves on without a slot changing hands.
LEMMA LaunchNobodyMoves ==
  ASSUME ExactInv, [Next]_vars, NEW p \in Launchers, LaunchStep(p), UNCHANGED <<labCount, total>>,
         \A l \in Labs : LaunchHeld(p, l)' <=> LaunchHeld(p, l),
         \A l \in Labs : \A r \in Rows : RowHeld(r, l)' <=> RowHeld(r, l)
  PROVE  HoldersCounted' /\ Exact'
<1>1. \A l \in Labs : SameBut(l, {})
  BY LaunchSameBut DEF ExactInv
<1>2. TypeOK /\ HoldersCounted /\ Exact
  BY DEF ExactInv, LifecycleInv
<1> QED  BY <1>1, <1>2, NobodyMoves

\* A slot is taken for the launch that acquires it.
LEMMA AcquireExact ==
  ASSUME ExactInv, [Next]_vars, NEW p \in Launchers, TryAcquire(p)
  PROVE  HoldersCounted' /\ Exact'
<1> USE DEF ExactInv, LifecycleInv
<1>1. LaunchStep(p) /\ launch[p].pc = "acquire" /\ UNCHANGED rows
  BY DEF LaunchStep, TryAcquire, LaunchAt
<1>2. launch[p].isNew /\ launch[p].lab \in Labs
  BY <1>1 DEF AllPaid, Paid, LaunchesSound
<1>3. \A l : \A r \in Rows : RowHeld(r, l)' <=> RowHeld(r, l)
  BY <1>1 DEF RowHeld
<1>4. \A l : ~LaunchHeld(p, l)
  BY <1>1, IdleHeld
<1>5. CASE AcquireSlot(launch[p].lab) /\ LaunchTo(p, "dequeue")
  <2> DEFINE y == <<"launch", p>>
             k == launch[p].lab
  <2>1. launch'[p].pc = "dequeue" /\ launch'[p].lab = k /\ launch'[p].isNew
    BY <1>2, <1>5, Moved
  <2>2. \A l \in Labs : LaunchHeld(p, l)' <=> l = k
    BY <2>1 DEF LaunchHeld, LaunchHolds, Stranded
  <2>3. \A l \in Labs : SameBut(l, {y})
    <3> SUFFICES ASSUME NEW l \in Labs PROVE SameBut(l, {y})
      OBVIOUS
    <3> DEFINE X == {y}
    <3>1. <<"launch", p>> \in X
      OBVIOUS
    <3> HIDE DEF X
    <3>2. SameBut(l, X)
      BY <1>1, <1>3, <3>1, LaunchSameBut
    <3> QED  BY <3>2 DEF X
  <2>4. \A l \in Labs : (y \in Holders(l)' <=> l = k) /\ y \notin Holders(l)
    BY <1>4, <2>2, HolderMembers
  <2> HIDE DEF y, k
  <2> QED  BY <1>2, <1>5, <2>3, <2>4, SlotTaken DEF k
<1>6. CASE RejectSlot(launch[p].lab) /\ LaunchTo(p, "enqueue")
  <2>1. UNCHANGED <<labCount, total>> /\ launch'[p].pc = "enqueue"
    BY <1>6, Moved DEF RejectSlot, queueVars
  <2>2. \A l \in Labs : LaunchHeld(p, l)' <=> LaunchHeld(p, l)
    BY <1>4, <2>1, IdleHeld
  <2> QED  BY <1>1, <1>3, <2>1, <2>2, LaunchNobodyMoves
<1> QED  BY <1>5, <1>6 DEF TryAcquire

\* An insert hands the slot over to the row.
LEMMA InsertExact ==
  ASSUME ExactInv, [Next]_vars, NEW p \in Launchers, InsertRow(p)
  PROVE  HoldersCounted' /\ Exact'
<1> USE DEF ExactInv, LifecycleInv
<1>1. LaunchStep(p) /\ launch[p].pc = "insert" /\ UNCHANGED <<labCount, total>>
      /\ launch[p].lab \in Labs
  BY DEF LaunchStep, InsertRow, LaunchAt, queueVars, LaunchesSound
<1>2. \A l : LaunchHeld(p, l) <=> launch[p].isNew /\ launch[p].lab = l
  BY <1>1 DEF LaunchHeld, LaunchHolds, Stranded
<1>3. CASE Leave(p) /\ UNCHANGED rows
  <2>1. \A l : LaunchHeld(p, l)' <=> LaunchHeld(p, l)
    BY <1>2, <1>3, LeftHeld
  <2>2. \A l : \A r \in Rows : RowHeld(r, l)' <=> RowHeld(r, l)
    BY <1>3, StillRowsHold
  <2> QED  BY <1>1, <2>1, <2>2, LaunchNobodyMoves
<1>4. ASSUME NEW z \in Rows, rows[z].status = "none",
             \A r \in Rows : r # z => rows'[r] = rows[r],
             rows'[z].status = "provisioning", ~rows'[z].ended,
             rows'[z].lab = launch[p].lab, launch[p].user \in accounts,
             launch'[p].pc = "provision", launch'[p].row = z
      PROVE  HoldersCounted' /\ Exact'
  <2> DEFINE k == launch[p].lab
             x == <<"launch", p>>
             y == <<"row", z>>
  <2>1. launch[p].isNew
    BY <1>1, <1>4 DEF AllPaid, Paid
  <2>2. \A l : (RowHeld(z, l)' <=> l = k) /\ ~RowHeld(z, l)
    BY <1>4 DEF RowHeld, Live
  <2>3. \A l : ~LaunchHeld(p, l)'
    BY <1>4 DEF LaunchHeld, LaunchHolds, Stranded
  <2>4. ASSUME NEW l \in Labs PROVE SameBut(l, {x, y})
    <3> DEFINE X == {x, y}
    <3>1. <<"launch", p>> \in X /\ \A r \in Rows : <<"row", r>> \in X \/ rows'[r] = rows[r]
      BY <1>4
    <3> HIDE DEF X
    <3>2. SameBut(l, X)
      BY <1>1, <3>1, LaunchSameBut, StillRowsHold
    <3> QED  BY <3>2 DEF X
  <2>5. \A l \in Labs : /\ (x \in Holders(l) <=> l = k) /\ x \notin Holders(l)'
                        /\ (y \in Holders(l)' <=> l = k) /\ y \notin Holders(l)
    BY <1>2, <2>1, <2>2, <2>3, HolderMembers
  <2>6. x # y
    OBVIOUS
  <2> HIDE DEF x, y, k
  <2>7. /\ TypeOK /\ HoldersCounted /\ Exact /\ UNCHANGED <<labCount, total>> /\ k \in Labs
    BY <1>1 DEF k
  <2>8. /\ \A l \in Labs : SameBut(l, {x, y})
        /\ \A l \in Labs : x \in Holders(l) <=> l = k
        /\ \A l \in Labs : y \in Holders(l)' <=> l = k
        /\ \A l \in Labs : y \notin Holders(l) /\ x \notin Holders(l)'
    BY <2>4, <2>5
  <2> QED  BY <2>7, <2>8, <2>6, SlotMoves
<1> QED  BY <1>3, <1>4, InsertedRow

\* A failed launch takes the slot back from its row, to give it back.
LEMMA FailedExact ==
  ASSUME ExactInv, [Next]_vars, NEW p \in Launchers, FinalizeError(p)
  PROVE  HoldersCounted' /\ Exact'
<1> USE DEF ExactInv, LifecycleInv
<1> DEFINE k == launch[p].lab
<1>1. LaunchStep(p) /\ launch[p].pc = "fail" /\ UNCHANGED <<labCount, total>> /\ Leave(p)
  BY DEF LaunchStep, FinalizeError, LaunchAt, queueVars
<1>0. launch[p].row \in Rows
  BY <1>1, LaunchRow
<1> PICK r \in Rows : r = launch[p].row
  BY <1>0
<1>2. /\ r \in Rows /\ launch[p].isNew /\ k \in Labs
      /\ OwnRow(launch[p], rows[r]) /\ ~rows[r].ended
  BY <1>1, LaunchRow
<1>3. \A l : LaunchHeld(p, l)' <=> k = l
  BY <1>1, <1>2, LeftHeld
<1>4. CASE rows[r].status = "erased"
  <2>1. \A l : LaunchHeld(p, l)' <=> LaunchHeld(p, l)
    BY <1>1, <1>3, <1>4 DEF LaunchHeld, LaunchHolds, Stranded
  <2>2. UNCHANGED rows
    BY <1>4 DEF FinalizeError, Exists
  <2>3. \A l : \A s \in Rows : RowHeld(s, l)' <=> RowHeld(s, l)
    BY <2>2, StillRowsHold
  <2> QED  BY <1>1, <2>1, <2>3, LaunchNobodyMoves
<1>5. CASE rows[r].status # "erased"
  <2> DEFINE x == <<"row", r>>
             y == <<"launch", p>>
  <2>1. rows[r].status = "provisioning" /\ rows[r].lab = k
    BY <1>1, <1>2, <1>5 DEF OwnRow
  <2>2. rows'[r].status = "error" /\ \A s \in Rows : s # r => rows'[s] = rows[s]
    BY <1>2, <2>1, FailedRow DEF Exists
  <2>3. \A l : (RowHeld(r, l) <=> l = k) /\ ~RowHeld(r, l)'
    BY <1>2, <2>1, <2>2 DEF RowHeld, Live
  <2>4. \A l : ~LaunchHeld(p, l)
    BY <1>1, <1>5 DEF LaunchHeld, LaunchHolds, Stranded
  <2>5. ASSUME NEW l \in Labs PROVE SameBut(l, {x, y})
    <3> DEFINE X == {x, y}
    <3>1. <<"launch", p>> \in X /\ \A s \in Rows : <<"row", s>> \in X \/ rows'[s] = rows[s]
      BY <2>2
    <3> HIDE DEF X
    <3>2. SameBut(l, X)
      BY <1>1, <3>1, LaunchSameBut, StillRowsHold
    <3> QED  BY <3>2 DEF X
  <2>6. \A l \in Labs : /\ (x \in Holders(l) <=> l = k) /\ x \notin Holders(l)'
                        /\ (y \in Holders(l)' <=> l = k) /\ y \notin Holders(l)
    BY <1>2, <1>3, <2>3, <2>4, HolderMembers
  <2>7. x # y
    OBVIOUS
  <2> HIDE DEF x, y, k
  <2>8. /\ TypeOK /\ HoldersCounted /\ Exact /\ UNCHANGED <<labCount, total>> /\ k \in Labs
    BY <1>1, <1>2 DEF k
  <2>9. /\ \A l \in Labs : SameBut(l, {x, y})
        /\ \A l \in Labs : x \in Holders(l) <=> l = k
        /\ \A l \in Labs : y \in Holders(l)' <=> l = k
        /\ \A l \in Labs : y \notin Holders(l) /\ x \notin Holders(l)'
    BY <2>5, <2>6
  <2> QED  BY <2>8, <2>9, <2>7, SlotMoves
<1> QED  BY <1>4, <1>5

\* A launch gives back the slot it holds.
LEMMA GiveBackExact ==
  ASSUME Calm, ExactInv, [Next]_vars, NEW p \in Launchers, GiveBack(p)
  PROVE  HoldersCounted' /\ Exact'
<1> USE DEF ExactInv, LifecycleInv
<1> DEFINE k == launch[p].lab
           x == <<"launch", p>>
<1>1. /\ LaunchStep(p) /\ launch[p].pc = "release" /\ UNCHANGED rows /\ ReleaseSlot(k)
      /\ launch' = [launch EXCEPT ![p] = IdleLaunch]
  BY DEF LaunchStep, GiveBack, LaunchAt, Calm
<1>2. launch[p].isNew /\ k \in Labs
  BY <1>1 DEF AllPaid, Paid, LaunchesSound
<1>3. \A l : LaunchHeld(p, l) <=> l = k
  BY <1>1, <1>2 DEF LaunchHeld, LaunchHolds, Stranded
<1>4. \A l : ~LaunchHeld(p, l)'
  <2>1. launch'[p].pc = "idle"
    BY <1>1 DEF TypeOK, IdleLaunch
  <2> QED  BY <2>1, IdleHeld
<1>5. ASSUME NEW l \in Labs PROVE SameBut(l, {x})
  <2> DEFINE X == {x}
  <2>1. <<"launch", p>> \in X /\ \A s \in Rows : rows'[s] = rows[s]
    BY <1>1
  <2> HIDE DEF X
  <2>2. SameBut(l, X)
    BY <1>1, <2>1, LaunchSameBut, StillRowsHold
  <2> QED  BY <2>2 DEF X
<1>6. \A l \in Labs : (x \in Holders(l) <=> l = k) /\ x \notin Holders(l)'
  BY <1>3, <1>4, HolderMembers
<1> HIDE DEF x, k
<1> QED  BY <1>1, <1>2, <1>5, <1>6, SlotGivenBack DEF k

\* The other steps of a launch move no counter and no slot: a launch whose row
\* was erased under it gives back the slot the row had.
LEMMA LaunchExact ==
  ASSUME Calm, ExactInv, [Next]_vars, NEW p \in Launchers, LaunchStep(p)
  PROVE  HoldersCounted' /\ Exact'
<1> USE DEF ExactInv, LifecycleInv
<1> DEFINE r == launch[p].row
<1>1. ASSUME NEW pc, LaunchTo(p, pc)
      PROVE  /\ launch'[p].pc = pc /\ launch'[p].row = r
             /\ launch'[p].lab = launch[p].lab /\ launch'[p].isNew = launch[p].isNew
  BY <1>1, Moved
<1>2. ASSUME UNCHANGED <<labCount, total, rows>>,
             \A l \in Labs : LaunchHeld(p, l)' <=> LaunchHeld(p, l)
      PROVE  HoldersCounted' /\ Exact'
  <2>1. \A l \in Labs : \A s \in Rows : RowHeld(s, l)' <=> RowHeld(s, l)
    BY <1>2, StillRowsHold
  <2> QED  BY <1>2, <2>1, LaunchNobodyMoves
<1>3. ASSUME launch' = [launch EXCEPT ![p] = IdleLaunch] PROVE \A l : ~LaunchHeld(p, l)'
  <2>1. launch'[p].pc = "idle"
    BY <1>3 DEF TypeOK, IdleLaunch
  <2> QED  BY <2>1, IdleHeld
<1>4. CASE LeaveQueue(p)
  <2>1. UNCHANGED <<labCount, total, rows>> /\ launch[p].pc = "dequeue" /\ LaunchTo(p, "lookup")
    BY <1>4 DEF LeaveQueue, LaunchAt, Dequeue, counterVars, Calm
  <2>2. \A l \in Labs : LaunchHeld(p, l)' <=> LaunchHeld(p, l)
    BY <1>1, <2>1 DEF LaunchHeld, LaunchHolds, Stranded
  <2> QED  BY <1>2, <2>1, <2>2
<1>5. CASE JoinQueue(p) \/ Publish(p)
  <2>1. /\ UNCHANGED <<labCount, total, rows>> /\ launch[p].pc \in {"enqueue", "publish"}
        /\ launch' = [launch EXCEPT ![p] = IdleLaunch]
    BY <1>5 DEF JoinQueue, Publish, LaunchAt, Enqueue, counterVars, queueVars
  <2>2. \A l \in Labs : LaunchHeld(p, l)' <=> LaunchHeld(p, l)
    BY <1>3, <2>1, IdleHeld
  <2> QED  BY <1>2, <2>1, <2>2
<1>6. CASE Lookup(p)
  <2>1. UNCHANGED <<labCount, total, rows>> /\ launch[p].pc = "lookup"
    BY <1>6 DEF Lookup, LaunchAt, queueVars
  <2>2. \A l : LaunchHeld(p, l) <=> launch[p].isNew /\ launch[p].lab = l
    BY <2>1 DEF LaunchHeld, LaunchHolds, Stranded
  <2>3. CASE Leave(p)
    BY <1>2, <2>1, <2>2, <2>3, LeftHeld
  <2>4. CASE LaunchTo(p, "insert")
    <3>1. \A l : LaunchHeld(p, l)' <=> launch[p].isNew /\ launch[p].lab = l
      BY <1>1, <2>4 DEF LaunchHeld, LaunchHolds, Stranded
    <3> QED  BY <1>2, <2>1, <2>2, <3>1
  <2> QED  BY <1>6, <2>3, <2>4 DEF Lookup
<1>7. CASE Provision(p)
  <2>1. /\ UNCHANGED <<labCount, total, rows>> /\ launch[p].pc = "provision"
        /\ LaunchTo(p, "finalize") \/ LaunchTo(p, "fail")
    BY <1>7 DEF Provision, LaunchAt, queueVars
  <2>2. \A l \in Labs : LaunchHeld(p, l)' <=> LaunchHeld(p, l)
    BY <1>1, <2>1 DEF LaunchHeld, LaunchHolds, Stranded
  <2> QED  BY <1>2, <2>1, <2>2
<1>8. CASE FinalizeActive(p)
  <2>1. UNCHANGED <<labCount, total>> /\ launch[p].pc = "finalize"
    BY <1>8 DEF FinalizeActive, LaunchAt, queueVars
  <2>2. r \in Rows /\ launch[p].isNew /\ OwnRow(launch[p], rows[r]) /\ ~rows[r].ended
    BY <2>1, LaunchRow
  <2>3. CASE rows[r].status = "erased"
    <3>1. Leave(p) /\ UNCHANGED rows
      BY <1>8, <2>3 DEF FinalizeActive, Exists
    <3>2. \A l : LaunchHeld(p, l)' <=> LaunchHeld(p, l)
      BY <2>1, <2>2, <2>3, <3>1, LeftHeld DEF LaunchHeld, LaunchHolds, Stranded
    <3> QED  BY <1>2, <2>1, <3>1, <3>2
  <2>4. CASE rows[r].status # "erased"
    <3>1. rows[r].status = "provisioning"
      BY <2>1, <2>2, <2>4 DEF OwnRow
    <3>2. Exists(r) /\ NoTwinOf(r)
      BY <2>2, <3>1 DEF Exists, NoTwinOf, LiveRowsOn, LiveRows, OneLivePerLab, Live
    <3>3. LaunchTo(p, "start")
      BY <1>8, <3>2 DEF FinalizeActive
    <3>4. rows'[r].status # "erased"
      BY <1>8, <2>2, <2>4, ActiveRow
    <3>5. \A l \in Labs : LaunchHeld(p, l)' <=> LaunchHeld(p, l)
      BY <1>1, <2>1, <2>4, <3>3, <3>4 DEF LaunchHeld, LaunchHolds, Stranded
    <3>6. ASSUME NEW l \in Labs, NEW s \in Rows PROVE RowHeld(s, l)' <=> RowHeld(s, l)
      <4>1. CASE rows'[s] = rows[s]
        BY <4>1, StillRowsHold
      <4>2. CASE rows'[s] # rows[s]
        <5>1. s = r /\ rows'[s].status = "active" /\ rows'[s].ended = rows[s].ended
              /\ rows'[s].lab = rows[s].lab
          BY <1>8, <4>2, ActiveRow
        <5> QED  BY <3>1, <5>1 DEF RowHeld, Live
      <4> QED  BY <4>1, <4>2
    <3> QED  BY <2>1, <3>5, <3>6, LaunchNobodyMoves
  <2> QED  BY <2>3, <2>4
<1>9. CASE StartNodes(p)
  <2>1. UNCHANGED <<labCount, total, rows>> /\ launch[p].pc = "start"
    BY <1>9 DEF StartNodes, LaunchAt, queueVars
  <2>2. r \in Rows /\ launch[p].isNew /\ OwnRow(launch[p], rows[r])
    BY <2>1, LaunchRow
  <2>3. CASE rows[r].status = "erased"
    <3>1. Leave(p)
      BY <1>9, <2>3 DEF StartNodes, Exists
    <3>2. \A l : LaunchHeld(p, l)' <=> LaunchHeld(p, l)
      BY <2>1, <2>2, <2>3, <3>1, LeftHeld DEF LaunchHeld, LaunchHolds, Stranded
    <3> QED  BY <1>2, <2>1, <3>2
  <2>4. CASE rows[r].status # "erased"
    <3>1. rows[r].status = "active"
      BY <2>1, <2>2, <2>4 DEF OwnRow
    <3>2. LaunchTo(p, "publish")
      BY <1>9, <3>1 DEF StartNodes, Exists, Calm
    <3>3. \A l \in Labs : LaunchHeld(p, l)' <=> LaunchHeld(p, l)
      BY <1>1, <2>1, <2>4, <3>2 DEF LaunchHeld, LaunchHolds, Stranded
    <3> QED  BY <1>2, <2>1, <3>3
  <2> QED  BY <2>3, <2>4
<1> QED
  BY <1>4, <1>5, <1>6, <1>7, <1>8, <1>9, AcquireExact, InsertExact, FailedExact, GiveBackExact
  DEF LaunchStep

\* Every step of Next.
LEMMA AllStepKinds ==
  ASSUME [Next]_vars
  PROVE  \/ \E p \in Launchers : LaunchStep(p)
         \/ \E e \in Closers : CloseStep(e)
         \/ \E p \in Launchers, u \in Users, l \in Labs : Ask(p, u, l)
         \/ \E e \in Closers, r \in Rows : EndAsked(e, r) \/ StateAsked(e, r)
                                           \/ (ReapPick(r) /\ e = Reaper)
         \/ \E u \in Users : Erase(u)
         \/ Crash
         \/ CountersExpire
         \/ UNCHANGED <<labCount, total, rows, launch, close, accounts>>
<1>1. CASE ReapSelect
  BY <1>1 DEF ReapSelect, queueVars
<1>2. CASE QueueExpires
  BY <1>2 DEF QueueExpires, ExpireQueue, counterVars
<1>3. CASE \E r \in Rows : FallDue(r) \/ LoseGns3(r)
  BY <1>3 DEF FallDue, LoseGns3, queueVars
<1>4. CASE UNCHANGED vars
  BY <1>4 DEF vars, queueVars
<1> QED  BY <1>1, <1>2, <1>3, <1>4, LifecycleAssumption DEF Next

\* A step of a closer moves the claims of that closer and of its row at most.
LEMMA CloseSameBut ==
  ASSUME LifecycleInv, [Next]_vars, NEW e \in Closers, UNCHANGED <<launch, accounts>>,
         \A f \in Closers : f # e => close'[f] = close[f], NEW l, NEW X,
         <<"close", e>> \in X \/ (CloseHolds(e, l)' <=> CloseHolds(e, l)),
         \A r \in Rows : <<"row", r>> \in X \/ rows'[r] = rows[r]
  PROVE  SameBut(l, X)
<1>1. \A q \in Launchers : LaunchHeld(q, l)' <=> LaunchHeld(q, l)
  BY WaitersHold
<1>2. \A r \in Rows : <<"row", r>> \in X \/ (RowHeld(r, l)' <=> RowHeld(r, l))
  BY StillRowsHold
<1>3. \A f \in Closers : f # e => (CloseHolds(f, l)' <=> CloseHolds(f, l))
  BY DEF CloseHolds
<1> QED  BY <1>1, <1>2, <1>3 DEF SameBut

\* What keeps the count while a closer moves on without a slot changing hands.
LEMMA CloseNobodyMoves ==
  ASSUME ExactInv, [Next]_vars, NEW e \in Closers,
         UNCHANGED <<launch, accounts, rows, labCount, total>>,
         \A f \in Closers : f # e => close'[f] = close[f],
         \A l \in Labs : CloseHolds(e, l)' <=> CloseHolds(e, l)
  PROVE  HoldersCounted' /\ Exact'
<1>1. \A l \in Labs : SameBut(l, {})
  BY CloseSameBut DEF ExactInv
<1>2. TypeOK /\ HoldersCounted /\ Exact
  BY DEF ExactInv, LifecycleInv
<1> QED  BY <1>1, <1>2, NobodyMoves

\* A closer takes the slot over from the row it ends.
LEMMA MarkExact ==
  ASSUME ExactInv, [Next]_vars, NEW e \in Closers, MarkEnded(e)
  PROVE  HoldersCounted' /\ Exact'
<1> USE DEF ExactInv, LifecycleInv
<1>1. /\ UNCHANGED <<launch, accounts, labCount, total>> /\ close[e].pc = "mark"
      /\ \A f \in Closers : f # e => close'[f] = close[f]
  BY CloseFrame DEF MarkEnded, CloseAt, queueVars, CloseStep
<1>2. close[e].row \in Rows /\ close[e].row # None /\ Knows(close[e])
  BY <1>1 DEF ClosesSound, IdleClose, TypeOK, CloseStates, AllKnow
<1>3. \A l : ~CloseHolds(e, l)
  BY <1>1 DEF CloseHolds
<1> PICK r \in Rows : r = close[e].row
  BY <1>2
<1>4. CASE close[e].ended \/ ~Exists(r)
  <2>1. UNCHANGED rows /\ close'[e].pc \in {"teardown", "idle"}
    BY <1>4 DEF MarkEnded, CloseTo, TypeOK, CloseStates, IdleClose
  <2>2. \A l : ~CloseHolds(e, l)'
    BY <2>1 DEF CloseHolds
  <2> QED  BY <1>1, <1>3, <2>1, <2>2, CloseNobodyMoves
<1>5. CASE ~close[e].ended /\ Exists(r)
  <2> DEFINE k == rows[r].lab
             x == <<"row", r>>
             y == <<"close", e>>
  <2>1. /\ ~rows[r].ended /\ close[e].lab = k /\ rows[r].status \in Live /\ k \in Labs
    <3>1. ~rows[r].ended /\ close[e].lab = k /\ rows[r].status \in Settled
      BY <1>1, <1>2, <1>5 DEF Knows
    <3> QED  BY <1>5, <3>1 DEF RowsSettled, RowSettled, Exists, Settled
  <2>2. close'[e].pc = "measure" /\ close'[e].lab = k
    BY <1>1, <1>5, <2>1 DEF MarkEnded, TypeOK, CloseStates
  <2>3. rows'[r].status = "ended" /\ \A s \in Rows : s # r => rows'[s] = rows[s]
    BY <1>5 DEF MarkEnded, TypeOK, RowStates
  <2>4. \A l : (RowHeld(r, l) <=> l = k) /\ ~RowHeld(r, l)'
    BY <2>1, <2>3 DEF RowHeld, Live
  <2>5. \A l : CloseHolds(e, l)' <=> l = k
    BY <2>2 DEF CloseHolds
  <2>6. ASSUME NEW l \in Labs PROVE SameBut(l, {x, y})
    <3> DEFINE X == {x, y}
    <3>1. <<"close", e>> \in X /\ \A s \in Rows : <<"row", s>> \in X \/ rows'[s] = rows[s]
      BY <2>3
    <3> HIDE DEF X
    <3>2. SameBut(l, X)
      BY <1>1, <3>1, CloseSameBut
    <3> QED  BY <3>2 DEF X
  <2>7. \A l \in Labs : /\ (x \in Holders(l) <=> l = k) /\ x \notin Holders(l)'
                        /\ (y \in Holders(l)' <=> l = k) /\ y \notin Holders(l)
    BY <1>3, <2>4, <2>5, HolderMembers
  <2>8. x # y
    OBVIOUS
  <2> HIDE DEF x, y, k
  <2>9. /\ TypeOK /\ HoldersCounted /\ Exact /\ UNCHANGED <<labCount, total>> /\ k \in Labs
    BY <1>1, <2>1 DEF k
  <2>10. /\ \A l \in Labs : SameBut(l, {x, y})
         /\ \A l \in Labs : x \in Holders(l) <=> l = k
         /\ \A l \in Labs : y \in Holders(l)' <=> l = k
         /\ \A l \in Labs : y \notin Holders(l) /\ x \notin Holders(l)'
    BY <2>6, <2>7
  <2> QED  BY <2>8, <2>9, <2>10, SlotMoves
<1> QED  BY <1>4, <1>5

\* A closer gives back the slot of the row it has ended.
LEMMA FreeExact ==
  ASSUME Calm, ExactInv, [Next]_vars, NEW e \in Closers, FreeSlot(e)
  PROVE  HoldersCounted' /\ Exact'
<1> USE DEF ExactInv, LifecycleInv
<1> DEFINE k == close[e].lab
           x == <<"close", e>>
<1>1. /\ UNCHANGED <<launch, accounts, rows>> /\ close[e].pc = "free" /\ ReleaseSlot(k)
      /\ \A f \in Closers : f # e => close'[f] = close[f]
  BY CloseFrame DEF FreeSlot, CloseAt, CloseStep, Calm
<1>2. k \in Labs
  BY <1>1 DEF AllKnow, Knows
<1>3. \A l : CloseHolds(e, l) <=> l = k
  BY <1>1 DEF CloseHolds
<1>4. \A l : ~CloseHolds(e, l)'
  <2>1. close'[e].pc = "teardown"
    BY DEF FreeSlot, CloseTo, TypeOK, CloseStates
  <2> QED  BY <2>1 DEF CloseHolds
<1>5. ASSUME NEW l \in Labs PROVE SameBut(l, {x})
  <2> DEFINE X == {x}
  <2>1. <<"close", e>> \in X /\ \A s \in Rows : rows'[s] = rows[s]
    BY <1>1
  <2> HIDE DEF X
  <2>2. SameBut(l, X)
    BY <1>1, <2>1, CloseSameBut
  <2> QED  BY <2>2 DEF X
<1>6. \A l \in Labs : (x \in Holders(l) <=> l = k) /\ x \notin Holders(l)'
  BY <1>3, <1>4, HolderMembers
<1> HIDE DEF x, k
<1> QED  BY <1>1, <1>2, <1>5, <1>6, SlotGivenBack DEF k

\* The other steps of a closer move no slot.
LEMMA CloseExact ==
  ASSUME Calm, ExactInv, [Next]_vars, NEW e \in Closers, CloseStep(e)
  PROVE  HoldersCounted' /\ Exact'
<1> USE DEF ExactInv, LifecycleInv
<1>1. \A f \in Closers : f # e => close'[f] = close[f]
  BY CloseFrame
<1>2. CASE ReapReread(e) \/ StateAnswered(e) \/ Teardown(e)
  <2>1. /\ UNCHANGED <<launch, accounts, rows, labCount, total>>
        /\ close[e].pc \in {"reread", "ask", "teardown"}
    BY <1>2 DEF ReapReread, StateAnswered, Teardown, CloseAt, queueVars
  <2>2. close'[e].pc \in {"mark", "teardown", "idle"}
    BY <1>2 DEF ReapReread, StateAnswered, Teardown, CloseTo, IdleClose, TypeOK, CloseStates
  <2>3. \A l \in Labs : CloseHolds(e, l)' <=> CloseHolds(e, l)
    BY <2>1, <2>2 DEF CloseHolds
  <2> QED  BY <1>1, <2>1, <2>3, CloseNobodyMoves
<1>3. CASE Measure(e)
  <2>1. UNCHANGED <<launch, accounts, rows, labCount, total>> /\ close[e].pc = "measure"
    BY <1>3 DEF Measure, CloseAt, queueVars
  <2>2. close'[e].pc = "free" /\ close'[e].lab = close[e].lab
    BY <1>3 DEF Measure, CloseTo, TypeOK, CloseStates
  <2>3. \A l \in Labs : CloseHolds(e, l)' <=> CloseHolds(e, l)
    BY <2>1, <2>2 DEF CloseHolds
  <2> QED  BY <1>1, <2>1, <2>3, CloseNobodyMoves
<1> QED  BY <1>2, <1>3, MarkExact, FreeExact DEF CloseStep

\* A request that arrives holds nothing yet.
LEMMA ArrivalExact ==
  ASSUME ExactInv, [Next]_vars,
         \/ \E p \in Launchers, u \in Users, l \in Labs : Ask(p, u, l)
         \/ \E e \in Closers, r \in Rows : EndAsked(e, r) \/ StateAsked(e, r)
                                           \/ (ReapPick(r) /\ e = Reaper)
         \/ UNCHANGED <<labCount, total, rows, launch, close, accounts>>
  PROVE  HoldersCounted' /\ Exact'
<1> USE DEF ExactInv, LifecycleInv
<1>1. ASSUME UNCHANGED <<rows, labCount, total, accounts>>,
             \A p \in Launchers : \/ launch'[p] = launch[p]
                                  \/ \A l \in Labs : ~LaunchHeld(p, l) /\ ~LaunchHeld(p, l)',
             \A e \in Closers : \/ close'[e] = close[e]
                                \/ \A l \in Labs : ~CloseHolds(e, l) /\ ~CloseHolds(e, l)'
      PROVE  HoldersCounted' /\ Exact'
  <2>1. ASSUME NEW l \in Labs PROVE SameBut(l, {})
    <3>1. \A p \in Launchers : LaunchHeld(p, l)' <=> LaunchHeld(p, l)
      BY <1>1, WaitersHold
    <3>2. \A e \in Closers : CloseHolds(e, l)' <=> CloseHolds(e, l)
      BY <1>1 DEF CloseHolds
    <3>3. \A r \in Rows : RowHeld(r, l)' <=> RowHeld(r, l)
      BY <1>1, StillRowsHold
    <3> QED  BY <3>1, <3>2, <3>3 DEF SameBut
  <2> QED  BY <1>1, <2>1, NobodyMoves
<1>2. ASSUME NEW p \in Launchers, NEW u \in Users, NEW m \in Labs, Ask(p, u, m)
      PROVE  HoldersCounted' /\ Exact'
  <2>1. /\ UNCHANGED <<rows, labCount, total, accounts, close>> /\ launch[p].pc = "idle"
        /\ \A q \in Launchers : q # p => launch'[q] = launch[q]
    BY <1>2 DEF Ask, LaunchAt, queueVars, TypeOK
  <2>2. launch'[p].pc = "acquire" \/ (launch'[p].pc = "lookup" /\ ~launch'[p].isNew)
    BY <1>2 DEF Ask, TypeOK
  <2>3. \A l \in Labs : ~LaunchHeld(p, l) /\ ~LaunchHeld(p, l)'
    BY <2>1, <2>2 DEF LaunchHeld, LaunchHolds, Stranded
  <2> QED  BY <1>1, <2>1, <2>3
<1>3. ASSUME NEW e \in Closers, NEW r \in Rows,
             EndAsked(e, r) \/ StateAsked(e, r) \/ (ReapPick(r) /\ e = Reaper)
      PROVE  HoldersCounted' /\ Exact'
  <2>1. /\ UNCHANGED <<rows, labCount, total, accounts, launch>> /\ close[e].pc = "idle"
        /\ close'[e].pc \in {"mark", "ask", "reread"}
        /\ \A f \in Closers : f # e => close'[f] = close[f]
    BY <1>3, LoadedRow DEF queueVars
  <2>2. \A l \in Labs : ~CloseHolds(e, l) /\ ~CloseHolds(e, l)'
    BY <2>1 DEF CloseHolds
  <2> QED  BY <1>1, <2>1, <2>2
<1>4. CASE UNCHANGED <<labCount, total, rows, launch, close, accounts>>
  BY <1>1, <1>4
<1> QED  BY <1>2, <1>3, <1>4

\* A counter expires only when nobody holds a slot it counts.
LEMMA ExpiryExact ==
  ASSUME ExactInv, [Next]_vars, CountersExpire
  PROVE  HoldersCounted' /\ Exact'
<1> USE DEF ExactInv, LifecycleInv
<1>1. UNCHANGED <<rows, launch, close, crashes, accounts>>
  BY DEF CountersExpire
<1>2. \A l : Holders(l)' = Holders(l)
  BY <1>1 DEF Holders, LaunchHeld, LaunchHolds, Stranded, RowHeld, CloseHolds
<1>3. AllHolders' = AllHolders
  BY <1>2 DEF AllHolders
<1>4. ASSUME NEW l \in Labs, AtRest(l) PROVE Holders(l) = {} /\ Cardinality(Holders(l)) = 0
  <2>1. Holders(l) = {}
    BY <1>4 DEF AtRest, Holders, LaunchHeld, LaunchHolds, Stranded, RowHeld, CloseHolds
  <2> QED  BY <2>1, FS_EmptySet
<1>5. ASSUME NEW l \in Labs, AtRest(l), ExpireLabCounter(l)
      PROVE  HoldersCounted' /\ Exact'
  <2>1. /\ labCount[l] > 0 /\ labCount'[l] = 0 /\ total' = total
        /\ \A m \in Labs : m # l => labCount'[m] = labCount[m]
    BY <1>5 DEF ExpireLabCounter, TypeOK, QueueTypeOK
  <2>2. HoldersCounted'
    BY <1>2, <1>4, <1>5, <2>1 DEF HoldersCounted
  <2>3. ~(crashes = 0 /\ accounts = Users)
    BY <1>4, <1>5, <2>1 DEF Exact
  <2> QED  BY <1>1, <2>2, <2>3 DEF Exact
<1>6. ASSUME \A l \in Labs : AtRest(l), ExpireTotalCounter PROVE HoldersCounted' /\ Exact'
  <2>1. total > 0 /\ labCount' = labCount
    BY <1>6 DEF ExpireTotalCounter
  <2>2. HoldersCounted'
    BY <1>2, <2>1 DEF HoldersCounted
  <2>3. AllHolders = {}
    BY <1>4, <1>6 DEF AllHolders
  <2>4. Cardinality(AllHolders) = 0
    BY <2>3, FS_EmptySet
  <2>5. ~(crashes = 0 /\ accounts = Users)
    BY <2>1, <2>4 DEF Exact
  <2> QED  BY <1>1, <2>2, <2>5 DEF Exact
<1> QED  BY <1>5, <1>6 DEF CountersExpire

\* A restart takes the claims of the coroutines with it, and leaves the counters.
LEMMA CrashExact ==
  ASSUME ExactInv, Crash
  PROVE  HoldersCounted' /\ Exact'
<1> USE DEF ExactInv, LifecycleInv
<1>1. UNCHANGED <<labCount, rows>> /\ crashes' # 0
  BY DEF Crash, queueVars, TypeOK
<1>2. \A l : Holders(l)' \subseteq Holders(l)
  BY <1>1
  DEF Crash, Holders, LaunchHeld, LaunchHolds, Stranded, RowHeld, CloseHolds, IdleLaunch, IdleClose
<1>3. ASSUME NEW l \in Labs PROVE Cardinality(Holders(l)') <= labCount'[l]
  <2>1. /\ IsFiniteSet(Holders(l)) /\ Cardinality(Holders(l)) \in Nat
        /\ Cardinality(Holders(l)') \in Nat /\ labCount[l] \in Nat
    BY HoldersFinite DEF TypeOK, QueueTypeOK
  <2>2. Cardinality(Holders(l)') <= Cardinality(Holders(l))
    BY <1>2, <2>1, FS_Subset
  <2> QED  BY <1>1, <2>1, <2>2 DEF HoldersCounted
<1> QED  BY <1>1, <1>3 DEF HoldersCounted, Exact

\* An erasure takes the claims of the learner's rows with it; a launch that still
\* has one of them is left with its slot.
LEMMA EraseExact ==
  ASSUME ExactInv, NEW u \in Users, Erase(u)
  PROVE  HoldersCounted' /\ Exact'
<1> USE DEF ExactInv, LifecycleInv
<1>1. UNCHANGED <<labCount, launch, close>> /\ accounts' # Users
  BY DEF Erase, queueVars
<1> SUFFICES ASSUME NEW l \in Labs PROVE Cardinality(Holders(l)') <= labCount'[l]
  BY <1>1 DEF HoldersCounted, Exact
<1>2. \A e \in Closers : CloseHolds(e, l)' <=> CloseHolds(e, l)
  BY <1>1 DEF CloseHolds
<1>3. \A r \in Rows : RowHeld(r, l)' => RowHeld(r, l) /\ rows[r].user # u
  <2>1. ASSUME NEW r \in Rows, RowHeld(r, l)' PROVE RowHeld(r, l) /\ rows[r].user # u
    <3>1. rows'[r].status # "erased"
      BY <2>1 DEF RowHeld, Live
    <3>2. rows[r].user # u /\ rows'[r] = rows[r]
      BY <3>1, ErasedRow
    <3> QED  BY <2>1, <3>2 DEF RowHeld
  <2> QED  BY <2>1
<1>4. ASSUME NEW p \in Launchers, LaunchHeld(p, l)', ~LaunchHeld(p, l)
      PROVE  /\ launch[p].row \in Rows /\ RowHeld(launch[p].row, l)
             /\ rows[launch[p].row].user = u
  <2>1. /\ launch[p].lab = l /\ launch[p].pc \in {"provision", "finalize", "fail", "start"}
        /\ rows'[launch[p].row].status = "erased" /\ rows[launch[p].row].status # "erased"
    BY <1>1, <1>4 DEF LaunchHeld, LaunchHolds, Stranded
  <2>2. /\ launch[p].row \in Rows /\ OwnRow(launch[p], rows[launch[p].row])
        /\ ~rows[launch[p].row].ended
    BY <2>1, LaunchRow
  <2>3. /\ rows[launch[p].row].lab = l
        /\ rows[launch[p].row].status \in {"provisioning", "active"}
    BY <2>1, <2>2 DEF OwnRow
  <2>4. rows[launch[p].row].user = u
    BY <2>1, <2>2, ErasedRow
  <2> QED  BY <2>2, <2>3, <2>4 DEF RowHeld, Live
<1>5. /\ IsFiniteSet(Holders(l)) /\ Cardinality(Holders(l)) \in Nat
      /\ IsFiniteSet(Holders(l)') /\ Cardinality(Holders(l)') \in Nat
      /\ labCount[l] \in Nat /\ Cardinality(Holders(l)) <= labCount[l]
  BY HoldersFinite DEF TypeOK, QueueTypeOK, HoldersCounted
<1>6. CASE \A p \in Launchers : LaunchHeld(p, l)' => LaunchHeld(p, l)
  <2>1. Holders(l)' \subseteq Holders(l)
    BY <1>2, <1>3, <1>6 DEF Holders
  <2>2. Cardinality(Holders(l)') <= Cardinality(Holders(l))
    BY <1>5, <2>1, FS_Subset
  <2> QED  BY <1>1, <1>5, <2>2
<1>7. ASSUME NEW p \in Launchers, LaunchHeld(p, l)', ~LaunchHeld(p, l)
      PROVE  Cardinality(Holders(l)') <= labCount'[l]
  <2>1. PICK r \in Rows : r = launch[p].row
    BY <1>4, <1>7
  <2> DEFINE x == <<"launch", p>>
             y == <<"row", r>>
  <2>2. RowHeld(r, l) /\ rows[r].user = u
    BY <1>4, <1>7, <2>1
  <2>3. ASSUME NEW q \in Launchers, LaunchHeld(q, l)', ~LaunchHeld(q, l) PROVE q = p
    <3>1. /\ launch[q].row \in Rows /\ RowHeld(launch[q].row, l)
          /\ rows[launch[q].row].user = u
      BY <1>4, <2>3
    <3>2. launch[q].row = r
      BY <2>2, <3>1 DEF RowHeld, OneLivePerLab
    <3>3. launch[q].row # None
      BY <3>1, LifecycleAssumption
    <3> QED  BY <2>1, <3>2, <3>3 DEF LaunchesSound
  <2>4. Holders(l)' \ {x} \subseteq Holders(l)
    BY <1>2, <1>3, <2>3 DEF Holders
  <2>5. y \in Holders(l) /\ y \notin Holders(l)'
    BY <1>3, <2>2, HolderMembers
  <2> HIDE DEF x, y
  <2>6. Cardinality(Holders(l)') <= Cardinality(Holders(l))
    BY <1>5, <2>4, <2>5, Exchange
  <2> QED  BY <1>1, <1>5, <2>6
<1> QED  BY <1>6, <1>7

\* So every step keeps the count.
LEMMA CountStep ==
  ASSUME Calm, ExactInv, [Next]_vars
  PROVE  HoldersCounted' /\ Exact'
BY LaunchExact, CloseExact, ArrivalExact, ExpiryExact, CrashExact, EraseExact, AllStepKinds

\* At first nobody holds a slot and no slot is counted.
LEMMA ExactInit == Init => ExactInv
<1> SUFFICES ASSUME Init PROVE ExactInv
  OBVIOUS
<1>1. LifecycleInv
  BY InitInv
<1>2. /\ \A r \in Rows : rows[r] = NoRow
      /\ \A p \in Launchers : launch[p] = IdleLaunch
      /\ \A e \in Closers : close[e] = IdleClose
      /\ \A l \in Labs : labCount[l] = 0
      /\ total = 0 /\ due = {} /\ selected = {} /\ accounts = Users
  BY DEF Init, QueueInit
<1>3. RowsSettled
  BY <1>2 DEF RowsSettled, RowSettled, NoRow
<1>4. DueSettled
  BY <1>2 DEF DueSettled
<1>5. AllPaid /\ AllKnow /\ AllApart
  BY <1>2 DEF AllPaid, Paid, IdleLaunch, AllKnow, Knows, IdleClose, AllApart
<1>6. \A l : Holders(l) = {}
  BY <1>2
  DEF Holders, LaunchHeld, LaunchHolds, Stranded, RowHeld, CloseHolds, NoRow, IdleLaunch,
      IdleClose, Live
<1>7. AllHolders = {}
  BY <1>6 DEF AllHolders
<1>8. HoldersCounted /\ Exact
  BY <1>2, <1>6, <1>7, FS_EmptySet DEF HoldersCounted, Exact
<1> QED  BY <1>1, <1>3, <1>4, <1>5, <1>8 DEF ExactInv

\* Every step keeps the invariant.
LEMMA ExactNext == ASSUME Calm PROVE ExactInv /\ [Next]_vars => ExactInv'
<1> SUFFICES ASSUME ExactInv, [Next]_vars PROVE ExactInv'
  OBVIOUS
<1>1. /\ LifecycleInv /\ RowsSettled /\ DueSettled /\ AllPaid /\ AllKnow /\ AllApart
  BY DEF ExactInv
<1>2. LifecycleInv'
  BY <1>1, NextInv
<1>3. RowsSettled' /\ DueSettled' /\ AllPaid' /\ AllKnow' /\ AllApart'
  BY <1>1, SettledStep, DueStep, PaidStep, KnowStep, ApartStep
<1>4. HoldersCounted' /\ Exact'
  BY CountStep
<1> QED  BY <1>2, <1>3, <1>4 DEF ExactInv

\* Until a restart or an erasure the holders are the claims, and an open session
\* is a holder.
LEMMA ExactSlots == ExactInv => SlotsExact
<1> SUFFICES ASSUME ExactInv PROVE SlotsExact
  OBVIOUS
<1> USE DEF ExactInv, LifecycleInv
<1>1. ASSUME crashes = 0, accounts = Users
      PROVE  /\ \A l \in Labs : labCount[l] = Cardinality(Claims(l))
             /\ total = Cardinality(UNION {Claims(l) : l \in Labs})
  <2>1. \A p \in Launchers : \A l : ~Stranded(p, l)
    BY <1>1 DEF Stranded, RowsSettled, RowSettled, LaunchesSound, TypeOK, LaunchStates
  <2>2. \A l : Claims(l) = Holders(l)
    BY <2>1 DEF Claims, Holders, LaunchHeld, LaunchHolds, RowHeld, CloseHolds
  <2> QED  BY <1>1, <2>2 DEF Exact, AllHolders
<1>2. ASSUME NEW l \in Labs
      PROVE  Cardinality({r \in Rows : rows[r].lab = l /\ rows[r].status = "active"
                                       /\ ~rows[r].ended}) <= labCount[l]
  <2> DEFINE Open == {r \in Rows : rows[r].lab = l /\ rows[r].status = "active" /\ ~rows[r].ended}
             Tagged == {"row"} \X Open
  <2>1. IsFiniteSet(Open) /\ Cardinality(Open) \in Nat
    BY RowsFinite
  <2>2. IsFiniteSet({"row"}) /\ Cardinality({"row"}) = 1
    BY FS_Singleton
  <2>3. Cardinality(Tagged) = Cardinality(Open)
    <3> HIDE DEF Open
    <3>1. Cardinality(Tagged) = Cardinality({"row"}) * Cardinality(Open)
      BY <2>1, <2>2, FS_Product
    <3> QED  BY <2>1, <2>2, <3>1
  <2>4. Tagged \subseteq Holders(l)
    BY DEF Holders, RowHeld, Live
  <2>5. IsFiniteSet(Holders(l)) /\ Cardinality(Holders(l)) \in Nat
    BY HoldersFinite
  <2> HIDE DEF Tagged, Open
  <2>6. Cardinality(Tagged) <= Cardinality(Holders(l))
    BY <2>4, <2>5, FS_Subset
  <2>7. Cardinality(Holders(l)) <= labCount[l] /\ labCount[l] \in Nat
    BY DEF HoldersCounted, TypeOK, QueueTypeOK
  <2>8. Cardinality(Open) <= labCount[l]
    BY <2>1, <2>3, <2>5, <2>6, <2>7
  <2> QED  BY <2>8 DEF Open
<1> QED  BY <1>1, <1>2 DEF SlotsExact, OpenSessionsCounted

\* When a learner's requests do not overlap the end of their session and Redis
\* answers, the counters are exact until the process restarts or an account is
\* erased, and never below the open sessions after that.
THEOREM CountersExact == ASSUME Calm PROVE Spec => []SlotsExact
BY ExactInit, ExactNext, ExactSlots, PTL DEF Spec
=============================================================================
