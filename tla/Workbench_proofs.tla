-------------------------- MODULE Workbench_proofs --------------------------
(***************************************************************************)
(* Parts that work on a learner's lab, for any number of requests at once: *)
(* the attempts at a step are numbered without a gap or a double; stops    *)
(* and pauses keep what the learner has configured; what the owner is      *)
(* shown is neither stale nor opened twice by a ticket; no stream to the   *)
(* MCP server is left without an owner, and its pool of connections stays  *)
(* in order; the study measures each learner in one arm; and a simulated   *)
(* cohort leaves the stack as it found it.                                 *)
(***************************************************************************)
EXTENDS StepAttempts, NodePower, SessionDoor, McpStream, TransferStudy, McpPool, FiniteSetTheorems,
        SequenceTheorems, WellFoundedInduction, SimCohort, TLAPS

(* The attempts at a step *)

\* Whoever has written a number is done, and it was theirs.
StoredByDone ==
  /\ \A n \in numbers : attempt[n[1]].pc = "done" /\ attempt[n[1]].number = n[2]
  /\ \A a \in Attempters : AttemptAt(a, "done") => <<a, attempt[a].number>> \in numbers

NoDouble == \A m, n \in numbers : m[2] = n[2] => m = n
NoGap == \A k \in Taken : k > 1 => k - 1 \in Taken

\* A number in use follows one that is stored, and is above the failed tries.
Picked ==
  \A a \in Attempters : attempt[a].pc \in {"insert", "commit"} =>
    /\ attempt[a].number = 1 \/ attempt[a].number - 1 \in Taken
    /\ attempt[a].number > attempt[a].tries

\* An attempt has failed no more often than others have been stored.
Tried ==
  \A a \in Attempters :
    /\ attempt[a].tries > 0 => \E k \in Taken : k >= attempt[a].tries
    /\ attempt[a].tries = Retries <=> attempt[a].pc = "refused"

\* The unique index: what waits to be committed is new.
Reserved ==
  \A a \in Attempters : AttemptAt(a, "commit") =>
    /\ attempt[a].number \notin Taken
    /\ \A b \in Attempters : AttemptAt(b, "commit") /\ attempt[b].number = attempt[a].number => b = a

AttemptInv ==
  AttemptTypeOK /\ StoredByDone /\ NoDouble /\ NoGap /\ Picked /\ Tried /\ Reserved

\* The bounds of the model are numbers.
LEMMA AttemptsCounted == Cardinality(Attempters) \in Nat /\ Retries \in Nat /\ Retries > 0
BY AttemptAssumption, FS_CardinalityType

\* What is stored is a number of an execution.
LEMMA TakenNat ==
  ASSUME AttemptTypeOK
  PROVE  Taken \subseteq Nat \ {0}
BY DEF AttemptTypeOK, Taken

\* Before the first attempt nothing is numbered.
LEMMA AttemptInitInv == AttemptInit => AttemptInv
BY AttemptsCounted
   DEF AttemptInit, AttemptInv, AttemptTypeOK, StoredByDone, NoDouble, NoGap, Picked, Tried,
       Reserved, Taken, AttemptAt, AttemptPcs

\* Nothing is stored, and one execution goes on to where it uses no number.
LEMMA OneMoves ==
  ASSUME AttemptInv, NEW a \in Attempters, NEW pc \in {"pick", "failed"},
         attempt[a].pc \notin {"done", "refused"},
         AttemptTo(a, pc), UNCHANGED numbers
  PROVE  AttemptInv'
<1> USE DEF AttemptInv, AttemptTo
<1>1. AttemptTypeOK'
  BY DEF AttemptTypeOK, AttemptPcs
<1>2. Taken' = Taken
  BY DEF Taken
<1>3. \A b \in Attempters :
        /\ attempt'[b].number = attempt[b].number /\ attempt'[b].tries = attempt[b].tries
        /\ attempt'[b].pc = IF b = a THEN pc ELSE attempt[b].pc
  BY DEF AttemptTypeOK
<1>4. StoredByDone'
  BY <1>3 DEF StoredByDone, AttemptTypeOK, AttemptAt
<1>5. NoDouble' /\ NoGap'
  BY <1>2 DEF NoDouble, NoGap
<1>6. Picked' /\ Tried' /\ Reserved'
  BY <1>2, <1>3 DEF Picked, Tried, Reserved, AttemptAt
<1> QED  BY <1>1, <1>4, <1>5, <1>6

\* The number that is picked is above every stored one, hence above the tries.
LEMMA PickInv ==
  ASSUME AttemptInv, NEW a \in Attempters, Pick(a)
  PROVE  AttemptInv'
<1> USE DEF AttemptInv
<1>1. PICK k \in 1 .. Cardinality(Attempters) :
        /\ IsNext(k)
        /\ attempt' = [attempt EXCEPT ![a].pc = "insert", ![a].number = k]
  BY DEF Pick
<1>2. k \in Nat \ {0} /\ numbers' = numbers /\ Taken' = Taken /\ AttemptAt(a, "pick")
  BY <1>1, AttemptsCounted DEF Pick, Taken
<1>3. AttemptTypeOK'
  BY <1>1, <1>2 DEF AttemptTypeOK, AttemptPcs
<1>4. \A b \in Attempters :
        /\ attempt'[b].number = IF b = a THEN k ELSE attempt[b].number
        /\ attempt'[b].tries = attempt[b].tries
        /\ attempt'[b].pc = IF b = a THEN "insert" ELSE attempt[b].pc
  BY <1>1 DEF AttemptTypeOK
<1>5. StoredByDone'
  BY <1>2, <1>4 DEF StoredByDone, AttemptTypeOK, AttemptAt
<1>6. NoDouble' /\ NoGap'
  BY <1>2 DEF NoDouble, NoGap
<1>7. k > attempt[a].tries
  <2>1. attempt[a].tries \in Nat
    BY AttemptsCounted DEF AttemptTypeOK
  <2>2. CASE attempt[a].tries = 0
    BY <1>2, <2>2
  <2>3. CASE attempt[a].tries > 0
    <3>1. PICK n \in Taken : n >= attempt[a].tries
      BY <2>3 DEF Tried
    <3>2. n < k /\ n \in Nat
      BY <1>1, TakenNat DEF IsNext
    <3> QED  BY <1>2, <2>1, <3>1, <3>2
  <2> QED  BY <2>1, <2>2, <2>3
<1>8. Picked'
  <2>1. k = 1 \/ k - 1 \in Taken
    BY <1>1 DEF IsNext
  <2>2. ASSUME NEW b \in Attempters, attempt'[b].pc \in {"insert", "commit"}
        PROVE  /\ attempt'[b].number = 1 \/ attempt'[b].number - 1 \in Taken
               /\ attempt'[b].number > attempt'[b].tries
    <3>1. CASE b = a
      BY <1>4, <1>7, <2>1, <3>1
    <3>2. CASE b # a
      BY <1>4, <2>2, <3>2 DEF Picked
    <3> QED  BY <3>1, <3>2
  <2> QED  BY <1>2, <2>2 DEF Picked
<1>9. Tried' /\ Reserved'
  BY <1>2, <1>4 DEF Tried, Reserved, AttemptAt
<1> QED  BY <1>3, <1>5, <1>6, <1>8, <1>9

\* A number that is taken costs a try, one that is not is reserved.
LEMMA FlushInv ==
  ASSUME AttemptInv, NEW a \in Attempters, Flush(a)
  PROVE  AttemptInv'
<1> USE DEF AttemptInv
<1>1. AttemptAt(a, "insert") /\ Clear(a) /\ numbers' = numbers /\ Taken' = Taken
  BY DEF Flush, Insertable, Taken
<1>2. /\ attempt[a].number \in Nat /\ attempt[a].tries \in Nat
      /\ attempt[a].number > attempt[a].tries /\ attempt[a].tries < Retries
  BY <1>1, AttemptsCounted DEF AttemptTypeOK, Picked, Tried, AttemptAt
<1>3. NoDouble' /\ NoGap'
  BY <1>1 DEF NoDouble, NoGap
<1>4. CASE attempt[a].number \in Taken
  <2> DEFINE pc == IF attempt[a].tries + 1 = Retries THEN "refused" ELSE "pick"
  <2>1. attempt' = [attempt EXCEPT ![a].pc = pc, ![a].tries = @ + 1]
    BY <1>4 DEF Flush
  <2>2. pc \in {"refused", "pick"}
    OBVIOUS
  <2>3. pc = "refused" <=> attempt[a].tries + 1 = Retries
    OBVIOUS
  <2> HIDE DEF pc
  <2>4. AttemptTypeOK'
    BY <1>1, <1>2, <2>1, <2>2, AttemptsCounted DEF AttemptTypeOK, AttemptPcs
  <2>5. \A b \in Attempters :
          /\ attempt'[b].number = attempt[b].number
          /\ attempt'[b].tries = IF b = a THEN attempt[a].tries + 1 ELSE attempt[b].tries
          /\ attempt'[b].pc = IF b = a THEN pc ELSE attempt[b].pc
    BY <2>1 DEF AttemptTypeOK
  <2>6. StoredByDone'
    BY <1>1, <2>2, <2>5 DEF StoredByDone, AttemptTypeOK, AttemptAt
  <2>7. Picked' /\ Reserved'
    BY <1>1, <2>2, <2>5 DEF Picked, Reserved, AttemptAt
  <2>8. Tried'
    <3> SUFFICES ASSUME NEW b \in Attempters
                 PROVE  /\ attempt'[b].tries > 0 => \E k \in Taken : k >= attempt'[b].tries
                        /\ attempt'[b].tries = Retries <=> attempt'[b].pc = "refused"
      BY <1>1 DEF Tried
    <3>1. CASE b = a
      <4>1. attempt'[b].tries = attempt[a].tries + 1 /\ attempt'[b].pc = pc
        BY <2>5, <3>1
      <4>2. attempt[a].number >= attempt'[b].tries
        BY <1>2, <4>1
      <4> QED  BY <1>4, <2>3, <4>1, <4>2
    <3>2. CASE b # a
      BY <2>5, <3>2 DEF Tried
    <3> QED  BY <3>1, <3>2
  <2> QED  BY <1>3, <2>4, <2>6, <2>7, <2>8
<1>5. CASE attempt[a].number \notin Taken
  <2>1. attempt' = [attempt EXCEPT ![a].pc = "commit"]
    BY <1>5 DEF Flush, AttemptTo
  <2>2. AttemptTypeOK'
    BY <1>1, <2>1 DEF AttemptTypeOK, AttemptPcs
  <2>3. \A b \in Attempters :
          /\ attempt'[b].number = attempt[b].number /\ attempt'[b].tries = attempt[b].tries
          /\ attempt'[b].pc = IF b = a THEN "commit" ELSE attempt[b].pc
    BY <2>1 DEF AttemptTypeOK
  <2>4. StoredByDone'
    BY <1>1, <2>3 DEF StoredByDone, AttemptTypeOK, AttemptAt
  <2>5. Picked' /\ Tried'
    BY <1>1, <2>3 DEF Picked, Tried, AttemptAt
  <2>6. Reserved'
    BY <1>1, <1>5, <2>3 DEF Reserved, Clear, AttemptAt
  <2> QED  BY <1>3, <2>2, <2>4, <2>5, <2>6
<1> QED  BY <1>4, <1>5

\* A commit stores a number that follows a stored one and that nobody else has.
LEMMA CommitInv ==
  ASSUME AttemptInv, NEW a \in Attempters, Commit(a)
  PROVE  AttemptInv'
<1> USE DEF AttemptInv
<1> DEFINE k == attempt[a].number
<1>1. /\ AttemptAt(a, "commit") /\ numbers' = numbers \cup {<<a, k>>}
      /\ attempt' = [attempt EXCEPT ![a].pc = "done"]
  BY DEF Commit, AttemptTo
<1>2. /\ k \in Nat /\ attempt[a].tries \in Nat /\ k > attempt[a].tries /\ k # 0
      /\ k = 1 \/ k - 1 \in Taken
      /\ k \notin Taken
  BY <1>1, AttemptsCounted DEF AttemptTypeOK, Picked, Reserved, AttemptAt
<1> HIDE DEF k
<1>3. AttemptTypeOK'
  BY <1>1, <1>2 DEF AttemptTypeOK, AttemptPcs
<1>4. Taken' = Taken \cup {k}
  <2>1. <<a, k>>[2] = k /\ \A n \in numbers' : n \in numbers \/ n = <<a, k>>
    BY <1>1
  <2>2. \A i \in Taken' : i \in Taken \cup {k}
    BY <2>1 DEF Taken
  <2>3. \A i \in Taken : i \in Taken'
    BY <1>1 DEF Taken
  <2>4. k \in Taken'
    BY <1>1, <2>1 DEF Taken
  <2> QED  BY <2>2, <2>3, <2>4
<1>5. \A b \in Attempters :
        /\ attempt'[b].number = attempt[b].number /\ attempt'[b].tries = attempt[b].tries
        /\ attempt'[b].pc = IF b = a THEN "done" ELSE attempt[b].pc
  BY <1>1 DEF AttemptTypeOK
<1>6. StoredByDone'
  <2>1. \A n \in numbers : n[1] \in Attempters
    BY DEF AttemptTypeOK
  <2> QED  BY <1>1, <1>5, <2>1 DEF StoredByDone, AttemptAt, k
<1>7. NoDouble'
  <2>1. \A n \in numbers : n[2] # k
    BY <1>2 DEF Taken
  <2> QED  BY <1>1, <2>1 DEF NoDouble
<1>8. NoGap'
  BY <1>2, <1>4 DEF NoGap
<1>9. Picked' /\ Tried'
  BY <1>1, <1>4, <1>5 DEF Picked, Tried, AttemptAt
<1>10. Reserved'
  BY <1>1, <1>4, <1>5 DEF Reserved, AttemptAt, k
<1> QED  BY <1>3, <1>6, <1>7, <1>8, <1>9, <1>10

\* Every step keeps the invariant.
LEMMA AttemptNextInv == AttemptInv /\ [AttemptNext]_attemptVars => AttemptInv'
<1> SUFFICES ASSUME AttemptInv, [AttemptNext]_attemptVars
             PROVE  AttemptInv'
  OBVIOUS
<1>1. ASSUME NEW a \in Attempters, AttemptStep(a)
      PROVE  AttemptInv'
  <2>1. CASE Request(a)
    BY <2>1, OneMoves DEF Request, AttemptAt
  <2>2. CASE RollBack(a)
    BY <2>2, OneMoves DEF RollBack
  <2> QED  BY <1>1, <2>1, <2>2, PickInv, FlushInv, CommitInv DEF AttemptStep
<1>2. CASE UNCHANGED attemptVars
  BY <1>2 DEF attemptVars, AttemptInv, AttemptTypeOK, StoredByDone, NoDouble, NoGap, Picked, Tried,
              Reserved, Taken, AttemptAt
<1> QED  BY <1>1, <1>2 DEF AttemptNext

\* The invariant gives the property: the numbers taken are 1 .. n for some n.
LEMMA AttemptInvSuffices == AttemptInv => AttemptsNumbered
<1> SUFFICES ASSUME AttemptInv PROVE AttemptsNumbered
  OBVIOUS
<1> USE DEF AttemptInv
<1>1. \A m, n \in numbers : m[1] = n[1] \/ m[2] = n[2] => m = n
  BY DEF StoredByDone, NoDouble
<1>2. \A a \in Attempters : AttemptAt(a, "done") <=> <<a, attempt[a].number>> \in numbers
  BY DEF StoredByDone, AttemptAt
<1>3. \A a \in Attempters : AttemptAt(a, "refused") => \E n \in Taken : n >= Retries
  BY AttemptsCounted DEF Tried, AttemptAt
<1> QED  BY <1>1, <1>2, <1>3 DEF AttemptsNumbered, NoGap

\* For any number of attempts at a step that run at once, of retries, and of
\* requests cut off anywhere: the stored numbers are 1, 2, 3, ... without a gap
\* or a double, each answered attempt is stored once, and one is refused only
\* after as many others as it had tries.
THEOREM AttemptsNumberedAlways == AttemptSpec => []AttemptsNumbered
<1>1. AttemptInit => AttemptInv
  BY AttemptInitInv
<1>2. AttemptInv /\ [AttemptNext]_attemptVars => AttemptInv'
  BY AttemptNextInv
<1>3. AttemptInv => AttemptsNumbered
  BY AttemptInvSuffices
<1> QED  BY <1>1, <1>2, <1>3, PTL DEF AttemptSpec
-----------------------------------------------------------------------------
(* The power of the nodes: the inductive invariant *)

\* An execution, and the states of the nodes.
Acting ==
  [pc : {"idle", "state", "put", "save", "stop", "start", "clear", "mark"},
   kind : {"none", "start", "stop", "stop_lab", "restart", "reload", "reclaim"},
   paused : BOOLEAN, on : BOOLEAN \cup {None}, save : {"none", "failed", "unseen", "ok"}, saved : Nat]

PowerTyped ==
  /\ edits \in Nat /\ node \in [on : BOOLEAN, ram : 0 .. edits, disk : 0 .. edits]
  /\ paused \in BOOLEAN /\ raced \in BOOLEAN /\ snapshot \in BOOLEAN \cup {None}
  /\ actor \in [Actors -> Acting]

\* The reclaimer alone reclaims and marks, only a start leads to a start, nobody stops the
\* nodes without an attempt to save them, and what was saved is on the disk.
InTurn(a, e, disk) ==
  /\ e.kind = "reclaim" => a = Reclaimer
  /\ e.pc # "idle" /\ a = Reclaimer => e.kind = "reclaim"
  /\ e.pc \in {"start", "clear"} => e.kind \in Starts
  /\ e.pc = "stop" /\ e.kind # "reload" => e.save # "none"
  /\ e.pc = "mark" => a = Reclaimer
  /\ e.save = "ok" => e.saved <= disk

\* Without a race, nobody starts while the reclaimer is at work, so that the nodes are off
\* when it marks the row; whoever starts a paused session knows that it is paused, and
\* its nodes run only while such a start has yet to clear the mark.
PauseHeld ==
  /\ Busy(Reclaimer) => \A a \in Requests : actor[a].kind \notin Starts
  /\ ActorAt(Reclaimer, "mark") => ~node.on
  /\ paused => \A a \in Requests : actor[a].kind \in Starts => actor[a].paused /\ actor[a].kind # "reload"
  /\ paused /\ node.on => \E a \in Requests : ActorAt(a, "clear")

PowerInv ==
  /\ PowerTyped
  /\ node.disk <= node.ram
  /\ \A a \in Actors : InTurn(a, actor[a], node.disk)
  /\ loss \in {"nothing", "failed", "typed after the save", "unseen", "reload"}
  /\ ~raced => PauseHeld
-----------------------------------------------------------------------------
(* What a step of one execution keeps *)

\* The other executions are as they were, and what they saved is still on the disk.
LEMMA OneActor ==
  ASSUME PowerInv, NEW a \in Actors, NEW e \in Acting, actor' = [actor EXCEPT ![a] = e],
         node'.disk \in Nat, node.disk <= node'.disk, InTurn(a, e, node'.disk)
  PROVE  /\ actor' \in [Actors -> Acting] /\ actor'[a] = e
         /\ \A b \in Actors : b # a => actor'[b] = actor[b]
         /\ \A b \in Actors : InTurn(b, actor'[b], node'.disk)
<1>1. actor' \in [Actors -> Acting] /\ actor'[a] = e  BY DEF PowerInv, PowerTyped
<1>2. \A b \in Actors : b # a => actor'[b] = actor[b]  BY DEF PowerInv, PowerTyped
<1>3. ASSUME NEW b \in Actors, b # a  PROVE InTurn(b, actor'[b], node'.disk)
  <2>1. actor'[b] = actor[b] /\ InTurn(b, actor[b], node.disk)  BY <1>2, <1>3 DEF PowerInv
  <2>2. actor[b] \in Acting /\ node.disk \in 0 .. edits /\ edits \in Nat
    BY Zenon, <1>3 DEF PowerInv, PowerTyped
  <2>3. actor[b].saved \in Nat  BY Zenon, <2>2 DEF Acting
  <2> QED  BY <2>1, <2>2, <2>3 DEF InTurn
<1> QED  BY <1>1, <1>2, <1>3

\* The mark and the nodes agree after a step that starts nothing and marks nothing.
LEMMA PauseStays ==
  ASSUME PowerInv, PauseHeld, NEW a \in Actors, NEW e \in Acting, actor' = [actor EXCEPT ![a] = e],
         e.kind \in {actor[a].kind, "none"}, e.kind # "none" => e.paused = actor[a].paused,
         e.pc # "idle" => actor[a].pc # "idle", e.pc = "mark" => ~node'.on,
         actor[a].pc # "clear", paused' = paused, node'.on => node.on
  PROVE  PauseHeld'
<1>1. actor'[a] = e /\ \A b \in Actors : b # a => actor'[b] = actor[b]  BY DEF PowerInv, PowerTyped
<1>2. \A b \in Requests : b \in Actors  BY DEF Actors
<1>3. Reclaimer \in Actors  BY DEF Actors
<1>4. (Busy(Reclaimer) => \A b \in Requests : actor[b].kind \notin Starts)'
  <2>1. Busy(Reclaimer)' => Busy(Reclaimer)  BY <1>1, <1>3 DEF Busy, ActorAt
  <2>2. \A b \in Requests : actor[b].kind \notin Starts => actor'[b].kind \notin Starts
    BY <1>1, <1>2 DEF Starts
  <2> QED  BY <2>1, <2>2 DEF PauseHeld
<1>5. (ActorAt(Reclaimer, "mark") => ~node.on)'  BY <1>1, <1>3 DEF PauseHeld, ActorAt
<1>6. (paused => \A b \in Requests : actor[b].kind \in Starts => actor[b].paused /\ actor[b].kind # "reload")'
  <2>1. ASSUME paused, NEW b \in Requests, actor'[b].kind \in Starts
        PROVE  actor'[b].paused /\ actor'[b].kind # "reload"
    <3>1. actor'[b].kind = actor[b].kind /\ actor'[b].paused = actor[b].paused
      BY <1>1, <1>2, <2>1 DEF Starts
    <3> QED  BY <2>1, <3>1 DEF PauseHeld
  <2> QED  BY <2>1
<1>7. (paused /\ node.on => \E b \in Requests : ActorAt(b, "clear"))'
  BY <1>1, <1>2 DEF PauseHeld, ActorAt
<1> QED  BY <1>4, <1>5, <1>6, <1>7 DEF PauseHeld

\* What an execution reads and saves before it stops the nodes: it remains what it is, and
\* the disk holds what it has saved.
Saving(a, e) ==
  /\ e.kind = actor[a].kind /\ e.paused = actor[a].paused
  /\ actor[a].pc \in {"state", "put", "save"} /\ e.pc \in {"put", "save", "stop"}
  /\ e.pc = "stop" => e.save # "none"
  /\ e.save = "ok" => e.saved <= node'.disk
  /\ node' \in [on : BOOLEAN, ram : 0 .. edits, disk : 0 .. edits] /\ node'.on = node.on
  /\ node.disk <= node'.disk /\ node'.disk <= node'.ram
  /\ snapshot' \in BOOLEAN \cup {None}
  /\ UNCHANGED <<edits, paused, loss, raced>>

\* Such a step keeps the invariant.
LEMMA SavingKeeps ==
  ASSUME PowerInv, NEW a \in Actors, NEW e \in Acting, actor' = [actor EXCEPT ![a] = e], Saving(a, e)
  PROVE  PowerInv'
<1>1. node'.disk \in Nat
  <2>1. node'.disk \in 0 .. edits /\ edits \in Nat  BY Zenon DEF PowerInv, PowerTyped, Saving
  <2> QED  BY <2>1
<1>2. InTurn(a, actor[a], node.disk)  BY DEF PowerInv
<1>3. InTurn(a, e, node'.disk)  BY <1>2 DEF InTurn, Saving
<1>4. actor' \in [Actors -> Acting] /\ \A b \in Actors : InTurn(b, actor'[b], node'.disk)
  BY <1>1, <1>3, OneActor DEF Saving
<1>5. PowerTyped'  BY <1>4 DEF PowerInv, PowerTyped, Saving
<1>6. (~raced => PauseHeld)'
  <2> SUFFICES ASSUME ~raced  PROVE PauseHeld'  BY DEF Saving
  <2>1. PauseHeld  BY DEF PowerInv
  <2> QED  BY <2>1, PauseStays DEF Saving
<1> QED  BY <1>4, <1>5, <1>6 DEF PowerInv, Saving
-----------------------------------------------------------------------------
(* One lemma per action *)

\* The facts of the state that a step starts from.
LEMMA Before ==
  ASSUME PowerInv, NEW a \in Actors
  PROVE  /\ actor[a] \in Acting /\ InTurn(a, actor[a], node.disk)
         /\ node \in [on : BOOLEAN, ram : 0 .. edits, disk : 0 .. edits] /\ node.disk <= node.ram
         /\ edits \in Nat /\ node.disk \in Nat /\ node.ram \in Nat /\ actor[a].saved \in Nat
         /\ snapshot \in BOOLEAN \cup {None}
<1>1. actor[a] \in Acting /\ InTurn(a, actor[a], node.disk) /\ edits \in Nat
      /\ node \in [on : BOOLEAN, ram : 0 .. edits, disk : 0 .. edits] /\ node.disk <= node.ram
      /\ snapshot \in BOOLEAN \cup {None}
  BY Zenon DEF PowerInv, PowerTyped
<1>2. actor[a].saved \in Nat /\ node.ram \in 0 .. edits /\ node.disk \in 0 .. edits
  BY Zenon, <1>1 DEF Acting
<1> QED  BY <1>1, <1>2

\* The state is looked up, fetched, put into the cache, or cannot be had.
LEMMA StateKeeps ==
  ASSUME PowerInv, NEW a \in Actors, LookUp(a) \/ Fetch(a) \/ Put(a) \/ NoState(a)
  PROVE  PowerInv'
<1>1. /\ actor[a] \in Acting /\ InTurn(a, actor[a], node.disk)
      /\ node \in [on : BOOLEAN, ram : 0 .. edits, disk : 0 .. edits] /\ node.disk <= node.ram
      /\ edits \in Nat /\ node.disk \in Nat /\ node.ram \in Nat /\ actor[a].saved \in Nat
      /\ snapshot \in BOOLEAN \cup {None}
  BY Before
<1>2. actor[a].save = "ok" => actor[a].saved <= node.disk  BY <1>1 DEF InTurn
<1>3. CASE LookUp(a)
  <2> DEFINE e == [actor[a] EXCEPT !.pc = "save", !.on = snapshot]
  <2>1. e \in Acting  BY Zenon, <1>1 DEF Acting
  <2>2. e.pc = "save" /\ e.kind = actor[a].kind /\ e.paused = actor[a].paused
        /\ e.save = actor[a].save /\ e.saved = actor[a].saved  BY <1>1 DEF Acting
  <2>3. actor' = [actor EXCEPT ![a] = e]  BY Zenon, <1>3 DEF LookUp
  <2>4. actor[a].pc = "state" /\ UNCHANGED <<node, edits, paused, snapshot, loss, raced>>
    BY <1>3 DEF LookUp, ActorAt
  <2> HIDE DEF e
  <2>9. Saving(a, e)  BY <1>1, <1>2, <2>2, <2>4 DEF Saving
  <2> QED  BY Zenon, <2>1, <2>3, <2>9, SavingKeeps
<1>4. CASE Fetch(a)
  <2> DEFINE e == [actor[a] EXCEPT !.pc = "put", !.on = node.on]
  <2>0. node.on \in BOOLEAN  BY <1>1
  <2>1. e \in Acting  BY Zenon, <1>1, <2>0 DEF Acting
  <2>2. e.pc = "put" /\ e.kind = actor[a].kind /\ e.paused = actor[a].paused
        /\ e.save = actor[a].save /\ e.saved = actor[a].saved  BY <1>1 DEF Acting
  <2>3. actor' = [actor EXCEPT ![a] = e]  BY Zenon, <1>4 DEF Fetch
  <2>4. actor[a].pc = "state" /\ UNCHANGED <<node, edits, paused, snapshot, loss, raced>>
    BY <1>4 DEF Fetch, ActorAt
  <2> HIDE DEF e
  <2>9. Saving(a, e)  BY <1>1, <1>2, <2>2, <2>4 DEF Saving
  <2> QED  BY Zenon, <2>1, <2>3, <2>9, SavingKeeps
<1>5. CASE Put(a)
  <2> DEFINE e == [actor[a] EXCEPT !.pc = "save"]
  <2>1. e \in Acting  BY Zenon, <1>1 DEF Acting
  <2>2. e.pc = "save" /\ e.kind = actor[a].kind /\ e.paused = actor[a].paused
        /\ e.save = actor[a].save /\ e.saved = actor[a].saved  BY <1>1 DEF Acting
  <2>3. actor' = [actor EXCEPT ![a] = e]  BY Zenon, <1>5 DEF Put, ActorTo
  <2>4. actor[a].pc = "put" /\ UNCHANGED <<node, edits, paused, loss, raced>>
    BY <1>5 DEF Put, ActorAt
  <2>5. snapshot' \in BOOLEAN \cup {None}  BY Zenon, <1>1, <1>5 DEF Put, Acting
  <2> HIDE DEF e
  <2>9. Saving(a, e)  BY <1>1, <1>2, <2>2, <2>4, <2>5 DEF Saving
  <2> QED  BY Zenon, <2>1, <2>3, <2>9, SavingKeeps
<1>6. CASE NoState(a)
  <2> DEFINE e == [actor[a] EXCEPT !.pc = "stop", !.save = "failed"]
  <2>1. e \in Acting  BY Zenon, <1>1 DEF Acting
  <2>2. e.pc = "stop" /\ e.kind = actor[a].kind /\ e.paused = actor[a].paused
        /\ e.save = "failed" /\ e.saved = actor[a].saved  BY <1>1 DEF Acting
  <2>3. actor' = [actor EXCEPT ![a] = e]  BY Zenon, <1>6 DEF NoState
  <2>4. actor[a].pc = "state" /\ UNCHANGED <<node, edits, paused, snapshot, loss, raced>>
    BY <1>6 DEF NoState, ActorAt
  <2> HIDE DEF e
  <2>9. Saving(a, e)  BY <1>1, <1>2, <2>2, <2>4 DEF Saving
  <2> QED  BY Zenon, <2>1, <2>3, <2>9, SavingKeeps
<1> QED  BY <1>3, <1>4, <1>5, <1>6

\* What is saved is on the disk.
LEMMA PersistKeeps ==
  ASSUME PowerInv, NEW a \in Actors, Persist(a)
  PROVE  PowerInv'
<1>1. /\ actor[a] \in Acting /\ InTurn(a, actor[a], node.disk)
      /\ node \in [on : BOOLEAN, ram : 0 .. edits, disk : 0 .. edits] /\ node.disk <= node.ram
      /\ edits \in Nat /\ node.disk \in Nat /\ node.ram \in Nat /\ actor[a].saved \in Nat
      /\ snapshot \in BOOLEAN \cup {None}
  BY Before
<1>2. actor[a].pc = "save" /\ UNCHANGED <<edits, paused, snapshot, loss, raced>>
  BY DEF Persist, SaveStarted, ActorAt
<1>3. ASSUME NEW how \in {"unseen", "failed"}, UNCHANGED node,
             actor' = [actor EXCEPT ![a].pc = "stop", ![a].save = how]
      PROVE  PowerInv'
  <2> DEFINE e == [actor[a] EXCEPT !.pc = "stop", !.save = how]
  <2>1. e \in Acting  BY Zenon, <1>1 DEF Acting
  <2>2. e.pc = "stop" /\ e.kind = actor[a].kind /\ e.paused = actor[a].paused
        /\ e.save = how /\ e.saved = actor[a].saved  BY <1>1 DEF Acting
  <2>3. actor' = [actor EXCEPT ![a] = e]  BY Zenon, <1>3
  <2> HIDE DEF e
  <2>9. Saving(a, e)  BY <1>1, <1>2, <1>3, <2>2 DEF Saving
  <2> QED  BY Zenon, <2>1, <2>3, <2>9, SavingKeeps
<1>4. ASSUME node' = [node EXCEPT !.disk = node.ram],
             actor' = [actor EXCEPT ![a].pc = "stop", ![a].save = "ok", ![a].saved = node.ram]
      PROVE  PowerInv'
  <2> DEFINE e == [actor[a] EXCEPT !.pc = "stop", !.save = "ok", !.saved = node.ram]
  <2>1. e \in Acting  BY Zenon, <1>1 DEF Acting
  <2>2. e.pc = "stop" /\ e.kind = actor[a].kind /\ e.paused = actor[a].paused
        /\ e.save = "ok" /\ e.saved = node.ram  BY <1>1 DEF Acting
  <2>3. actor' = [actor EXCEPT ![a] = e]  BY Zenon, <1>4
  <2>4. node' \in [on : BOOLEAN, ram : 0 .. edits, disk : 0 .. edits]  BY Zenon, <1>1, <1>4
  <2>5. node'.on = node.on /\ node'.disk = node.ram /\ node'.ram = node.ram  BY <1>1, <1>4
  <2> HIDE DEF e
  <2>9. Saving(a, e)  BY <1>1, <1>2, <2>2, <2>4, <2>5 DEF Saving
  <2> QED  BY Zenon, <2>1, <2>3, <2>9, SavingKeeps
<1> QED  BY <1>3, <1>4 DEF Persist, SaveStarted

\* Ends an execution.
LEMMA RestingTyped == Resting \in Acting /\ \A a \in Actors, disk \in Nat : InTurn(a, Resting, disk)
<1>1. Resting \in Acting  BY DEF Resting, Acting
<1>2. \A a \in Actors, disk \in Nat : InTurn(a, Resting, disk)  BY DEF Resting, InTurn
<1> QED  BY <1>1, <1>2

\* The nodes are stopped: what is lost was typed after it was saved, or could not be saved.
LEMMA StopKeeps ==
  ASSUME PowerInv, NEW a \in Actors, Stop(a)
  PROVE  PowerInv'
<1>1. /\ actor[a] \in Acting /\ InTurn(a, actor[a], node.disk)
      /\ node \in [on : BOOLEAN, ram : 0 .. edits, disk : 0 .. edits] /\ node.disk <= node.ram
      /\ edits \in Nat /\ node.disk \in Nat /\ node.ram \in Nat /\ actor[a].saved \in Nat
      /\ snapshot \in BOOLEAN \cup {None}
  BY Before
<1>2. actor[a].pc = "stop" /\ UNCHANGED <<edits, paused, raced>>  BY DEF Stop, ActorAt
<1>3. node' \in [on : BOOLEAN, ram : 0 .. edits, disk : 0 .. edits]  BY Zenon, <1>1 DEF Stop
<1>4. ~node'.on /\ node'.disk = node.disk /\ node'.ram = node.disk  BY <1>1 DEF Stop
<1>5. snapshot' \in BOOLEAN \cup {None}  BY Zenon, <1>1 DEF Stop, Uncached
<1>6. loss' \in {"nothing", "failed", "typed after the save", "unseen", "reload"}
  <2>1. CASE ~(node.on /\ node.ram # node.disk)  BY Zenon, <2>1 DEF Stop
  <2>2. CASE node.on /\ node.ram # node.disk
    <3>1. loss' = Excuse(a)  BY Zenon, <2>2 DEF Stop
    <3>2. actor[a].kind = "reload" \/ actor[a].save \in {"failed", "unseen", "ok"}
      BY <1>1, <1>2 DEF InTurn, Acting
    <3>3. actor[a].save = "ok" => actor[a].saved # node.ram  BY <1>1, <2>2 DEF InTurn
    <3> QED  BY <3>1, <3>2, <3>3 DEF Excuse
  <2> QED  BY <2>1, <2>2
<1>7. PICK e \in Acting : /\ actor' = [actor EXCEPT ![a] = e] /\ InTurn(a, e, node.disk)
                          /\ e.kind \in {actor[a].kind, "none"}
                          /\ e.kind # "none" => e.paused = actor[a].paused
  <2> DEFINE on(pc) == [Resting EXCEPT !.pc = pc, !.kind = actor[a].kind, !.paused = actor[a].paused]
  <2>1. \A pc \in {"mark", "start"} : on(pc) \in Acting  BY Zenon, <1>1, RestingTyped DEF Acting
  <2>2. \A pc \in {"mark", "start"} : on(pc).pc = pc /\ on(pc).kind = actor[a].kind
                        /\ on(pc).paused = actor[a].paused /\ on(pc).save = "none"
    BY DEF Resting
  <2>3. CASE actor[a].kind = "reclaim"
    <3>1. actor' = [actor EXCEPT ![a] = on("mark")]  BY <2>3 DEF Stop, AfterStop, GoesOn
    <3>2. InTurn(a, on("mark"), node.disk)  BY <1>1, <2>2, <2>3 DEF InTurn
    <3> HIDE DEF on
    <3> QED  BY <2>1, <2>2, <3>1, <3>2
  <2>4. CASE actor[a].kind \in {"restart", "reload"}
    <3>1. actor' = [actor EXCEPT ![a] = on("start")]  BY <2>4 DEF Stop, AfterStop, GoesOn
    <3>2. InTurn(a, on("start"), node.disk)  BY <1>1, <1>2, <2>2, <2>4 DEF InTurn, Starts
    <3> HIDE DEF on
    <3> QED  BY <2>1, <2>2, <3>1, <3>2
  <2>5. CASE actor[a].kind \notin {"reclaim", "restart", "reload"}
    <3>1. actor' = [actor EXCEPT ![a] = Resting]  BY <2>5 DEF Stop, AfterStop, ActorEnds
    <3>2. Resting.kind = "none"  BY DEF Resting
    <3> QED  BY <1>1, <3>1, <3>2, RestingTyped
  <2> QED  BY <2>3, <2>4, <2>5
<1>8. actor' \in [Actors -> Acting] /\ \A b \in Actors : InTurn(b, actor'[b], node'.disk)
  <2>1. node'.disk \in Nat /\ node.disk <= node'.disk /\ InTurn(a, e, node'.disk)
    BY <1>1, <1>4, <1>7
  <2> QED  BY Zenon, <1>7, <2>1, OneActor
<1>9. (~raced => PauseHeld)'
  <2> SUFFICES ASSUME ~raced  PROVE PauseHeld'  BY <1>2
  <2>1. PauseHeld  BY DEF PowerInv
  <2> QED  BY <1>2, <1>4, <1>7, <2>1, PauseStays
<1>10. PowerTyped'  BY <1>2, <1>3, <1>5, <1>8 DEF PowerInv, PowerTyped
<1>11. (node.disk <= node.ram)'  BY <1>1, <1>4
<1> QED  BY <1>6, <1>8, <1>9, <1>10, <1>11 DEF PowerInv

\* An execution that ends in an error changes nothing else.
LEMMA AbortKeeps ==
  ASSUME PowerInv, NEW a \in Actors, Abort(a)
  PROVE  PowerInv'
<1>1. actor[a].pc \in {"stop", "start"} /\ actor' = [actor EXCEPT ![a] = Resting]
      /\ UNCHANGED <<node, edits, paused, snapshot, loss, raced>>
  BY DEF Abort, ActorEnds
<1>2. node.disk \in Nat  BY Before
<1>3. actor' \in [Actors -> Acting] /\ \A b \in Actors : InTurn(b, actor'[b], node'.disk)
  <2>1. node'.disk \in Nat /\ node.disk <= node'.disk /\ InTurn(a, Resting, node'.disk)
    BY <1>1, <1>2, RestingTyped
  <2> QED  BY Zenon, <1>1, <2>1, OneActor, RestingTyped
<1>4. (~raced => PauseHeld)'
  <2> SUFFICES ASSUME ~raced  PROVE PauseHeld'  BY <1>1
  <2>1. PauseHeld  BY DEF PowerInv
  <2>2. Resting.pc = "idle" /\ Resting.kind = "none"  BY DEF Resting
  <2> QED  BY <1>1, <2>1, <2>2, RestingTyped, PauseStays
<1>5. PowerTyped'  BY <1>1, <1>3 DEF PowerInv, PowerTyped
<1> QED  BY <1>1, <1>3, <1>4, <1>5 DEF PowerInv

\* A started node of a paused session has the one who will clear the mark; the reclaimer,
\* who would put it back, is not at work.
LEMMA StartKeeps ==
  ASSUME PowerInv, NEW a \in Actors, Start(a)
  PROVE  PowerInv'
<1>1. /\ actor[a] \in Acting /\ InTurn(a, actor[a], node.disk)
      /\ node \in [on : BOOLEAN, ram : 0 .. edits, disk : 0 .. edits] /\ node.disk <= node.ram
      /\ edits \in Nat /\ node.disk \in Nat /\ node.ram \in Nat /\ actor[a].saved \in Nat
      /\ snapshot \in BOOLEAN \cup {None}
  BY Before
<1>2. actor[a].pc = "start" /\ actor[a].kind \in Starts /\ a \in Requests
      /\ UNCHANGED <<edits, paused, loss, raced>>
  BY <1>1 DEF Start, ActorAt, InTurn, Starts, Actors
<1>3. node' \in [on : BOOLEAN, ram : 0 .. edits, disk : 0 .. edits]  BY Zenon, <1>1 DEF Start
<1>4. node'.disk = node.disk /\ node'.ram = node.ram  BY <1>1 DEF Start
<1>5. snapshot' \in BOOLEAN \cup {None}  BY Zenon, <1>1 DEF Start, Uncached
<1>6. PICK e \in Acting : /\ actor' = [actor EXCEPT ![a] = e] /\ InTurn(a, e, node.disk)
                          /\ e.kind \in {actor[a].kind, "none"}
                          /\ e.kind # "none" => e.paused = actor[a].paused
                          /\ e.pc = "clear" \/ actor[a].kind = "reload"
  <2>1. CASE actor[a].kind \in {"start", "restart"}
    <3> DEFINE e == [actor[a] EXCEPT !.pc = "clear"]
    <3>1. e \in Acting  BY Zenon, <1>1 DEF Acting
    <3>2. e.pc = "clear" /\ e.kind = actor[a].kind /\ e.paused = actor[a].paused
          /\ e.save = actor[a].save /\ e.saved = actor[a].saved
      BY <1>1 DEF Acting
    <3>3. actor' = [actor EXCEPT ![a] = e]  BY Zenon, <2>1 DEF Start, ActorTo
    <3>4. InTurn(a, e, node.disk)  BY <1>1, <1>2, <3>2 DEF InTurn
    <3> HIDE DEF e
    <3> QED  BY <3>1, <3>2, <3>3, <3>4
  <2>2. CASE actor[a].kind = "reload"
    <3>1. actor' = [actor EXCEPT ![a] = Resting]  BY <2>2 DEF Start, ActorEnds
    <3>2. Resting.kind = "none"  BY DEF Resting
    <3> QED  BY <1>1, <2>2, <3>1, <3>2, RestingTyped
  <2> QED  BY <1>2, <2>1, <2>2 DEF Starts
<1>7. /\ actor' \in [Actors -> Acting] /\ actor'[a] = e
      /\ \A b \in Actors : b # a => actor'[b] = actor[b]
      /\ \A b \in Actors : InTurn(b, actor'[b], node'.disk)
  <2>1. node'.disk \in Nat /\ node.disk <= node'.disk /\ InTurn(a, e, node'.disk)
    BY <1>1, <1>4, <1>6
  <2> QED  BY Zenon, <1>6, <2>1, OneActor
<1>8. (~raced => PauseHeld)'
  <2> SUFFICES ASSUME ~raced  PROVE PauseHeld'  BY <1>2
  <2>1. PauseHeld /\ ~Busy(Reclaimer)  BY <1>2 DEF PowerInv, PauseHeld
  <2>2. a # Reclaimer /\ Reclaimer \in Actors /\ Requests \subseteq Actors
    BY <1>2, PowerAssumption DEF Actors
  <2>3. actor'[Reclaimer] = actor[Reclaimer]  BY <1>7, <2>2
  <2>4. ~Busy(Reclaimer)' /\ ~ActorAt(Reclaimer, "mark")'  BY <2>1, <2>3 DEF Busy, ActorAt
  <2>5. (paused => \A b \in Requests : actor[b].kind \in Starts => actor[b].paused /\ actor[b].kind # "reload")'
    <3>1. ASSUME paused, NEW b \in Requests, actor'[b].kind \in Starts
          PROVE  actor'[b].paused /\ actor'[b].kind # "reload"
      <4>1. actor'[b].kind = actor[b].kind /\ actor'[b].paused = actor[b].paused
        BY <1>6, <1>7, <2>2, <3>1 DEF Starts
      <4> QED  BY <2>1, <3>1, <4>1 DEF PauseHeld
    <3> QED  BY <1>2, <3>1
  <2>6. (paused => \E b \in Requests : ActorAt(b, "clear"))'
    <3>1. paused => actor[a].kind # "reload"  BY <1>2, <2>1 DEF PauseHeld
    <3> QED  BY <1>2, <1>6, <1>7, <3>1 DEF ActorAt
  <2> QED  BY <2>4, <2>5, <2>6 DEF PauseHeld
<1>9. PowerTyped'  BY <1>2, <1>3, <1>5, <1>7 DEF PowerInv, PowerTyped
<1>10. (node.disk <= node.ram)'  BY <1>1, <1>4
<1> QED  BY <1>2, <1>7, <1>8, <1>9, <1>10 DEF PowerInv

\* Who has started a paused session knows that it was, and clears the mark.
LEMMA ClearKeeps ==
  ASSUME PowerInv, NEW a \in Actors, ClearPause(a)
  PROVE  PowerInv'
<1>1. /\ actor[a].pc = "clear" /\ actor' = [actor EXCEPT ![a] = Resting]
      /\ paused' = (paused /\ ~actor[a].paused) /\ UNCHANGED <<node, edits, snapshot, loss, raced>>
  BY DEF ClearPause, ClearPaused, ActorAt, ActorEnds
<1>2. InTurn(a, actor[a], node.disk) /\ node.disk \in Nat  BY Before
<1>3. actor[a].kind \in Starts /\ a \in Requests  BY <1>1, <1>2 DEF InTurn, Starts, Actors
<1>4. /\ actor' \in [Actors -> Acting] /\ actor'[a] = Resting
      /\ \A b \in Actors : b # a => actor'[b] = actor[b]
      /\ \A b \in Actors : InTurn(b, actor'[b], node'.disk)
  <2>1. node'.disk \in Nat /\ node.disk <= node'.disk /\ InTurn(a, Resting, node'.disk)
    BY <1>1, <1>2, RestingTyped
  <2> QED  BY Zenon, <1>1, <2>1, OneActor, RestingTyped
<1>5. (~raced => PauseHeld)'
  <2> SUFFICES ASSUME ~raced  PROVE PauseHeld'  BY <1>1
  <2>1. PauseHeld /\ ~Busy(Reclaimer)  BY <1>3 DEF PowerInv, PauseHeld
  <2>2. ~paused'  BY <1>1, <1>3, <2>1 DEF PauseHeld
  <2>3. actor'[Reclaimer] = actor[Reclaimer]  BY <1>3, <1>4, PowerAssumption DEF Actors
  <2>4. ~Busy(Reclaimer)' /\ ~ActorAt(Reclaimer, "mark")'  BY <2>1, <2>3 DEF Busy, ActorAt
  <2> QED  BY <2>2, <2>4 DEF PauseHeld
<1>6. paused' \in BOOLEAN  BY <1>1
<1>7. PowerTyped'  BY <1>1, <1>4, <1>6 DEF PowerInv, PowerTyped
<1> QED  BY <1>1, <1>4, <1>5, <1>7 DEF PowerInv

\* A request takes the mark with it as it finds it.
LEMMA AskKeeps ==
  ASSUME PowerInv, NEW a \in Requests, NEW kind \in {"start", "stop", "stop_lab", "restart", "reload"},
         AskNode(a, kind)
  PROVE  PowerInv'
<1> DEFINE place == IF kind = "start" THEN "start" ELSE IF kind = "reload" THEN "stop" ELSE "state"
           e == [Resting EXCEPT !.pc = place, !.kind = kind, !.paused = paused]
<1>1. a \in Actors /\ a # Reclaimer /\ Reclaimer \in Actors /\ Requests \subseteq Actors
  BY PowerAssumption DEF Actors
<1>2. node.disk \in Nat  BY <1>1, Before
<1>3. UNCHANGED <<node, edits, paused, snapshot, loss>> /\ actor[a].pc = "idle"
      /\ raced' = (raced \/ (kind \in Starts /\ Busy(Reclaimer)) \/ (kind = "reload" /\ paused))
  BY DEF AskNode, ActorAt
<1>4. actor' = [actor EXCEPT ![a] = e]  BY Zenon DEF AskNode
<1>5. place \in {"start", "stop", "state"} /\ paused \in BOOLEAN  BY Zenon DEF PowerInv, PowerTyped
<1>6. e \in Acting  BY Zenon, <1>5, RestingTyped DEF Acting
<1>7. e.pc = place /\ e.kind = kind /\ e.paused = paused /\ e.save = "none"  BY DEF Resting
<1>8. InTurn(a, e, node.disk)  BY <1>1, <1>7 DEF InTurn, Starts
<1> HIDE DEF e
<1>9. /\ actor' \in [Actors -> Acting] /\ actor'[a] = e
      /\ \A b \in Actors : b # a => actor'[b] = actor[b]
      /\ \A b \in Actors : InTurn(b, actor'[b], node'.disk)
  <2>1. node'.disk \in Nat /\ node.disk <= node'.disk /\ InTurn(a, e, node'.disk)
    BY <1>2, <1>3, <1>8
  <2> QED  BY Zenon, <1>1, <1>4, <1>6, <2>1, OneActor
<1>10. (~raced => PauseHeld)'
  <2> SUFFICES ASSUME ~raced'  PROVE PauseHeld'  OBVIOUS
  <2>1. PauseHeld /\ ~(kind \in Starts /\ Busy(Reclaimer)) /\ ~(kind = "reload" /\ paused)
    BY <1>3 DEF PowerInv
  <2>2. actor'[Reclaimer] = actor[Reclaimer]  BY <1>1, <1>9
  <2>3. (Busy(Reclaimer) => \A b \in Requests : actor[b].kind \notin Starts)'
    BY <1>1, <1>7, <1>9, <2>1, <2>2 DEF PauseHeld, Busy, ActorAt
  <2>4. (ActorAt(Reclaimer, "mark") => ~node.on)'  BY <1>3, <2>1, <2>2 DEF PauseHeld, ActorAt
  <2>5. (paused => \A b \in Requests : actor[b].kind \in Starts => actor[b].paused /\ actor[b].kind # "reload")'
    <3>1. ASSUME paused, NEW b \in Requests, actor'[b].kind \in Starts
          PROVE  actor'[b].paused /\ actor'[b].kind # "reload"
      <4>1. CASE b = a  BY <1>7, <1>9, <2>1, <3>1, <4>1
      <4>2. CASE b # a
        <5>1. actor'[b] = actor[b]  BY <1>1, <1>9, <4>2
        <5> QED  BY <2>1, <3>1, <5>1 DEF PauseHeld
      <4> QED  BY <4>1, <4>2
    <3> QED  BY <1>3, <3>1
  <2>6. (paused /\ node.on => \E b \in Requests : ActorAt(b, "clear"))'
    BY <1>1, <1>3, <1>9, <2>1 DEF PauseHeld, ActorAt
  <2> QED  BY <2>3, <2>4, <2>5, <2>6 DEF PauseHeld
<1>11. raced' \in BOOLEAN  BY <1>3
<1>12. PowerTyped'  BY <1>3, <1>9, <1>11 DEF PowerInv, PowerTyped
<1> QED  BY <1>3, <1>9, <1>10, <1>12 DEF PowerInv

\* The reclaimer selects a session, and marks it once it has stopped it.
LEMMA ReclaimKeeps ==
  ASSUME PowerInv, Select \/ MarkPaused
  PROVE  PowerInv'
<1>1. Reclaimer \in Actors /\ Reclaimer \notin Requests /\ Requests \subseteq Actors
  BY PowerAssumption DEF Actors
<1>2. node.disk \in Nat  BY <1>1, Before
<1>3. CASE Select
  <2> DEFINE e == [Resting EXCEPT !.pc = "state", !.kind = "reclaim"]
  <2>1. UNCHANGED <<node, edits, paused, snapshot, loss>> /\ ~paused
        /\ raced' = (raced \/ \E b \in Requests : actor[b].kind \in Starts)
    BY <1>3 DEF Select
  <2>2. actor' = [actor EXCEPT ![Reclaimer] = e]  BY Zenon, <1>3 DEF Select
  <2>3. e \in Acting  BY Zenon, RestingTyped DEF Acting
  <2>4. e.pc = "state" /\ e.kind = "reclaim" /\ e.save = "none"  BY DEF Resting
  <2>5. InTurn(Reclaimer, e, node.disk)  BY <2>4 DEF InTurn
  <2> HIDE DEF e
  <2>6. /\ actor' \in [Actors -> Acting] /\ actor'[Reclaimer] = e
        /\ \A b \in Actors : b # Reclaimer => actor'[b] = actor[b]
        /\ \A b \in Actors : InTurn(b, actor'[b], node'.disk)
    <3>1. node'.disk \in Nat /\ node.disk <= node'.disk /\ InTurn(Reclaimer, e, node'.disk)
      BY <1>2, <2>1, <2>5
    <3> QED  BY Zenon, <1>1, <2>2, <2>3, <3>1, OneActor
  <2>7. (~raced => PauseHeld)'
    <3>1. ASSUME ~raced'  PROVE PauseHeld'
      <4>1. \A b \in Requests : actor'[b].kind \notin Starts  BY <1>1, <2>1, <2>6, <3>1
      <4>2. ~ActorAt(Reclaimer, "mark")' /\ ~paused'  BY <2>1, <2>4, <2>6 DEF ActorAt
      <4> QED  BY <4>1, <4>2 DEF PauseHeld
    <3> QED  BY <3>1
  <2>8. raced' \in BOOLEAN  BY <2>1
  <2>9. PowerTyped'  BY <2>1, <2>6, <2>8 DEF PowerInv, PowerTyped
  <2> QED  BY <2>1, <2>6, <2>7, <2>9 DEF PowerInv
<1>4. CASE MarkPaused
  <2>1. UNCHANGED <<node, edits, snapshot, loss, raced>> /\ paused' = TRUE
        /\ actor[Reclaimer].pc = "mark" /\ actor' = [actor EXCEPT ![Reclaimer] = Resting]
    BY <1>4 DEF MarkPaused, ActorAt, ActorEnds
  <2>2. /\ actor' \in [Actors -> Acting] /\ actor'[Reclaimer] = Resting
        /\ \A b \in Actors : b # Reclaimer => actor'[b] = actor[b]
        /\ \A b \in Actors : InTurn(b, actor'[b], node'.disk)
    <3>1. node'.disk \in Nat /\ node.disk <= node'.disk /\ InTurn(Reclaimer, Resting, node'.disk)
      BY <1>1, <1>2, <2>1, RestingTyped
    <3> QED  BY Zenon, <1>1, <2>1, <3>1, OneActor, RestingTyped
  <2>3. (~raced => PauseHeld)'
    <3> SUFFICES ASSUME ~raced  PROVE PauseHeld'  BY <2>1
    <3>1. PauseHeld  BY DEF PowerInv
    <3>2. ~node.on /\ \A b \in Requests : actor[b].kind \notin Starts
      BY <2>1, <3>1 DEF PauseHeld, Busy, ActorAt
    <3>3. \A b \in Requests : actor'[b].kind \notin Starts  BY <1>1, <2>2, <3>2
    <3>4. ~node'.on  BY <2>1, <3>2
    <3> QED  BY <3>3, <3>4 DEF PauseHeld
  <2>4. paused' \in BOOLEAN  BY <2>1
  <2>5. PowerTyped'  BY <2>1, <2>2, <2>4 DEF PowerInv, PowerTyped
  <2> QED  BY <2>1, <2>2, <2>3, <2>5 DEF PowerInv
<1> QED  BY <1>3, <1>4

\* The learner types; time passes.
LEMMA TimeKeeps ==
  ASSUME PowerInv, Type \/ ReclaimIdle \/ Expire \/ UNCHANGED powerVars
  PROVE  PowerInv'
<1>1. node \in [on : BOOLEAN, ram : 0 .. edits, disk : 0 .. edits] /\ node.disk <= node.ram /\ edits \in Nat
      /\ node.ram \in 0 .. edits /\ node.disk \in 0 .. edits
  BY Zenon DEF PowerInv, PowerTyped
<1>2. UNCHANGED <<actor, paused, loss, raced>>
  BY DEF Type, ReclaimIdle, Expire, powerVars
<1>3. node'.on = node.on /\ node'.disk = node.disk /\ node'.disk <= node'.ram /\ edits' \in Nat
      /\ node' \in [on : BOOLEAN, ram : 0 .. edits', disk : 0 .. edits']
  <2>1. CASE Type
    <3>1. edits' = edits + 1 /\ node' = [node EXCEPT !.ram = edits + 1]  BY <2>1 DEF Type
    <3>2. node'.on = node.on /\ node'.disk = node.disk /\ node'.ram = edits + 1  BY <1>1, <3>1
    <3>3. node.disk \in 0 .. edits' /\ edits + 1 \in 0 .. edits' /\ node.on \in BOOLEAN
      BY <1>1, <3>1
    <3>4. node' \in [on : BOOLEAN, ram : 0 .. edits', disk : 0 .. edits']
      BY Zenon, <1>1, <3>1, <3>3
    <3> QED  BY <1>1, <3>1, <3>2, <3>4
  <2>2. CASE UNCHANGED <<node, edits>>  BY <1>1, <2>2
  <2> QED  BY <2>1, <2>2 DEF ReclaimIdle, Expire, powerVars
<1>4. snapshot' \in BOOLEAN \cup {None}
  BY Zenon DEF PowerInv, PowerTyped, Type, ReclaimIdle, Expire, powerVars
<1>5. PowerTyped'  BY <1>2, <1>3, <1>4 DEF PowerInv, PowerTyped
<1>6. \A a \in Actors : InTurn(a, actor'[a], node'.disk)  BY <1>2, <1>3 DEF PowerInv
<1>7. (~raced => PauseHeld)'
  <2> SUFFICES ASSUME ~raced  PROVE PauseHeld'  BY <1>2
  <2>1. PauseHeld  BY DEF PowerInv
  <2> QED  BY <1>2, <1>3, <2>1 DEF PauseHeld, Busy, ActorAt
<1> QED  BY <1>2, <1>3, <1>5, <1>6, <1>7 DEF PowerInv
-----------------------------------------------------------------------------
(* The theorem *)

\* For any number of requests at once, whatever fails and however old the snapshot: a
\* configuration that a stop loses could not be saved, was typed after it was, was not
\* seen, or was reloaded over; and the nodes of a session that is marked as paused run
\* only as long as somebody is at work on them, unless a start has overlapped the
\* reclaimer or a paused session was reloaded (worker/idle_reclaim.py, services/proxy.py).
THEOREM PauseAlwaysKeepsWork == PowerSpec => []PauseKeepsWork
<1>1. ASSUME PowerInit  PROVE PowerInv
  <2>1. \A a \in Actors : actor[a] = Resting  BY <1>1 DEF PowerInit
  <2>2. \A a \in Actors : InTurn(a, actor[a], node.disk)
    <3>1. node.disk = 0  BY <1>1 DEF PowerInit
    <3> QED  BY <2>1, <3>1, RestingTyped
  <2>3. actor \in [Actors -> Acting]  BY <1>1, RestingTyped DEF PowerInit
  <2>4. PowerTyped
    <3>1. edits \in Nat /\ 0 \in 0 .. edits  BY <1>1 DEF PowerInit
    <3>2. node \in [on : BOOLEAN, ram : 0 .. edits, disk : 0 .. edits]
      BY Zenon, <1>1, <3>1 DEF PowerInit
    <3>3. paused \in BOOLEAN /\ raced \in BOOLEAN /\ snapshot \in BOOLEAN \cup {None}
      BY Zenon, <1>1 DEF PowerInit
    <3> QED  BY <2>3, <3>1, <3>2, <3>3 DEF PowerTyped
  <2>5. Resting.pc = "idle"  BY DEF Resting
  <2>6. PauseHeld  BY <1>1, <2>1, <2>5 DEF PowerInit, PauseHeld, Busy, ActorAt, Actors
  <2> QED  BY <1>1, <2>2, <2>4, <2>6 DEF PowerInit, PowerInv
<1>2. ASSUME PowerInv, [PowerNext]_powerVars  PROVE PowerInv'
  <2>1. CASE PowerNext
    BY <1>2, <2>1, AskKeeps, StateKeeps, PersistKeeps, StopKeeps, StartKeeps, ClearKeeps, AbortKeeps,
       ReclaimKeeps, TimeKeeps DEF PowerNext
  <2>2. CASE UNCHANGED powerVars  BY <1>2, <2>2, TimeKeeps
  <2> QED  BY <1>2, <2>1, <2>2
<1>3. ASSUME PowerInv  PROVE PauseKeepsWork
  <2>1. PowerTypeOK
    <3>1. node \in [on : BOOLEAN, ram : 0 .. edits, disk : 0 .. edits] /\ snapshot \in BOOLEAN \cup {None}
      BY <1>3 DEF PowerInv, PowerTyped
    <3>2. ASSUME NEW a \in Actors
          PROVE  /\ actor[a].pc \in {"idle", "state", "put", "save", "stop", "start", "clear", "mark"}
                 /\ actor[a].kind = "reclaim" => a = Reclaimer
      BY <1>3, <3>2, Before DEF Acting, InTurn
    <3> QED  BY <3>1, <3>2 DEF PowerTypeOK
  <2>2. ~raced /\ paused => ~node.on \/ \E a \in Requests : Busy(a)
    BY <1>3 DEF PowerInv, PauseHeld, Busy, ActorAt
  <2> QED  BY <1>3, <2>1, <2>2 DEF PauseKeepsWork, PowerInv
<1> QED  BY <1>1, <1>2, <1>3, PTL DEF PowerSpec
-----------------------------------------------------------------------------
(* What the owner sees, and how they get in *)

\* For how long the devices have been past what a version shows.
Age(ver) == IF ver < device THEN past[ver + 1] ELSE 0

Entries == [ver : Nat, age : Nat]
OwnerViews == [pc : {"idle", "near", "fetched", "keep", "shown", "redeem"}, ver : Nat \cup {None},
               floor : Nat \cup {None}, wait : Nat, ticket : Tickets \cup {None}]
Passes == [age : Nat, held : BOOLEAN, issued : BOOLEAN, handed : Nat]

DoorTyped ==
  /\ device \in Nat /\ past \in Seq(Nat) /\ Len(past) = device
  /\ settled \in Nat /\ settled <= device
  /\ switch # None => switch \in [pc : {"near", "far"}, ver : Nat] /\ switch.ver <= device
  /\ view \in [Viewers -> OwnerViews]

\* What a cache may still show: a version is as old as the call that filled the cache was
\* slow and as the entry is old; behind an action only if it was put there late.
NearKept == near # None =>
  near \in Entries /\ near.ver <= device /\ near.age < NearTtl /\ Age(near.ver) <= MaxWait + near.age
FarKept == far # None =>
  /\ far \in Entries /\ far.ver <= device
  /\ far.age < FarTtl /\ Age(far.ver) <= 2 * MaxWait + NearTtl - 1 + far.age
  /\ far.ver < settled => far.ver \in late

\* What a request has in hand or shows.
InHand(e) ==
  /\ e.pc \in {"near", "fetched", "keep", "redeem"} => e.wait <= MaxWait
  /\ e.pc \in {"near", "fetched", "keep", "shown"} => e.floor \in Nat /\ e.floor <= device
  /\ e.pc \in {"fetched", "keep", "shown"} => e.ver \in Nat /\ e.ver <= device
  /\ e.pc = "fetched" => Age(e.ver) <= e.wait
  /\ e.pc = "keep" => Age(e.ver) <= MaxWait + NearTtl - 1 + e.wait
  /\ e.pc = "shown" => Age(e.ver) <= MaxPast /\ (e.ver < e.floor => e.ver \in late)
AllInHand == \A v \in Viewers : InHand(view[v])

\* A ticket is in Redis, with one request that has taken it out, or spent.
TicketOnce(p) ==
  /\ p.handed <= 1
  /\ p.held => p.issued
  /\ p.held \/ ~p.issued => p.handed = 0
TicketsOnce ==
  /\ pass \in [Tickets -> Passes]
  /\ \A t \in Tickets : TicketOnce(pass[t])
  /\ \A v \in Viewers : ViewAt(v, "redeem") =>
       /\ view[v].ticket \in Tickets
       /\ pass[view[v].ticket].issued /\ ~pass[view[v].ticket].held /\ pass[view[v].ticket].handed = 0
       /\ \A w \in Viewers : ViewAt(w, "redeem") /\ view[w].ticket = view[v].ticket => w = v

DoorInv == DoorTyped /\ NearKept /\ FarKept /\ AllInHand /\ TicketsOnce

\* The times of the model are whole seconds.
LEMMA DoorTimes ==
  /\ NearTtl \in Nat /\ FarTtl \in Nat /\ TicketTtl \in Nat /\ MaxWait \in Nat /\ MaxChanges \in Nat
  /\ NearTtl > 0 /\ FarTtl > 0 /\ TicketTtl > 0 /\ MaxWait > 0 /\ MaxChanges > 0
BY DoorAssumption

\* A request at rest is one.
LEMMA NoViewTyped == NoView \in OwnerViews /\ NoView.pc = "idle" /\ InHand(NoView) /\ InHand(NoView)'
BY DoorTimes DEF NoView, OwnerViews, InHand

\* A version's age is a number.
LEMMA AgeNat == ASSUME DoorTyped, NEW ver \in Nat PROVE Age(ver) \in Nat
<1>1. CASE ver < device
  <2>1. ver + 1 \in 1 .. Len(past) BY <1>1 DEF DoorTyped
  <2> QED BY <1>1, <2>1 DEF DoorTyped, Age
<1> QED BY <1>1 DEF Age

\* One request moves, the devices stay as they are, and a cache may be filled.
LEMMA OwnerMoves ==
  ASSUME DoorInv, NEW v \in Viewers, NEW e \in OwnerViews, view' = [view EXCEPT ![v] = e],
         UNCHANGED <<device, past, settled, switch, pass>>, late \subseteq late',
         NearKept', FarKept', InHand(e)', e.pc # "redeem"
  PROVE  DoorInv'
<1>1. /\ view' \in [Viewers -> OwnerViews] /\ view'[v] = e
      /\ \A w \in Viewers : w # v => view'[w] = view[w]
  BY DEF DoorInv, DoorTyped
<1>2. DoorTyped' BY <1>1 DEF DoorInv, DoorTyped
<1>3. AllInHand'
  <2>1. SUFFICES ASSUME NEW w \in Viewers PROVE InHand(view[w])' BY DEF AllInHand
  <2>2. CASE w = v BY <1>1, <2>2 DEF InHand, Age
  <2>3. CASE w # v
    <3>1. InHand(view[w]) /\ view'[w] = view[w] BY <1>1, <2>3 DEF DoorInv, AllInHand
    <3>2. UNCHANGED <<device, past>> /\ late \subseteq late' OBVIOUS
    <3> QED BY ONLY <3>1, <3>2 DEF InHand, Age
  <2> QED BY <2>2, <2>3
<1>4. TicketsOnce'
  <2>1. \A w \in Viewers : ViewAt(w, "redeem")' => w # v /\ ViewAt(w, "redeem") /\ view'[w] = view[w]
    BY <1>1 DEF ViewAt
  <2> QED BY <2>1, Zenon DEF DoorInv, TicketsOnce
<1> QED BY <1>2, <1>3, <1>4 DEF DoorInv

\* Another request leaves what the caches keep as it is.
LEMMA CachesStay ==
  ASSUME DoorInv, UNCHANGED <<device, past, settled>>, late \subseteq late'
  PROVE  /\ near' = near => NearKept'
         /\ far' = far => FarKept'
         /\ near' = None => NearKept'
         /\ far' = None => FarKept'
BY DEF DoorInv, NearKept, FarKept, Age

\* What is known of a request that moves.
LEMMA HandStays ==
  ASSUME NEW e, InHand(e), UNCHANGED <<device, past>>, late \subseteq late'
  PROVE  InHand(e)'
BY DEF InHand, Age

\* The state is asked for.
LEMMA AskStateKeeps == ASSUME DoorInv, NEW v \in Viewers, AskState(v) PROVE DoorInv'
<1>1. PICK e : e = [NoView EXCEPT !.floor = settled, !.pc = IF far = None THEN "near" ELSE "shown",
                                  !.ver = IF far = None THEN None ELSE far.ver]
  OBVIOUS
<1>2. /\ view' = [view EXCEPT ![v] = e] /\ UNCHANGED <<device, past, near, far, settled, switch, pass, late>>
  BY <1>1 DEF AskState
<1>3. e = [pc |-> IF far = None THEN "near" ELSE "shown", ver |-> IF far = None THEN None ELSE far.ver,
           floor |-> settled, wait |-> 0, ticket |-> None]
  BY <1>1 DEF NoView
<1>4. settled \in Nat /\ settled <= device /\ device \in Nat BY DEF DoorInv, DoorTyped
<1>5. e \in OwnerViews BY <1>3, <1>4 DEF OwnerViews, DoorInv, FarKept, Entries
<1>6. InHand(e)
  <2>1. CASE far = None BY <2>1, <1>3, <1>4, DoorTimes DEF InHand
  <2>2. CASE far # None
    <3>1. FarKept BY DEF DoorInv
    <3>2. Age(far.ver) \in Nat BY <3>1, <2>2, AgeNat DEF DoorInv, FarKept, Entries
    <3> QED BY <3>1, <3>2, <2>2, <1>3, <1>4, DoorTimes DEF InHand, FarKept, Entries, MaxPast
  <2> QED BY <2>1, <2>2
<1>7. InHand(e)' BY <1>2, <1>6, HandStays
<1>8. NearKept' /\ FarKept' BY <1>2, CachesStay
<1>9. e.pc # "redeem" BY <1>3
<1> QED BY <1>2, <1>5, <1>7, <1>8, <1>9, OwnerMoves

\* gns3-service answers with its snapshot.
LEMMA ReadSnapshotKeeps == ASSUME DoorInv, NEW v \in Viewers, ReadSnapshot(v) PROVE DoorInv'
<1>1. PICK e : e = [view[v] EXCEPT !.pc = "keep", !.ver = near.ver] OBVIOUS
<1>2. /\ view' = [view EXCEPT ![v] = e] /\ UNCHANGED <<device, past, near, far, settled, switch, pass, late>>
      /\ view[v].pc = "near" /\ near # None
  BY <1>1 DEF ReadSnapshot, ViewAt
<1>3. /\ view[v] \in OwnerViews /\ InHand(view[v]) /\ DoorTyped /\ near \in Entries /\ near.ver <= device
      /\ near.age < NearTtl /\ Age(near.ver) <= MaxWait + near.age
  BY <1>2 DEF DoorInv, DoorTyped, AllInHand, NearKept
<1>4. e \in OwnerViews BY <1>1, <1>3 DEF OwnerViews, Entries
<1>5. e.pc = "keep" /\ e.ver = near.ver /\ e.floor = view[v].floor /\ e.wait = view[v].wait
  BY <1>1, <1>3 DEF OwnerViews
<1>6. Age(near.ver) \in Nat /\ near.age \in Nat /\ near.ver \in Nat /\ view[v].wait \in Nat
  BY <1>3, AgeNat DEF Entries, OwnerViews
<1>7. InHand(e) BY <1>2, <1>3, <1>5, <1>6, DoorTimes DEF InHand
<1>8. InHand(e)' BY <1>2, <1>7, HandStays
<1>9. NearKept' /\ FarKept' BY <1>2, CachesStay
<1> QED BY <1>2, <1>4, <1>5, <1>8, <1>9, OwnerMoves

\* The nodes and links are read as GNS3 has them.
LEMMA FetchStateKeeps == ASSUME DoorInv, NEW v \in Viewers, FetchState(v) PROVE DoorInv'
<1>1. PICK e : e = [view[v] EXCEPT !.pc = "fetched", !.ver = device] OBVIOUS
<1>2. /\ view' = [view EXCEPT ![v] = e] /\ UNCHANGED <<device, past, near, far, settled, switch, pass, late>>
      /\ view[v].pc = "near"
  BY <1>1 DEF FetchState, ViewAt
<1>3. view[v] \in OwnerViews /\ InHand(view[v]) /\ device \in Nat
  BY DEF DoorInv, DoorTyped, AllInHand
<1>4. e \in OwnerViews BY <1>1, <1>3 DEF OwnerViews
<1>5. e.pc = "fetched" /\ e.ver = device /\ e.floor = view[v].floor /\ e.wait = view[v].wait
  BY <1>1, <1>3 DEF OwnerViews
<1>6. InHand(e) BY <1>2, <1>3, <1>5, DoorTimes DEF InHand, Age, OwnerViews
<1>8. InHand(e)' BY <1>2, <1>6, HandStays
<1>9. NearKept' /\ FarKept' BY <1>2, CachesStay
<1> QED BY <1>2, <1>4, <1>5, <1>8, <1>9, OwnerMoves

\* What was read becomes gns3-service's snapshot.
LEMMA SetSnapshotKeeps == ASSUME DoorInv, NEW v \in Viewers, SetSnapshot(v) PROVE DoorInv'
<1>1. PICK e : e = [view[v] EXCEPT !.pc = "keep"] OBVIOUS
<1>2. /\ view' = [view EXCEPT ![v] = e] /\ UNCHANGED <<device, past, far, settled, switch, pass>>
      /\ view[v].pc = "fetched" /\ near' = [ver |-> view[v].ver, age |-> 0] /\ late \subseteq late'
  BY <1>1 DEF SetSnapshot, ViewAt, Entry
<1>3. view[v] \in OwnerViews /\ InHand(view[v]) /\ DoorTyped
  BY DEF DoorInv, DoorTyped, AllInHand
<1>4. e \in OwnerViews BY <1>1, <1>3 DEF OwnerViews
<1>5. e.pc = "keep" /\ e.ver = view[v].ver /\ e.floor = view[v].floor /\ e.wait = view[v].wait
  BY <1>1, <1>3 DEF OwnerViews
<1>6. view[v].ver \in Nat /\ view[v].wait \in Nat /\ Age(view[v].ver) \in Nat
  BY <1>2, <1>3, AgeNat DEF InHand, OwnerViews
<1>7. InHand(e) BY <1>2, <1>3, <1>5, <1>6, DoorTimes DEF InHand
<1>8. InHand(e)' BY <1>2, <1>7, HandStays
<1>9. FarKept' BY <1>2, CachesStay
<1>10. NearKept'
  <2>1. Age(view[v].ver) <= MaxWait BY <1>2, <1>3, <1>6, DoorTimes DEF InHand
  <2>2. near'.ver = view[v].ver /\ near'.age = 0 /\ near' \in Entries BY <1>2, <1>6 DEF Entries
  <2>3. view[v].ver <= device BY <1>2, <1>3 DEF InHand
  <2>4. UNCHANGED <<device, past>> BY <1>2
  <2> QED BY ONLY <2>1, <2>2, <2>3, <2>4, <1>6, DoorTimes DEF NearKept, Age
<1> QED BY <1>2, <1>4, <1>5, <1>8, <1>9, <1>10, OwnerMoves

\* The backend keeps the answer and gives it to the owner.
LEMMA KeepStateKeeps == ASSUME DoorInv, NEW v \in Viewers, KeepState(v) PROVE DoorInv'
<1>1. PICK e : e = [NoView EXCEPT !.pc = "shown", !.ver = view[v].ver, !.floor = view[v].floor] OBVIOUS
<1>2. /\ view' = [view EXCEPT ![v] = e] /\ UNCHANGED <<device, past, near, settled, switch, pass>>
      /\ view[v].pc = "keep" /\ far' = [ver |-> view[v].ver, age |-> 0]
      /\ late' = late \cup (IF view[v].ver < device THEN {view[v].ver} ELSE {})
  BY <1>1 DEF KeepState, ViewAt, Entry, Shows, Stale
<1>3. view[v] \in OwnerViews /\ InHand(view[v]) /\ DoorTyped
  BY DEF DoorInv, DoorTyped, AllInHand
<1>4. e = [pc |-> "shown", ver |-> view[v].ver, floor |-> view[v].floor, wait |-> 0, ticket |-> None]
  BY <1>1 DEF NoView
<1>5. e \in OwnerViews BY <1>3, <1>4 DEF OwnerViews
<1>6. /\ view[v].ver \in Nat /\ view[v].wait \in Nat /\ Age(view[v].ver) \in Nat /\ view[v].ver <= device
      /\ view[v].floor \in Nat /\ view[v].floor <= device /\ device \in Nat /\ settled \in Nat /\ settled <= device
  BY <1>2, <1>3, AgeNat DEF InHand, OwnerViews, DoorTyped
<1>7. Age(view[v].ver) <= 2 * MaxWait + NearTtl - 1 BY <1>2, <1>3, <1>6, DoorTimes DEF InHand
<1>8. InHand(e)'
  <2>1. Age(e.ver) <= MaxPast BY <1>4, <1>6, <1>7, DoorTimes DEF MaxPast
  <2>2. e.ver < e.floor => e.ver \in late' BY <1>2, <1>4, <1>6
  <2>3. UNCHANGED <<device, past>> BY <1>2
  <2>4. e.pc = "shown" /\ e.ver \in Nat /\ e.ver <= device /\ e.floor \in Nat /\ e.floor <= device
    BY <1>4, <1>6
  <2> QED BY ONLY <2>1, <2>2, <2>3, <2>4 DEF InHand, Age
<1>9. NearKept' BY <1>2, CachesStay
<1>10. FarKept'
  <2>2. far'.ver = view[v].ver /\ far'.age = 0 /\ far' \in Entries BY <1>2, <1>6 DEF Entries
  <2>3. UNCHANGED <<device, past, settled>> BY <1>2
  <2>4. view[v].ver < settled => view[v].ver \in late' BY <1>2, <1>6
  <2> QED BY ONLY <2>2, <2>3, <2>4, <1>6, <1>7, DoorTimes DEF FarKept, Age
<1>11. late \subseteq late' /\ e.pc # "redeem" BY <1>2, <1>4
<1> QED BY <1>2, <1>5, <1>8, <1>9, <1>10, <1>11, OwnerMoves

\* An answer that fails leaves the request at rest.
LEMMA FailsKeeps ==
  ASSUME DoorInv, NEW v \in Viewers, StateFails(v) \/ HandFails(v)
  PROVE  DoorInv'
<1>1. PICK e : e = NoView OBVIOUS
<1>2. /\ view' = [view EXCEPT ![v] = e]
      /\ UNCHANGED <<device, past, near, far, settled, switch, pass, late>>
  BY <1>1 DEF StateFails, HandFails
<1>3. e \in OwnerViews /\ e.pc # "redeem" /\ InHand(e) BY <1>1, NoViewTyped
<1>4. InHand(e)' BY <1>2, <1>3, HandStays
<1>5. NearKept' /\ FarKept' BY <1>2, CachesStay
<1> QED BY <1>2, <1>3, <1>4, <1>5, OwnerMoves

\* The devices change: what was theirs is past from now on, and nothing is older for it.
LEMMA NextVersionKeeps ==
  ASSUME DoorInv, NextVersion, UNCHANGED <<near, far, view, settled, late, pass>>,
         switch' = switch \/ switch' = [pc |-> "near", ver |-> device + 1]
  PROVE  DoorInv'
<1>1. device \in Nat /\ past \in Seq(Nat) /\ Len(past) = device BY DEF DoorInv, DoorTyped
<1>2. device' = device + 1 /\ past' = Append(past, 0) BY DEF NextVersion
<1>3. /\ past' \in Seq(Nat) /\ Len(past') = device'
      /\ \A n \in 1 .. device : past'[n] = past[n]
      /\ past'[device + 1] = 0
  BY <1>1, <1>2
<1>4. DoorTyped' BY <1>1, <1>2, <1>3 DEF DoorInv, DoorTyped
<1>5. ASSUME NEW ver \in Nat, ver <= device PROVE Age(ver)' = Age(ver)
  <2>1. CASE ver < device
    <3>1. ver + 1 \in 1 .. device /\ ver < device + 1 BY <2>1, <1>1
    <3> QED BY <3>1, <2>1, <1>2, <1>3 DEF Age
  <2>2. CASE ver = device BY <2>2, <1>1, <1>2, <1>3 DEF Age
  <2> QED BY <2>1, <2>2, <1>5, <1>1
<1>6. NearKept'
  <2>1. SUFFICES ASSUME near # None PROVE near \in Entries /\ near.ver <= device' /\ near.age < NearTtl
                                         /\ Age(near.ver)' <= MaxWait + near.age
    BY DEF NearKept
  <2>2. near \in Entries /\ near.ver <= device /\ near.age < NearTtl /\ Age(near.ver) <= MaxWait + near.age
    BY <2>1 DEF DoorInv, NearKept
  <2>3. near.ver \in Nat BY <2>2 DEF Entries
  <2>4. Age(near.ver)' = Age(near.ver) BY <2>2, <2>3, <1>5
  <2> QED BY <2>2, <2>3, <2>4, <1>1, <1>2
<1>7. FarKept'
  <2>1. SUFFICES ASSUME far # None PROVE /\ far \in Entries /\ far.ver <= device' /\ far.age < FarTtl
                                         /\ Age(far.ver)' <= 2 * MaxWait + NearTtl - 1 + far.age
                                         /\ far.ver < settled => far.ver \in late
    BY DEF FarKept
  <2>2. /\ far \in Entries /\ far.ver <= device /\ far.age < FarTtl
        /\ Age(far.ver) <= 2 * MaxWait + NearTtl - 1 + far.age
        /\ far.ver < settled => far.ver \in late
    BY <2>1 DEF DoorInv, FarKept
  <2>3. far.ver \in Nat BY <2>2 DEF Entries
  <2>4. Age(far.ver)' = Age(far.ver) BY <2>2, <2>3, <1>5
  <2> QED BY <2>2, <2>3, <2>4, <1>1, <1>2
<1>8. AllInHand'
  <2>1. SUFFICES ASSUME NEW v \in Viewers, NEW e, e = view[v] PROVE InHand(e)' BY DEF AllInHand
  <2>2. InHand(e) BY <2>1 DEF DoorInv, AllInHand
  <2>3. e.ver \in Nat /\ e.ver <= device => Age(e.ver)' = Age(e.ver) BY <1>5
  <2> QED BY <2>2, <2>3, <1>1, <1>2 DEF InHand
<1>9. TicketsOnce' BY Zenon DEF DoorInv, TicketsOnce, ViewAt
<1> QED BY <1>4, <1>6, <1>7, <1>8, <1>9 DEF DoorInv

\* Steps that touch neither the devices nor a request nor a ticket.
LEMMA CachesMove ==
  ASSUME DoorInv, UNCHANGED <<device, past, view, pass, late>>,
         near' = near \/ near' = None,
         (far' = None /\ settled' \in Nat /\ settled' <= device) \/ UNCHANGED <<far, settled>>,
         switch' = None \/ switch' = switch
           \/ (switch' \in [pc : {"near", "far"}, ver : Nat] /\ switch'.ver <= device)
  PROVE  DoorInv'
<1>1. DoorTyped' BY DEF DoorInv, DoorTyped
<1>2. NearKept' BY DEF DoorInv, NearKept, Age
<1>3. FarKept' BY DEF DoorInv, FarKept, Age
<1>4. AllInHand' BY DEF DoorInv, AllInHand, InHand, Age
<1>5. TicketsOnce' BY Zenon DEF DoorInv, TicketsOnce, ViewAt
<1> QED BY <1>1, <1>2, <1>3, <1>4, <1>5 DEF DoorInv

\* A node action drops both caches' entries before it answers; sessions end and vanish.
LEMMA SwitchKeeps ==
  ASSUME DoorInv, DropSnapshot \/ AnswerAction \/ ActionFails \/ CloseLab \/ LoseLab \/ EraseRow
  PROVE  DoorInv'
<1>1. /\ switch # None => switch \in [pc : {"near", "far"}, ver : Nat] /\ switch.ver <= device
      /\ switch # None => switch.ver \in Nat
  BY DEF DoorInv, DoorTyped
<1>2. CASE DropSnapshot
  <2>1. switch # None /\ near' = None /\ switch' = [switch EXCEPT !.pc = "far"]
        /\ UNCHANGED <<device, past, far, view, settled, late, pass>>
    BY <1>2 DEF DropSnapshot
  <2>2. switch' \in [pc : {"near", "far"}, ver : Nat] /\ switch'.ver <= device BY <1>1, <2>1
  <2> QED BY <2>1, <2>2, CachesMove
<1>3. CASE AnswerAction BY <1>3, <1>1, CachesMove DEF AnswerAction, DropEntry
<1>4. CASE ActionFails BY <1>4, CachesMove DEF ActionFails
<1>5. CASE CloseLab BY <1>5, CachesMove DEF CloseLab
<1>6. CASE LoseLab BY <1>6, CachesMove DEF LoseLab
<1>7. CASE EraseRow BY <1>7, CachesMove DEF EraseRow
<1> QED BY <1>2, <1>3, <1>4, <1>5, <1>6, <1>7

\* What is left alone when only tickets and those who redeem them move.
LEMMA StateStays ==
  ASSUME DoorInv, UNCHANGED <<device, past, near, far, settled, switch, late>>,
         view' \in [Viewers -> OwnerViews], \A v \in Viewers : view'[v] = view[v] \/ InHand(view'[v]),
         TicketsOnce'
  PROVE  DoorInv'
<1>1. DoorTyped' BY DEF DoorInv, DoorTyped
<1>2. NearKept' /\ FarKept' BY CachesStay
<1>3. AllInHand'
  <2>1. SUFFICES ASSUME NEW v \in Viewers, NEW e, e = view'[v] PROVE InHand(e)' BY DEF AllInHand
  <2>2. InHand(e) BY <2>1 DEF DoorInv, AllInHand
  <2> QED BY <2>2, HandStays
<1> QED BY <1>1, <1>2, <1>3 DEF DoorInv

\* A ticket is issued, once.
LEMMA IssueTicketKeeps == ASSUME DoorInv, NEW t \in Tickets, IssueTicket(t) PROVE DoorInv'
<1>1. PICK p : p = [pass[t] EXCEPT !.issued = TRUE, !.held = TRUE] OBVIOUS
<1>2. /\ pass' = [pass EXCEPT ![t] = p] /\ ~pass[t].issued
      /\ UNCHANGED <<device, past, near, far, view, switch, settled, late>>
  BY <1>1 DEF IssueTicket, DoorInv, TicketsOnce
<1>3. pass \in [Tickets -> Passes] /\ TicketOnce(pass[t]) BY DEF DoorInv, TicketsOnce
<1>4. p \in Passes BY <1>1, <1>3, Zenon DEF Passes
<1>5. p.issued = TRUE /\ p.held = TRUE /\ p.handed = pass[t].handed BY <1>1, <1>3 DEF Passes
<1>6. pass[t].handed = 0 BY <1>2, <1>3 DEF TicketOnce
<1>7. pass' \in [Tickets -> Passes] /\ pass'[t] = p /\ \A u \in Tickets : u # t => pass'[u] = pass[u]
  BY <1>2, <1>3, <1>4, Zenon
<1>8. TicketOnce(p) BY <1>5, <1>6 DEF TicketOnce
<1>9. TicketsOnce'
  <2>1. \A u \in Tickets : TicketOnce(pass[u])' BY <1>7, <1>8 DEF DoorInv, TicketsOnce, TicketOnce
  <2>2. \A v \in Viewers : ViewAt(v, "redeem") => view[v].ticket # t BY <1>2, Zenon DEF DoorInv, TicketsOnce
  <2> QED BY <2>1, <2>2, <1>2, <1>7, Zenon DEF DoorInv, TicketsOnce, ViewAt
<1> QED BY <1>2, <1>9, StateStays DEF DoorInv, DoorTyped

\* A ticket is taken out as it is read, by one request.
LEMMA RedeemTicketKeeps ==
  ASSUME DoorInv, NEW v \in Viewers, NEW t \in Tickets, RedeemTicket(v, t)
  PROVE  DoorInv'
<1>1. PICK p : p = [pass[t] EXCEPT !.held = FALSE] OBVIOUS
<1>2. PICK e : e = [NoView EXCEPT !.pc = "redeem", !.ticket = t] OBVIOUS
<1>3. /\ pass' = [pass EXCEPT ![t] = p] /\ view' = [view EXCEPT ![v] = e] /\ pass[t].held
      /\ UNCHANGED <<device, past, near, far, switch, settled, late>>
  BY <1>1, <1>2 DEF RedeemTicket, TakenOut, DoorInv, TicketsOnce
<1>4. /\ pass \in [Tickets -> Passes] /\ TicketOnce(pass[t]) /\ view \in [Viewers -> OwnerViews]
  BY DEF DoorInv, DoorTyped, TicketsOnce
<1>5. p \in Passes BY <1>1, <1>4, Zenon DEF Passes
<1>6. p.held = FALSE /\ p.issued = pass[t].issued /\ p.handed = pass[t].handed BY <1>1, <1>4 DEF Passes
<1>7. pass[t].handed = 0 /\ pass[t].issued BY <1>3, <1>4 DEF TicketOnce
<1>8. e = [pc |-> "redeem", ver |-> None, floor |-> None, wait |-> 0, ticket |-> t] BY <1>2 DEF NoView
<1>9. e \in OwnerViews /\ InHand(e) /\ e.pc = "redeem" /\ e.ticket = t BY <1>8, DoorTimes DEF OwnerViews, InHand
<1>10. pass' \in [Tickets -> Passes] /\ pass'[t] = p /\ \A u \in Tickets : u # t => pass'[u] = pass[u]
  BY <1>3, <1>4, <1>5, Zenon
<1>11. view' \in [Viewers -> OwnerViews] /\ view'[v] = e /\ \A w \in Viewers : w # v => view'[w] = view[w]
  BY <1>3, <1>4, <1>9, Zenon
<1>12. TicketOnce(p) BY <1>6, <1>7 DEF TicketOnce
<1>13. TicketsOnce'
  <2>1. \A u \in Tickets : TicketOnce(pass[u])' BY <1>10, <1>12 DEF DoorInv, TicketsOnce, TicketOnce
  <2>2. \A w \in Viewers : ViewAt(w, "redeem") => view[w].ticket # t BY <1>3, Zenon DEF DoorInv, TicketsOnce
  <2>3. ASSUME NEW w \in Viewers, ViewAt(w, "redeem")'
        PROVE  /\ view'[w].ticket \in Tickets /\ pass'[view'[w].ticket].issued
               /\ ~pass'[view'[w].ticket].held /\ pass'[view'[w].ticket].handed = 0
               /\ \A u \in Viewers : ViewAt(u, "redeem")' /\ view'[u].ticket = view'[w].ticket => u = w
    <3>1. CASE w = v
      <4>1. view'[w] = e /\ pass'[e.ticket] = p /\ e.ticket = t BY <3>1, <1>9, <1>10, <1>11
      <4>2. \A u \in Viewers : ViewAt(u, "redeem")' /\ view'[u].ticket = t => u = v
        BY <1>11, <2>2, Zenon DEF ViewAt
      <4> QED BY <4>1, <4>2, <3>1, <1>6, <1>7, Zenon
    <3>2. CASE w # v
      <4>1. view'[w] = view[w] /\ ViewAt(w, "redeem") BY <3>2, <1>11, <2>3 DEF ViewAt
      <4>2. view[w].ticket # t BY <4>1, <2>2
      <4>3. view[w].ticket \in Tickets BY <4>1 DEF DoorInv, TicketsOnce
      <4>4. pass'[view[w].ticket] = pass[view[w].ticket] BY <4>2, <4>3, <1>10
      <4>5. \A u \in Viewers : ViewAt(u, "redeem")' /\ view'[u].ticket = view[w].ticket => u = w
        <5>1. SUFFICES ASSUME NEW u \in Viewers, ViewAt(u, "redeem")', view'[u].ticket = view[w].ticket PROVE u = w
          OBVIOUS
        <5>2. u # v BY <5>1, <4>2, <1>9, <1>11, Zenon
        <5>3. view'[u] = view[u] BY <5>2, <1>11
        <5>4. ViewAt(u, "redeem") /\ view[u].ticket = view[w].ticket BY <5>1, <5>3, Zenon DEF ViewAt
        <5> QED BY <5>4, <4>1, Zenon DEF DoorInv, TicketsOnce
      <4> QED BY <4>1, <4>3, <4>4, <4>5, Zenon DEF DoorInv, TicketsOnce
    <3> QED BY <3>1, <3>2
  <2> QED BY <1>10, <2>1, <2>3, Zenon DEF TicketsOnce
<1>14. \A w \in Viewers : view'[w] = view[w] \/ InHand(view'[w]) BY <1>9, <1>11, Zenon
<1> QED BY <1>3, <1>11, <1>13, <1>14, StateStays

\* Gns3-service signs in, and the token is handed out: the ticket is spent.
LEMMA HandTokenKeeps == ASSUME DoorInv, NEW v \in Viewers, HandToken(v) PROVE DoorInv'
<1>1. PICK t : t = view[v].ticket OBVIOUS
<1>2. PICK p : p = [pass[t] EXCEPT !.handed = IF owned # "erased" /\ labRow = "active" THEN @ + 1 ELSE @]
  OBVIOUS
<1>3. PICK e : e = NoView OBVIOUS
<1>4. /\ t \in Tickets /\ pass[t].issued /\ ~pass[t].held /\ pass[t].handed = 0 /\ ViewAt(v, "redeem")
      /\ \A w \in Viewers : ViewAt(w, "redeem") /\ view[w].ticket = t => w = v
  BY <1>1, Zenon DEF HandToken, DoorInv, TicketsOnce
<1>5. /\ pass' = [pass EXCEPT ![t] = p] /\ view' = [view EXCEPT ![v] = e]
      /\ UNCHANGED <<device, past, near, far, switch, settled, late>>
  <2>1. /\ pass' = [pass EXCEPT ![t].handed = IF owned # "erased" /\ labRow = "active" THEN @ + 1 ELSE @]
        /\ view' = [view EXCEPT ![v] = NoView] /\ UNCHANGED <<device, past, near, far, switch, settled, late>>
    BY <1>1 DEF HandToken
  <2> QED BY <2>1, <1>2, <1>3, Zenon
<1>6. pass \in [Tickets -> Passes] /\ pass[t] \in Passes /\ view \in [Viewers -> OwnerViews]
  BY <1>4 DEF DoorInv, DoorTyped, TicketsOnce
<1>7. PICK n : n = IF owned # "erased" /\ labRow = "active" THEN pass[t].handed + 1 ELSE pass[t].handed
  OBVIOUS
<1>8. n \in Nat /\ n <= 1 BY <1>4, <1>7
<1>9. p = [pass[t] EXCEPT !.handed = n] BY <1>2, <1>7, Zenon
<1>10. p \in Passes BY <1>6, <1>8, <1>9, Zenon DEF Passes
<1>11. p.held = pass[t].held /\ p.issued = pass[t].issued /\ p.handed = n BY <1>6, <1>9 DEF Passes
<1>12. TicketOnce(p) BY <1>4, <1>8, <1>11, Zenon DEF TicketOnce
<1>13. pass' \in [Tickets -> Passes] /\ pass'[t] = p /\ \A u \in Tickets : u # t => pass'[u] = pass[u]
  BY <1>4, <1>5, <1>6, <1>10, Zenon
<1>14. e \in OwnerViews /\ e.pc = "idle" /\ InHand(e) BY <1>3, NoViewTyped
<1>15. view' \in [Viewers -> OwnerViews] /\ view'[v] = e /\ \A w \in Viewers : w # v => view'[w] = view[w]
  BY <1>5, <1>6, <1>14, Zenon
<1>16. TicketsOnce'
  <2>1. \A u \in Tickets : TicketOnce(pass[u])' BY <1>12, <1>13, Zenon DEF DoorInv, TicketsOnce, TicketOnce
  <2>2. \A w \in Viewers : ViewAt(w, "redeem")' => w # v /\ ViewAt(w, "redeem") /\ view'[w] = view[w]
    BY <1>14, <1>15 DEF ViewAt
  <2>3. \A w \in Viewers : w # v /\ ViewAt(w, "redeem") => view[w].ticket # t BY <1>4, Zenon
  <2>4. ASSUME NEW w \in Viewers, ViewAt(w, "redeem")'
        PROVE  /\ view'[w].ticket \in Tickets /\ pass'[view'[w].ticket].issued
               /\ ~pass'[view'[w].ticket].held /\ pass'[view'[w].ticket].handed = 0
               /\ \A u \in Viewers : ViewAt(u, "redeem")' /\ view'[u].ticket = view'[w].ticket => u = w
    <3>1. w # v /\ ViewAt(w, "redeem") /\ view'[w] = view[w] BY <2>2, <2>4, Zenon
    <3>2. view[w].ticket \in Tickets /\ view[w].ticket # t BY <3>1, <2>3, Zenon DEF DoorInv, TicketsOnce
    <3>3. pass'[view[w].ticket] = pass[view[w].ticket] BY <3>2, <1>13, Zenon
    <3> QED BY <3>1, <3>2, <3>3, <2>2, Zenon DEF DoorInv, TicketsOnce
  <2> QED BY <1>13, <2>1, <2>4, Zenon DEF TicketsOnce
<1>17. \A w \in Viewers : view'[w] = view[w] \/ InHand(view'[w]) BY <1>14, <1>15, Zenon
<1> QED BY <1>5, <1>15, <1>16, <1>17, StateStays

\* The lesser of two numbers is one of them.
LEMMA LesserOf == ASSUME NEW a \in Nat, NEW b \in Nat PROVE Min({a, b}) \in Nat /\ Min({a, b}) <= a
<1>1. \E x \in {a, b} : \A y \in {a, b} : x <= y BY SMT
<1> DEFINE m == CHOOSE x \in {a, b} : \A y \in {a, b} : x <= y
<1>2. m \in {a, b} /\ \A y \in {a, b} : m <= y BY <1>1, Zenon
<1>3. Min({a, b}) = m BY Zenon DEF Min
<1> HIDE DEF m
<1> QED BY <1>2, <1>3

\* A second passes: everything that is past ages by one at most, and so does all that shows it.
LEMMA SecondKeeps == ASSUME DoorInv, Second PROVE DoorInv'
<1> DEFINE Waits == {"near", "fetched", "keep", "redeem"}
<1>1. /\ device \in Nat /\ past \in Seq(Nat) /\ Len(past) = device /\ view \in [Viewers -> OwnerViews]
      /\ UNCHANGED <<device, settled, switch, late>>
  BY DEF DoorInv, DoorTyped, Second
<1>2. MaxPast \in Nat BY DoorTimes DEF MaxPast
<1>3. past' = [n \in DOMAIN past |-> Min({past[n] + 1, MaxPast + 1})] BY DEF Second
<1>4. \A n \in 1 .. device : past[n] \in Nat /\ past'[n] \in Nat /\ past'[n] <= past[n] + 1
  <2>1. SUFFICES ASSUME NEW n \in 1 .. device
                 PROVE  past[n] \in Nat /\ past'[n] \in Nat /\ past'[n] <= past[n] + 1
    OBVIOUS
  <2>2. n \in DOMAIN past /\ past[n] \in Nat BY <1>1
  <2>3. past'[n] = Min({past[n] + 1, MaxPast + 1}) BY <1>3, <2>2
  <2>4. past[n] + 1 \in Nat /\ MaxPast + 1 \in Nat BY <2>2, <1>2
  <2> QED BY <2>2, <2>3, <2>4, LesserOf
<1>5. past' \in Seq(Nat) /\ Len(past') = device
  <2>1. DOMAIN past' = 1 .. device BY <1>1, <1>3
  <2>2. past' \in [1 .. device -> Nat]
    <3>1. past' = [n \in 1 .. device |-> past'[n]] BY <1>3, <2>1
    <3> QED BY <3>1, <1>4
  <2> QED BY <2>2, <1>1
<1>6. ASSUME NEW ver \in Nat PROVE Age(ver)' \in Nat /\ Age(ver) \in Nat /\ Age(ver)' <= Age(ver) + 1
  <2>1. CASE ver < device
    <3>1. ver + 1 \in 1 .. device BY <2>1, <1>1
    <3> QED BY <3>1, <2>1, <1>1, <1>4 DEF Age
  <2>2. CASE ~(ver < device) BY <2>2, <1>1 DEF Age
  <2> QED BY <2>1, <2>2
<1>7. \A v \in Viewers : \/ view[v].pc \in Waits /\ view[v].wait < MaxWait
                            /\ view'[v] = [view[v] EXCEPT !.wait = view[v].wait + 1]
                         \/ view[v].pc \notin Waits /\ view'[v] = NoView
  BY Zenon DEF Second
<1>8. \A v \in Viewers : view[v].pc \in Waits => view'[v].pc = view[v].pc /\ view'[v].ticket = view[v].ticket
                            /\ view'[v].ver = view[v].ver /\ view'[v].floor = view[v].floor
                            /\ view'[v].wait = view[v].wait + 1 /\ view'[v] \in OwnerViews
  <2>1. SUFFICES ASSUME NEW v \in Viewers, view[v].pc \in Waits
                 PROVE  view'[v].pc = view[v].pc /\ view'[v].ticket = view[v].ticket
                        /\ view'[v].ver = view[v].ver /\ view'[v].floor = view[v].floor
                        /\ view'[v].wait = view[v].wait + 1 /\ view'[v] \in OwnerViews
    BY Zenon
  <2>2. view[v] \in OwnerViews BY <1>1
  <2>3. view'[v] = [view[v] EXCEPT !.wait = view[v].wait + 1] BY <1>7, <2>1, Zenon
  <2> QED BY <2>2, <2>3 DEF OwnerViews
<1>9. DoorTyped'
  <2>1. \A v \in Viewers : view'[v] \in OwnerViews BY <1>7, <1>8, NoViewTyped, Zenon
  <2>2. view' = [v \in Viewers |-> view'[v]] BY Zenon DEF Second
  <2>3. view' \in [Viewers -> OwnerViews] BY <2>1, <2>2, Zenon
  <2> QED BY <2>3, <1>1, <1>5 DEF DoorInv, DoorTyped
<1>10. NearKept'
  <2>1. SUFFICES ASSUME near' # None PROVE /\ near' \in Entries /\ near'.ver <= device' /\ near'.age < NearTtl
                                           /\ Age(near.ver)' <= MaxWait + near'.age
    BY DEF NearKept
  <2>2. near # None /\ near.age + 1 < NearTtl /\ near' = [near EXCEPT !.age = near.age + 1]
    BY <2>1, Zenon DEF Second
  <2>3. near \in Entries /\ near.ver <= device /\ Age(near.ver) <= MaxWait + near.age
    BY <2>2 DEF DoorInv, NearKept
  <2>4. near.ver \in Nat /\ near.age \in Nat BY <2>3 DEF Entries
  <2>5. near' \in Entries /\ near'.ver = near.ver /\ near'.age = near.age + 1 BY <2>2, <2>3 DEF Entries
  <2> QED BY <2>2, <2>3, <2>4, <2>5, <1>1, <1>6, DoorTimes
<1>11. FarKept'
  <2>1. SUFFICES ASSUME far' # None PROVE /\ far' \in Entries /\ far'.ver <= device' /\ far'.age < FarTtl
                                          /\ Age(far.ver)' <= 2 * MaxWait + NearTtl - 1 + far'.age
                                          /\ far'.ver < settled' => far'.ver \in late'
    BY DEF FarKept
  <2>2. far # None /\ far.age + 1 < FarTtl /\ far' = [far EXCEPT !.age = far.age + 1]
    BY <2>1, Zenon DEF Second
  <2>3. /\ far \in Entries /\ far.ver <= device /\ Age(far.ver) <= 2 * MaxWait + NearTtl - 1 + far.age
        /\ far.ver < settled => far.ver \in late
    BY <2>2 DEF DoorInv, FarKept
  <2>4. far.ver \in Nat /\ far.age \in Nat BY <2>3 DEF Entries
  <2>5. far' \in Entries /\ far'.ver = far.ver /\ far'.age = far.age + 1 BY <2>2, <2>3 DEF Entries
  <2> QED BY <2>2, <2>3, <2>4, <2>5, <1>1, <1>6, DoorTimes
<1>12. AllInHand'
  <2>1. SUFFICES ASSUME NEW v \in Viewers PROVE InHand(view[v])' BY DEF AllInHand
  <2>2. CASE view[v].pc \notin Waits BY <2>2, <1>7, NoViewTyped DEF InHand
  <2>3. CASE view[v].pc \in Waits
    <3>1. PICK e : e = view'[v] OBVIOUS
    <3>2. view[v] \in OwnerViews /\ InHand(view[v]) BY <1>1 DEF DoorInv, AllInHand
    <3>3. /\ e.pc = view[v].pc /\ e.ver = view[v].ver /\ e.floor = view[v].floor /\ e.wait = view[v].wait + 1
          /\ view[v].wait < MaxWait
      BY <3>1, <2>3, <1>7, <1>8, Zenon
    <3>4. view[v].wait \in Nat BY <3>2 DEF OwnerViews
    <3>5. e.ver \in Nat => Age(e.ver)' \in Nat /\ Age(e.ver) \in Nat /\ Age(e.ver)' <= Age(e.ver) + 1 BY <1>6
    <3>6. e.pc \in Waits BY <3>3, <2>3
    <3>7. InHand(e)' BY <3>2, <3>3, <3>4, <3>5, <3>6, <1>1, DoorTimes DEF InHand
    <3> QED BY <3>1, <3>7
  <2> QED BY <2>2, <2>3
<1>13. TicketsOnce'
  <2>1. pass \in [Tickets -> Passes] BY DEF DoorInv, TicketsOnce
  <2>2. pass' = [t \in Tickets |-> IF ~pass[t].held THEN pass[t]
                   ELSE [pass[t] EXCEPT !.age = pass[t].age + 1, !.held = pass[t].age + 1 < TicketTtl]]
    BY Zenon DEF Second
  <2>3. ASSUME NEW t \in Tickets
        PROVE  /\ pass'[t] \in Passes /\ TicketOnce(pass'[t])
               /\ ~pass[t].held => pass'[t] = pass[t]
    <3>1. pass[t] \in Passes /\ TicketOnce(pass[t]) BY <2>1 DEF DoorInv, TicketsOnce
    <3>2. CASE ~pass[t].held BY <3>1, <3>2, <2>2, Zenon
    <3>3. CASE pass[t].held
      <4>1. PICK b \in BOOLEAN : pass'[t] = [pass[t] EXCEPT !.age = pass[t].age + 1, !.held = b]
        <5>1. pass'[t] = [pass[t] EXCEPT !.age = pass[t].age + 1, !.held = pass[t].age + 1 < TicketTtl]
          BY <3>3, <2>2, Zenon
        <5>2. (pass[t].age + 1 < TicketTtl) \in BOOLEAN BY <3>1, DoorTimes, SMT DEF Passes
        <5> QED BY <5>1, <5>2, Zenon
      <4>2. pass'[t] = [pass[t] EXCEPT !.age = pass[t].age + 1, !.held = b] BY <4>1
      <4>3. pass[t].age + 1 \in Nat BY <3>1 DEF Passes
      <4>4. pass'[t] \in Passes BY <4>1, <4>2, <4>3, <3>1, Zenon DEF Passes
      <4>5. pass'[t].issued = pass[t].issued /\ pass'[t].handed = pass[t].handed BY <4>2, <3>1 DEF Passes
      <4> QED BY <4>4, <4>5, <3>1, <3>3, SMT DEF TicketOnce
    <3> QED BY <3>2, <3>3
  <2>4. pass' \in [Tickets -> Passes]
    <3>1. pass' = [t \in Tickets |-> pass'[t]] BY <2>2, Zenon
    <3> QED BY <3>1, <2>3, Zenon
  <2>5. \A v \in Viewers : ViewAt(v, "redeem")' => ViewAt(v, "redeem") /\ view'[v].ticket = view[v].ticket
    <3>1. SUFFICES ASSUME NEW v \in Viewers, view'[v].pc = "redeem"
                   PROVE  view[v].pc = "redeem" /\ view'[v].ticket = view[v].ticket
      BY DEF ViewAt
    <3>2. view[v].pc \in Waits BY <3>1, <1>7, NoViewTyped
    <3> QED BY <3>1, <3>2, <1>8
  <2> QED BY <2>3, <2>4, <2>5, Zenon DEF DoorInv, TicketsOnce
<1> QED BY <1>9, <1>10, <1>11, <1>12, <1>13 DEF DoorInv

\* At the beginning nobody has asked and no ticket is out.
LEMMA DoorInitInv == DoorInit => DoorInv
<1> SUFFICES ASSUME DoorInit PROVE DoorInv OBVIOUS
<1>1. \A v \in Viewers : view[v] = NoView BY Zenon DEF DoorInit
<1>2. view \in [Viewers -> OwnerViews] BY NoViewTyped, Zenon DEF DoorInit
<1>3. DoorTyped /\ NearKept /\ FarKept BY <1>2 DEF DoorInit, DoorTyped, NearKept, FarKept
<1>4. AllInHand BY <1>1, NoViewTyped, Zenon DEF AllInHand
<1>5. TicketsOnce
  <2>1. \A t \in Tickets : pass[t] = [age |-> 0, held |-> FALSE, issued |-> FALSE, handed |-> 0]
    BY Zenon DEF DoorInit
  <2>2. pass \in [Tickets -> Passes] BY DEF DoorInit, Passes
  <2>3. \A t \in Tickets : TicketOnce(pass[t]) BY <2>1 DEF TicketOnce
  <2>4. \A v \in Viewers : ~ViewAt(v, "redeem") BY <1>1, NoViewTyped DEF ViewAt
  <2> QED BY <2>2, <2>3, <2>4, Zenon DEF TicketsOnce
<1> QED BY <1>3, <1>4, <1>5 DEF DoorInv

\* Every step keeps the invariant.
LEMMA DoorNextInv == DoorInv /\ [DoorNext]_doorVars => DoorInv'
<1> SUFFICES ASSUME DoorInv, [DoorNext]_doorVars PROVE DoorInv' OBVIOUS
<1>1. ASSUME NEW v \in Viewers, AskState(v) \/ ReadSnapshot(v) \/ FetchState(v) \/ SetSnapshot(v) \/ KeepState(v)
                               \/ StateFails(v) \/ HandToken(v) \/ HandFails(v)
      PROVE  DoorInv'
  BY <1>1, AskStateKeeps, ReadSnapshotKeeps, FetchStateKeeps, SetSnapshotKeeps, KeepStateKeeps, FailsKeeps,
     HandTokenKeeps, Zenon
<1>2. ASSUME NEW v \in Viewers, NEW t \in Tickets, RedeemTicket(v, t) PROVE DoorInv' BY <1>2, RedeemTicketKeeps
<1>3. ASSUME NEW t \in Tickets, IssueTicket(t) PROVE DoorInv' BY <1>3, IssueTicketKeeps
<1>4. CASE ChangeUnseen BY <1>4, NextVersionKeeps DEF ChangeUnseen
<1>5. CASE ActOnNode BY <1>5, NextVersionKeeps DEF ActOnNode
<1>6. CASE DropSnapshot \/ AnswerAction \/ ActionFails \/ CloseLab \/ LoseLab \/ EraseRow
  BY <1>6, SwitchKeeps
<1>7. CASE Second BY <1>7, SecondKeeps
<1>8. CASE UNCHANGED doorVars
  BY <1>8, CachesMove, Zenon DEF doorVars, DoorInv, DoorTyped
<1> QED BY <1>1, <1>2, <1>3, <1>4, <1>5, <1>6, <1>7, <1>8, Zenon DEF DoorNext

\* Nobody is shown the devices as they were before a node action that was answered, unless
\* a cache took them late, nor devices long past; a ticket buys one token at most
\* (services/proxy.py:127, state_snapshot.py:46, ticket.py:43).
THEOREM DoorAlwaysSound == DoorSpec => []DoorSound
<1>1. DoorInv => DoorSound
  <2> SUFFICES ASSUME DoorInv PROVE DoorSound OBVIOUS
  <2>1. \A v \in Viewers : ViewAt(v, "shown") =>
          /\ view[v].ver < view[v].floor => view[v].ver \in late
          /\ view[v].ver < device => past[view[v].ver + 1] <= MaxPast
    BY DEF DoorInv, AllInHand, InHand, ViewAt, Age
  <2>2. \A t \in Tickets : pass[t].handed <= 1 BY DEF DoorInv, TicketsOnce, TicketOnce
  <2> QED BY <2>1, <2>2 DEF DoorSound
<1> QED BY <1>1, DoorInitInv, DoorNextInv, PTL DEF DoorSpec
-----------------------------------------------------------------------------
(* The one stream to the MCP server. *)

AtWork == {"waiting", "calling", "dropping", "closing"}

\* What is stored is of its type.
StreamTyped ==
  /\ stream \in [Streams -> [task : {"none", "opening", "open", "unwinding", "done"}, closing : BOOLEAN]]
  /\ current \in Streams \cup {None}
  /\ tool \in [ToolCalls ->
       [pc : AtWork \cup {"new", "answered", "failed", "cancelled"}, on : Streams \cup {None},
        tries : 0 .. Attempts, error : ErrorKinds \cup {"none"}]]

\* A call at work is on a stream whose task was started, and one that has yet to connect
\* has a try left; nobody asks a task to close that was not started.
CallsPlaced ==
  \A c \in ToolCalls :
    /\ tool[c].pc \in AtWork => tool[c].on \in Streams /\ stream[tool[c].on].task # "none"
    /\ tool[c].pc = "new" => tool[c].tries < Attempts
NoneAsked == \A s \in Streams : stream[s].task = "none" => ~stream[s].closing
OwnersKnown == \A s \in Streams : TaskRunning(s) /\ ~stream[s].closing => s = current
SharedIsLive == current # None => stream[current].task # "none" /\ ~stream[current].closing

StreamInv == StreamTyped /\ CallsPlaced /\ NoneAsked /\ OwnersKnown /\ SharedIsLive

\* Nothing is connected at first.
LEMMA StreamInitInv == StreamInit => StreamInv
BY StreamAssumption DEF StreamInit, StreamInv, StreamTyped, CallsPlaced, NoneAsked, OwnersKnown, SharedIsLive,
   NoStream, NoCall, TaskRunning, AtWork, ErrorKinds

\* A call takes the shared connection or opens the first stream that is free.
LEMMA ConnectionKeeps == ASSUME StreamInv, NEW c \in ToolCalls, Connection(c) PROVE StreamInv'
<1> USE StreamAssumption
<1>1. CASE Usable(current) /\ UNCHANGED <<stream, current>>
           /\ tool' = [tool EXCEPT ![c].pc = "waiting", ![c].on = current, ![c].tries = @ + 1]
  <2>1. current \in Streams /\ stream[current].task # "none"
    BY <1>1 DEF StreamInv, StreamTyped, SharedIsLive, Usable
  <2>2. StreamTyped' /\ CallsPlaced'
    BY <1>1, <2>1 DEF StreamInv, StreamTyped, CallsPlaced, Connection, AtWork
  <2> QED BY <1>1, <2>2 DEF StreamInv, NoneAsked, OwnersKnown, SharedIsLive, TaskRunning
<1>2. ASSUME NEW s \in Fresh, ~Usable(current), stream' = [stream EXCEPT ![s].task = "opening"], current' = s,
             tool' = [tool EXCEPT ![c].pc = "waiting", ![c].on = s, ![c].tries = @ + 1]
      PROVE  StreamInv'
  <2>1. s \in Streams /\ stream[s].task = "none" /\ ~stream[s].closing
    BY DEF StreamInv, NoneAsked, Fresh
  <2>2. \A t \in Streams : ~(TaskRunning(t) /\ ~stream[t].closing)
    BY <1>2 DEF StreamInv, StreamTyped, OwnersKnown, TaskRunning, Usable
  <2> PICK tries : tries = tool[c].tries + 1 OBVIOUS
  <2>3. tries \in 0 .. Attempts
    <3>1. tool[c].tries \in 0 .. Attempts BY DEF StreamInv, StreamTyped
    <3>2. tool[c].tries < Attempts BY DEF StreamInv, CallsPlaced, Connection
    <3> QED BY <3>1, <3>2
  <2> PICK error : error = tool[c].error OBVIOUS
  <2>8. tool' = [tool EXCEPT ![c] = [pc |-> "waiting", on |-> s, tries |-> tries, error |-> error]]
        /\ error \in ErrorKinds \cup {"none"}
    BY <1>2 DEF StreamInv, StreamTyped
  <2>9. StreamTyped' BY <1>2, <2>1, <2>3, <2>8 DEF StreamInv, StreamTyped, AtWork
  <2>4. CallsPlaced' BY <1>2, <2>1, <2>8 DEF StreamInv, StreamTyped, CallsPlaced, AtWork
  <2>5. NoneAsked' BY <1>2, <2>1 DEF StreamInv, StreamTyped, NoneAsked
  <2>6. OwnersKnown' BY <1>2, <2>1, <2>2 DEF StreamInv, StreamTyped, OwnersKnown, TaskRunning
  <2>7. SharedIsLive' BY <1>2, <2>1 DEF StreamInv, StreamTyped, SharedIsLive
  <2> QED BY <2>9, <2>4, <2>5, <2>6, <2>7 DEF StreamInv
<1> QED BY <1>1, <1>2 DEF Connection

\* The task of a stream moves on by itself, and so does a wait that was long enough.
LEMMA TaskMoves ==
  ASSUME StreamInv, NEW s \in Streams, stream[s].task # "none",
         NEW t \in {"open", "unwinding", "done"}, t = "done" \/ TaskRunning(s),
         stream' = [stream EXCEPT ![s].task = t], UNCHANGED <<current, tool>>
  PROVE  StreamInv'
<1> USE StreamAssumption
<1>1. StreamTyped' BY DEF StreamInv, StreamTyped
<1>2. CallsPlaced' BY DEF StreamInv, StreamTyped, CallsPlaced
<1>3. NoneAsked' /\ SharedIsLive' BY DEF StreamInv, StreamTyped, NoneAsked, SharedIsLive
<1>4. OwnersKnown' BY DEF StreamInv, StreamTyped, OwnersKnown, TaskRunning
<1> QED BY <1>1, <1>2, <1>3, <1>4 DEF StreamInv

\* A call moves without touching a stream, and stays where it was if it is still at work.
LEMMA CallMoves ==
  ASSUME StreamInv, NEW c \in ToolCalls, StreamTyped', UNCHANGED <<stream, current>>,
         \A d \in ToolCalls \ {c} : tool'[d] = tool[d],
         tool'[c].pc # "new" \/ tool'[c].tries < Attempts,
         tool'[c].pc \in AtWork => tool[c].pc \in AtWork /\ tool'[c].on = tool[c].on
  PROVE  StreamInv'
<1>1. CallsPlaced'
  <2> SUFFICES ASSUME NEW d \in ToolCalls
               PROVE  /\ tool'[d].pc \in AtWork => tool'[d].on \in Streams /\ stream[tool'[d].on].task # "none"
                      /\ tool'[d].pc = "new" => tool'[d].tries < Attempts
    BY DEF CallsPlaced
  <2>1. CASE d = c BY <2>1 DEF StreamInv, CallsPlaced
  <2>2. CASE d # c BY <2>2 DEF StreamInv, CallsPlaced
  <2> QED BY <2>1, <2>2
<1> QED BY <1>1 DEF StreamInv, NoneAsked, OwnersKnown, SharedIsLive, TaskRunning

\* The connection is forgotten and its task asked to close: nobody shares one that ends.
LEMMA DropKeeps == ASSUME StreamInv, NEW c \in ToolCalls, Drop(c) PROVE StreamInv'
<1> USE StreamAssumption
<1> PICK s : s = tool[c].on OBVIOUS
<1>1. s \in Streams /\ stream[s].task # "none" /\ stream' = [stream EXCEPT ![s].closing = TRUE]
      /\ current' = (IF current = s THEN None ELSE current) /\ tool' = [tool EXCEPT ![c].pc = "closing"]
  BY DEF StreamInv, CallsPlaced, Drop, Forget, AtWork
<1>2. StreamTyped'
  <2>1. stream' \in [Streams -> [task : {"none", "opening", "open", "unwinding", "done"}, closing : BOOLEAN]]
        /\ current' \in Streams \cup {None}
    BY <1>1 DEF StreamInv, StreamTyped
  <2>2. tool' \in [ToolCalls ->
         [pc : AtWork \cup {"new", "answered", "failed", "cancelled"}, on : Streams \cup {None},
          tries : 0 .. Attempts, error : ErrorKinds \cup {"none"}]]
    <3>1. "closing" \in AtWork BY DEF AtWork
    <3> QED BY <1>1, <3>1 DEF StreamInv, StreamTyped
  <2> QED BY <2>1, <2>2 DEF StreamTyped
<1>3. CallsPlaced' BY <1>1 DEF StreamInv, StreamTyped, CallsPlaced, Drop, AtWork
<1>4. NoneAsked' BY <1>1 DEF StreamInv, StreamTyped, NoneAsked
<1>5. OwnersKnown' BY <1>1 DEF StreamInv, StreamTyped, OwnersKnown, TaskRunning
<1>6. SharedIsLive' BY <1>1 DEF StreamInv, StreamTyped, SharedIsLive
<1> QED BY <1>2, <1>3, <1>4, <1>5, <1>6 DEF StreamInv

\* The invariant is inductive.
LEMMA StreamNextInv == StreamInv /\ [StreamNext]_streamVars => StreamInv'
<1> SUFFICES ASSUME StreamInv, [StreamNext]_streamVars PROVE StreamInv' OBVIOUS
<1> USE StreamAssumption
<1>1. ASSUME NEW c \in ToolCalls, Ready(c) \/ NotReady(c) \/ Answered(c) \/ CallFails(c) \/ Cancel(c) \/ Closed(c)
      PROVE  StreamInv'
  <2>1. tool \in [ToolCalls ->
         [pc : AtWork \cup {"new", "answered", "failed", "cancelled"}, on : Streams \cup {None},
          tries : 0 .. Attempts, error : ErrorKinds \cup {"none"}]]
    BY DEF StreamInv, StreamTyped
  <2>2. CASE Ready(c) \/ Answered(c) \/ Cancel(c)
    <3>1. UNCHANGED <<stream, current>> /\ \E pc \in {"calling", "answered", "cancelled"} :
            tool' = [tool EXCEPT ![c].pc = pc] /\ (pc = "calling" => tool[c].pc = "waiting")
      BY <2>2 DEF Ready, Answered, Cancel
    <3>2. PICK pc \in {"calling", "answered", "cancelled"} :
            tool' = [tool EXCEPT ![c].pc = pc] /\ (pc = "calling" => tool[c].pc = "waiting")
      BY <3>1
    <3>3. pc \in AtWork \cup {"new", "answered", "failed", "cancelled"} BY DEF AtWork
    <3>4. StreamTyped' BY <2>1, <3>1, <3>2, <3>3 DEF StreamInv, StreamTyped
    <3>5. tool'[c].pc = pc /\ tool'[c].on = tool[c].on BY <2>1, <3>2
    <3>6. \A d \in ToolCalls \ {c} : tool'[d] = tool[d] BY <2>1, <3>2
    <3>7. pc # "new" /\ (pc \in AtWork => tool[c].pc \in AtWork) BY <3>2 DEF AtWork
    <3> QED BY <3>1, <3>4, <3>5, <3>6, <3>7, CallMoves
  <2>3. ASSUME NEW e \in ErrorKinds, Raises(c, e), UNCHANGED <<stream, current>>, tool[c].pc \in {"waiting", "calling"}
        PROVE  StreamInv'
    <3>1. PICK pc \in {"failed", "dropping"} : tool' = [tool EXCEPT ![c].pc = pc, ![c].error = e]
      BY <2>3 DEF Raises
    <3>2. pc \in AtWork \cup {"new", "answered", "failed", "cancelled"} BY DEF AtWork
    <3>7. e \in ErrorKinds \cup {"none"} OBVIOUS
    <3>3. StreamTyped'
      <4>1. tool' \in [ToolCalls ->
              [pc : AtWork \cup {"new", "answered", "failed", "cancelled"}, on : Streams \cup {None},
               tries : 0 .. Attempts, error : ErrorKinds \cup {"none"}]]
        BY <2>1, <3>1, <3>2, <3>7
      <4> QED BY <2>3, <4>1 DEF StreamInv, StreamTyped
    <3>4. tool'[c].pc = pc /\ tool'[c].on = tool[c].on BY <2>1, <3>1
    <3>5. \A d \in ToolCalls \ {c} : tool'[d] = tool[d] BY <2>1, <3>1
    <3>6. pc # "new" /\ tool[c].pc \in AtWork BY <2>3 DEF AtWork
    <3> QED BY <2>3, <3>3, <3>4, <3>5, <3>6, CallMoves
  <2>4. CASE Closed(c)
    <3>1. PICK pc \in {"new", "failed"} :
            /\ tool' = [tool EXCEPT ![c].pc = pc, ![c].on = None, ![c].error = "none"]
            /\ pc = "new" => tool[c].tries < Attempts
      BY <2>4 DEF Closed, Again
    <3>2. UNCHANGED <<stream, current>> BY <2>4 DEF Closed
    <3>3. StreamTyped'
      <4>1. tool' \in [ToolCalls ->
              [pc : AtWork \cup {"new", "answered", "failed", "cancelled"}, on : Streams \cup {None},
               tries : 0 .. Attempts, error : ErrorKinds \cup {"none"}]]
        <5>1. tool'[c] = [pc |-> pc, on |-> None, tries |-> tool[c].tries, error |-> "none"]
          BY <2>1, <3>1
        <5>2. tool'[c] \in [pc : AtWork \cup {"new", "answered", "failed", "cancelled"}, on : Streams \cup {None},
                            tries : 0 .. Attempts, error : ErrorKinds \cup {"none"}]
          BY <2>1, <5>1
        <5>3. tool' = [tool EXCEPT ![c] = tool'[c]] BY <2>1, <3>1
        <5> QED BY <2>1, <5>2, <5>3
      <4> QED BY <3>2, <4>1 DEF StreamInv, StreamTyped
    <3>4. tool'[c].pc = pc /\ tool'[c].tries = tool[c].tries BY <2>1, <3>1
    <3>5. \A d \in ToolCalls \ {c} : tool'[d] = tool[d] BY <2>1, <3>1
    <3>6. pc \notin AtWork BY DEF AtWork
    <3> QED BY <3>1, <3>2, <3>3, <3>4, <3>5, <3>6, CallMoves
  <2> QED BY <1>1, <2>2, <2>3, <2>4 DEF NotReady, CallFails
<1>2. ASSUME NEW c \in ToolCalls, CloseTimeout(c) PROVE StreamInv'
  <2> PICK s : s = tool[c].on OBVIOUS
  <2>1. s \in Streams /\ stream[s].task # "none" BY <1>2 DEF StreamInv, CallsPlaced, CloseTimeout, AtWork
  <2> QED BY <1>2, <2>1, TaskMoves DEF CloseTimeout
<1>3. ASSUME NEW s \in Streams, Opened(s) \/ OpenFails(s) \/ Unwinds(s) \/ Finished(s) PROVE StreamInv'
  <2>1. TaskRunning(s) /\ stream[s].task # "none"
    BY <1>3 DEF TaskRunning, Opened, OpenFails, Unwinds, Finished
  <2> QED BY <1>3, <2>1, TaskMoves DEF Opened, OpenFails, Unwinds, Finished
<1>4. CASE UNCHANGED streamVars
  BY <1>4 DEF streamVars, StreamInv, StreamTyped, CallsPlaced, NoneAsked, OwnersKnown, SharedIsLive, TaskRunning
<1> QED BY <1>1, <1>2, <1>3, <1>4, ConnectionKeeps, DropKeeps DEF StreamNext

\* No stream of the backend to the MCP server is left behind, for any number of calls, tries
\* and connections: a task that runs and was not asked to close owns the shared connection
\* (clients/mcp.py:61-76, clients/mcp_connection.py:58).
THEOREM NoStreamIsLeft == StreamSpec => []NoStreamLeft
<1>1. StreamInv => NoStreamLeft
  BY DEF StreamInv, StreamTyped, NoStreamLeft, StreamTypeOK, OwnersKnown, SharedIsLive
<1> QED BY <1>1, StreamInitInv, StreamNextInv, PTL DEF StreamSpec
-----------------------------------------------------------------------------
(* The study *)

SessionRows ==
  [user : Learners, lab : Labs, started : Nat, ended : Nat \cup {None}, arm : Arms \cup {None}, draws : BOOLEAN]
MeasureRows ==
  [session : Nat, user : Learners, lab : Labs, base : Arms \cup {None}, completed : BOOLEAN,
   pass : BOOLEAN \cup {None}]

\* What is stored is of its type.
StudyTyped ==
  /\ now \in Nat /\ simulated \subseteq Learners /\ drifted \subseteq Learners
  /\ userArm \in [Learners -> Arms \cup {None}]
  /\ studied \in Seq(SessionRows) /\ measures \in Seq(MeasureRows)
  /\ progressOf \in [Learners -> [Labs -> Progress \cup {None}]]

\* One session of a learner draws at a time, and only while no arm is kept; the loops and the
\* measures agree with the arm that is.
OneArm(u) ==
  /\ \A i, j \in DOMAIN studied :
       studied[i].user = u /\ studied[j].user = u /\ studied[i].draws /\ studied[j].draws => i = j
  /\ \A i \in DOMAIN studied : studied[i].user = u =>
       /\ studied[i].draws => userArm[u] = None
       /\ studied[i].arm = "closed" /\ ~studied[i].draws => userArm[u] = "closed"
  /\ \A k \in DOMAIN measures :
       measures[k].user = u /\ measures[k].base # None => measures[k].base = userArm[u]
ArmsKept == \A u \in Learners \ drifted : OneArm(u)

\* The times of a learner's progress are in their order; only the simulation makes steps.
ProgressOrdered ==
  \A u \in Learners, l \in Labs : progressOf[u][l] # None =>
    LET p == progressOf[u][l]
    IN /\ p.started <= now
       /\ (p.status = "completed") <=> (p.completed # None)
       /\ p.completed # None => p.started <= p.completed /\ p.completed <= now
       /\ p.steps = 1 => p.status = "completed" /\ u \in simulated

\* A simulated learner has one session on a lab, which was begun before the lab was completed.
SessionsDated ==
  \A i \in DOMAIN studied :
    /\ studied[i].started <= now
    /\ studied[i].user \in simulated =>
         \A j \in DOMAIN studied :
           studied[j].user = studied[i].user /\ studied[j].lab = studied[i].lab => i = j
    /\ LET p == progressOf[studied[i].user][studied[i].lab]
       IN p # None /\ p.steps = 1 => studied[i].started <= p.completed

\* A step is made in a session.
StepsMade ==
  \A u \in Learners, l \in Labs : progressOf[u][l] # None /\ progressOf[u][l].steps = 1 =>
    \E i \in DOMAIN studied : studied[i].user = u /\ studied[i].lab = l

\* What was measured as passed is there to stay, and was completed before its session ended.
Passed(m) ==
  LET p == progressOf[m.user][m.lab]
      s == studied[m.session]
  IN /\ p # None /\ p.steps = 1 /\ IsL2Session(m.user, m.lab)
     /\ m.session \in DOMAIN studied /\ s.user = m.user /\ s.lab = m.lab
     /\ s.ended # None /\ p.completed <= s.ended /\ s.ended <= now
PassesStand == \A k \in DOMAIN measures : measures[k].pass = TRUE => Passed(measures[k])

EndsDated == \A i \in DOMAIN studied : studied[i].ended # None => studied[i].ended <= now

StudyInv == StudyTyped /\ ArmsKept /\ ProgressOrdered /\ SessionsDated /\ StepsMade /\ PassesStand /\ EndsDated

\* What is not there is no number, no truth value and no progress.
LEMMA NoneApart == /\ None \notin Nat /\ None \notin BOOLEAN /\ None \notin Progress
                   /\ None \notin Learners /\ None \notin Labs /\ None \notin Arms
BY StudyAssumption

\* Nobody is known to the study at first.
LEMMA StudyInitInv == StudyInit => StudyInv
<1> SUFFICES ASSUME StudyInit PROVE StudyInv OBVIOUS
<1>1. StudyTyped BY EmptySeq DEF StudyInit, StudyTyped
<1>2. DOMAIN studied = {} /\ DOMAIN measures = {} BY DEF StudyInit
<1>3. ArmsKept /\ SessionsDated /\ PassesStand /\ EndsDated
  BY <1>2 DEF ArmsKept, OneArm, SessionsDated, PassesStand, EndsDated
<1>4. ProgressOrdered /\ StepsMade BY DEF StudyInit, ProgressOrdered, StepsMade
<1> QED BY <1>1, <1>3, <1>4 DEF StudyInv

\* A session is begun: no loop but the one of its learner's arm, and for a simulated
\* student none on a lab they have been on.
LEMMA NewSession ==
  ASSUME StudyInv, NEW u \in Learners, NEW l \in Labs, NEW arm \in Arms \cup {None}, NEW draws \in BOOLEAN,
         studied' = Append(studied, Started(u, l, arm, draws)),
         UNCHANGED <<now, simulated, userArm, progressOf, measures>>,
         drifted \subseteq drifted', drifted' \subseteq Learners,
         u \notin drifted' => /\ draws => Drawing(u) = {} /\ userArm[u] = None
                              /\ arm = "closed" /\ ~draws => userArm[u] = "closed",
         u \in simulated => \A i \in DOMAIN studied : studied[i].user = u => studied[i].lab # l,
         progressOf[u][l] # None => progressOf[u][l].steps # 1
  PROVE  StudyInv'
<1> USE NoneApart
<1> PICK r : r = Started(u, l, arm, draws) OBVIOUS
<1>1. r \in SessionRows /\ r.user = u /\ r.lab = l /\ r.started = now /\ r.ended = None /\ r.arm = arm /\ r.draws = draws
  BY DEF Started, SessionRows, StudyInv, StudyTyped
<1> PICK n : n = Len(studied) OBVIOUS
<1>2. n \in Nat /\ DOMAIN studied = 1 .. n /\ DOMAIN studied' = 1 .. (n + 1)
      /\ studied' \in Seq(SessionRows) /\ studied'[n + 1] = r /\ \A i \in 1 .. n : studied'[i] = studied[i]
  BY <1>1 DEF StudyInv, StudyTyped
<1>3. StudyTyped' BY <1>2 DEF StudyInv, StudyTyped
<1>4. ArmsKept'
  <2> SUFFICES ASSUME NEW v \in Learners, v \notin drifted' PROVE OneArm(v)' BY DEF ArmsKept
  <2>1. OneArm(v) BY DEF StudyInv, ArmsKept
  <2>2. CASE v # u
    BY <1>1, <1>2, <2>1, <2>2 DEF OneArm
  <2>3. CASE v = u
    <3>1. draws => \A i \in 1 .. n : ~(studied[i].user = u /\ studied[i].draws)
      BY <1>2, <2>3 DEF Drawing
    <3>2. \A i, j \in 1 .. (n + 1) :
            studied'[i].user = v /\ studied'[j].user = v /\ studied'[i].draws /\ studied'[j].draws => i = j
      <4> SUFFICES ASSUME NEW i \in 1 .. (n + 1), NEW j \in 1 .. (n + 1), studied'[i].user = v, studied'[j].user = v,
                          studied'[i].draws, studied'[j].draws, i # j
                   PROVE  FALSE
        OBVIOUS
      <4>1. CASE i \in 1 .. n /\ j \in 1 .. n BY <1>2, <2>1, <4>1 DEF OneArm
      <4>2. CASE i = n + 1 BY <1>1, <1>2, <2>3, <3>1, <4>2
      <4>3. CASE j = n + 1 BY <1>1, <1>2, <2>3, <3>1, <4>3
      <4> QED BY <1>2, <4>1, <4>2, <4>3
    <3>3. \A i \in 1 .. (n + 1) : studied'[i].user = v =>
            /\ studied'[i].draws => userArm[v] = None
            /\ studied'[i].arm = "closed" /\ ~studied'[i].draws => userArm[v] = "closed"
      <4> SUFFICES ASSUME NEW i \in 1 .. (n + 1), studied'[i].user = v
                   PROVE  /\ studied'[i].draws => userArm[v] = None
                          /\ studied'[i].arm = "closed" /\ ~studied'[i].draws => userArm[v] = "closed"
        OBVIOUS
      <4>1. CASE i \in 1 .. n BY <1>2, <2>1, <4>1 DEF OneArm
      <4>2. CASE i = n + 1 BY <1>1, <1>2, <2>3, <4>2
      <4> QED BY <1>2, <4>1, <4>2
    <3> QED BY <1>2, <2>1, <3>2, <3>3 DEF OneArm
  <2> QED BY <2>2, <2>3
<1>5. ProgressOrdered' BY DEF StudyInv, ProgressOrdered
<1>6. SessionsDated'
  <2> SUFFICES ASSUME NEW i \in 1 .. (n + 1)
               PROVE  /\ studied'[i].started <= now
                      /\ studied'[i].user \in simulated =>
                           \A j \in 1 .. (n + 1) :
                             studied'[j].user = studied'[i].user /\ studied'[j].lab = studied'[i].lab => i = j
                      /\ LET p == progressOf[studied'[i].user][studied'[i].lab]
                         IN p # None /\ p.steps = 1 => studied'[i].started <= p.completed
    BY <1>2 DEF SessionsDated
  <2>1. \A j \in 1 .. n : u \in simulated /\ studied[j].user = u => studied[j].lab # l BY <1>2
  <2>2. CASE i \in 1 .. n
    <3>1. \A j \in 1 .. n : studied[i].user \in simulated /\ studied[j].user = studied[i].user
                            /\ studied[j].lab = studied[i].lab => i = j
      BY <1>2, <2>2 DEF StudyInv, SessionsDated
    <3>2. studied'[i].user \in simulated =>
            \A j \in 1 .. (n + 1) :
              studied'[j].user = studied'[i].user /\ studied'[j].lab = studied'[i].lab => i = j
      BY <1>1, <1>2, <2>1, <2>2, <3>1
    <3> QED BY <1>2, <2>2, <3>2 DEF StudyInv, SessionsDated
  <2>3. CASE i = n + 1
    <3>1. now \in Nat BY DEF StudyInv, StudyTyped
    <3>2. \A j \in 1 .. (n + 1) :
            u \in simulated /\ studied'[j].user = u /\ studied'[j].lab = l => j = n + 1
      BY <1>1, <1>2, <2>1
    <3> QED BY <1>1, <1>2, <2>3, <3>1, <3>2
  <2> QED BY <1>2, <2>2, <2>3
<1>7. PassesStand'
  <2>1. \A k \in DOMAIN measures : measures[k].pass = TRUE => Passed(measures[k])'
    BY <1>2 DEF StudyInv, PassesStand, Passed, IsL2Session, Completed
  <2> QED BY <2>1 DEF PassesStand
<1>8. EndsDated'
  BY <1>1, <1>2 DEF StudyInv, EndsDated
<1>9. StepsMade'
  BY <1>2 DEF StudyInv, StepsMade
<1> QED BY <1>3, <1>4, <1>5, <1>6, <1>7, <1>8, <1>9 DEF StudyInv

\* A session is at a lab of a learner.
LEMMA SessionAt ==
  ASSUME StudyInv, NEW i \in DOMAIN studied
  PROVE  studied[i] \in SessionRows /\ studied[i].user \in Learners /\ studied[i].lab \in Labs /\ studied[i].started <= now
<1>1. studied \in Seq(SessionRows) BY DEF StudyInv, StudyTyped
<1>2. studied[i] \in SessionRows BY <1>1, LenProperties
<1> QED BY <1>2 DEF SessionRows, StudyInv, SessionsDated

\* A measure is of a learner on a lab.
LEMMA MeasureAt ==
  ASSUME StudyInv, NEW k \in DOMAIN measures
  PROVE  measures[k] \in MeasureRows /\ measures[k].user \in Learners /\ measures[k].lab \in Labs
<1>1. measures \in Seq(MeasureRows) BY DEF StudyInv, StudyTyped
<1>2. measures[k] \in MeasureRows BY <1>1, LenProperties
<1> QED BY <1>2 DEF MeasureRows

\* What may be written of a learner on a lab: what is completed stays as it was, the times are
\* in their order, and a step is of a simulated learner in the midst of a session.
WellWritten(u, l, p) ==
  /\ p \in Progress
  /\ Completed(u, l) => p = progressOf[u][l]
  /\ p.started <= now
  /\ (p.status = "completed") <=> (p.completed # None)
  /\ p.completed # None => p.started <= p.completed /\ p.completed <= now
  /\ p.steps = 1 => /\ p.status = "completed" /\ u \in simulated
                    /\ \A i \in DOMAIN studied :
                         studied[i].user = u /\ studied[i].lab = l => studied[i].started <= p.completed
                    /\ \E i \in DOMAIN studied : studied[i].user = u /\ studied[i].lab = l

\* Progress is written: a lab that is completed stays as it was.
LEMMA NewProgressKeeps ==
  ASSUME StudyInv, NEW u \in Learners, NEW l \in Labs, NEW p,
         progressOf' = [progressOf EXCEPT ![u][l] = p],
         UNCHANGED <<now, simulated, userArm, studied, measures, drifted>>,
         WellWritten(u, l, p)
  PROVE  StudyInv'
<1> USE NoneApart
<1>1. /\ progressOf'[u][l] = p
      /\ \A v \in Learners, k \in Labs : v # u \/ k # l => progressOf'[v][k] = progressOf[v][k]
  BY DEF StudyInv, StudyTyped
<1>2. StudyTyped' BY DEF StudyInv, StudyTyped, WellWritten
<1>3. ArmsKept' /\ EndsDated' BY DEF StudyInv, ArmsKept, OneArm, EndsDated
<1>4. ProgressOrdered'
  <2> SUFFICES ASSUME NEW v \in Learners, NEW k \in Labs, progressOf'[v][k] # None
               PROVE  LET q == progressOf'[v][k]
                      IN /\ q.started <= now
                         /\ (q.status = "completed") <=> (q.completed # None)
                         /\ q.completed # None => q.started <= q.completed /\ q.completed <= now
                         /\ q.steps = 1 => q.status = "completed" /\ v \in simulated
    BY DEF ProgressOrdered
  <2>1. CASE v = u /\ k = l BY <1>1, <2>1 DEF WellWritten
  <2>2. CASE v # u \/ k # l BY <1>1, <2>2 DEF StudyInv, ProgressOrdered
  <2> QED BY <2>1, <2>2
<1>5. SessionsDated'
  <2> SUFFICES ASSUME NEW i \in DOMAIN studied
               PROVE  LET q == progressOf'[studied[i].user][studied[i].lab]
                      IN q # None /\ q.steps = 1 => studied[i].started <= q.completed
    BY DEF StudyInv, SessionsDated
  <2>0. studied[i].user \in Learners /\ studied[i].lab \in Labs BY SessionAt
  <2>1. CASE studied[i].user = u /\ studied[i].lab = l BY <1>1, <2>1 DEF WellWritten
  <2>2. CASE studied[i].user # u \/ studied[i].lab # l BY <1>1, <2>0, <2>2 DEF StudyInv, SessionsDated
  <2> QED BY <2>1, <2>2
<1>6. \A v \in Learners, k \in Labs : Completed(v, k) => Completed(v, k)' /\ progressOf'[v][k] = progressOf[v][k]
  <2> SUFFICES ASSUME NEW v \in Learners, NEW k \in Labs, Completed(v, k)
               PROVE  Completed(v, k)' /\ progressOf'[v][k] = progressOf[v][k]
    OBVIOUS
  <2>1. progressOf'[v][k] = progressOf[v][k] BY <1>1 DEF WellWritten
  <2> QED BY <2>1 DEF Completed
<1>7. \A v \in Learners, k \in Labs : IsL2Session(v, k) => IsL2Session(v, k)'
  BY <1>6 DEF IsL2Session
<1>8. PassesStand'
  <2> SUFFICES ASSUME NEW i \in DOMAIN measures, measures[i].pass = TRUE PROVE Passed(measures[i])'
    BY DEF PassesStand
  <2> PICK m : m = measures[i] OBVIOUS
  <2>1. m.user \in Learners /\ m.lab \in Labs BY MeasureAt
  <2>2. Passed(m) BY DEF StudyInv, PassesStand
  <2>3. Completed(m.user, m.lab) BY <2>1, <2>2 DEF StudyInv, ProgressOrdered, Passed, Completed
  <2>4. progressOf'[m.user][m.lab] = progressOf[m.user][m.lab] /\ IsL2Session(m.user, m.lab)'
    BY <1>6, <1>7, <2>1, <2>2, <2>3 DEF Passed
  <2>5. Passed(m)' BY <2>2, <2>4 DEF Passed
  <2> QED BY <2>5
<1>9. StepsMade'
  <2> SUFFICES ASSUME NEW v \in Learners, NEW k \in Labs, progressOf'[v][k] # None, progressOf'[v][k].steps = 1
               PROVE  \E i \in DOMAIN studied : studied[i].user = v /\ studied[i].lab = k
    BY DEF StepsMade
  <2>1. CASE v = u /\ k = l BY <1>1, <2>1 DEF WellWritten
  <2>2. CASE v # u \/ k # l BY <1>1, <2>2 DEF StudyInv, StepsMade
  <2> QED BY <2>1, <2>2
<1> QED BY <1>2, <1>3, <1>4, <1>5, <1>8, <1>9 DEF StudyInv

\* What is known of a lab that was never opened is that it was.
LEMMA KnownProgress ==
  ASSUME StudyInv, NEW u \in Learners, NEW l \in Labs
  PROVE  WellWritten(u, l, Known(u, l))
<1> USE NoneApart
<1>1. CASE progressOf[u][l] = None
  <2>1. now \in Nat BY DEF StudyInv, StudyTyped
  <2> QED BY <1>1, <2>1 DEF Known, NewProgress, Completed, Progress, WellWritten
<1>2. CASE progressOf[u][l] # None
  <2>1. Known(u, l) = progressOf[u][l] /\ progressOf[u][l] \in Progress
    BY <1>2 DEF Known, StudyInv, StudyTyped
  <2>2. \A i \in DOMAIN studied : studied[i].user = u /\ studied[i].lab = l /\ progressOf[u][l].steps = 1 =>
          studied[i].started <= progressOf[u][l].completed
    BY <1>2 DEF StudyInv, SessionsDated
  <2> QED BY <1>2, <2>1, <2>2 DEF StudyInv, ProgressOrdered, StepsMade, WellWritten
<1> QED BY <1>1, <1>2

\* A lab is opened.
LEMMA OpenLabKeeps == ASSUME StudyInv, NEW u \in Learners, NEW l \in Labs, OpenLab(u, l) PROVE StudyInv'
<1> PICK p : p = Known(u, l) OBVIOUS
<1> QED BY KnownProgress, NewProgressKeeps DEF OpenLab

\* A lab is validated: completed now, unless it is already or something failed.
LEMMA ValidateLabKeeps ==
  ASSUME StudyInv, NEW i \in DOMAIN studied, NEW allPassed \in BOOLEAN, ValidateLab(i, allPassed) PROVE StudyInv'
<1> USE NoneApart
<1> PICK u, l : u = studied[i].user /\ l = studied[i].lab OBVIOUS
<1>1. u \in Learners /\ l \in Labs BY SessionAt
<1> PICK q : q = Known(u, l) OBVIOUS
<1> PICK p : p = IF allPassed THEN PassedAll(q) ELSE q OBVIOUS
<1>2. progressOf' = [progressOf EXCEPT ![u][l] = p] /\ UNCHANGED <<now, simulated, userArm, studied, measures, drifted>>
  BY DEF ValidateLab
<1>5. WellWritten(u, l, q) BY <1>1, KnownProgress
<1>6. Completed(u, l) => q.status = "completed" BY <1>5 DEF Completed, WellWritten
<1>3. CASE p = q BY <1>1, <1>2, <1>3, <1>5, NewProgressKeeps
<1>4. CASE p # q
  <2>1. p = [q EXCEPT !.status = "completed", !.completed = now] /\ q.status # "completed"
    BY <1>4 DEF PassedAll
  <2>2. q \in Progress /\ now \in Nat BY <1>5 DEF StudyInv, StudyTyped, WellWritten
  <2>3. p \in Progress /\ p.status = "completed" /\ p.completed = now /\ p.started = q.started /\ p.steps = q.steps
    BY <2>1, <2>2 DEF Progress
  <2>4. WellWritten(u, l, p)
    BY <1>5, <1>6, <2>1, <2>2, <2>3 DEF WellWritten
  <2> QED BY <1>1, <1>2, <2>4, NewProgressKeeps
<1> QED BY <1>3, <1>4

\* What the simulation writes.
LEMMA SimulateProgressKeeps ==
  ASSUME StudyInv, NEW i \in DOMAIN studied, NEW allSteps \in BOOLEAN, SimulateProgress(i, allSteps) PROVE StudyInv'
<1> USE NoneApart
<1> PICK u, l : u = studied[i].user /\ l = studied[i].lab OBVIOUS
<1>1. u \in Learners /\ l \in Labs BY SessionAt
<1> PICK p : p = IF allSteps THEN [PassedAll(NewProgress) EXCEPT !.steps = 1] ELSE NewProgress OBVIOUS
<1>2. progressOf' = [progressOf EXCEPT ![u][l] = p] /\ UNCHANGED <<now, simulated, userArm, studied, measures, drifted>>
      /\ u \in simulated /\ ~Completed(u, l)
  BY DEF SimulateProgress, Completed
<1>3. now \in Nat BY DEF StudyInv, StudyTyped
<1>4. CASE allSteps
  <2>1. p = [status |-> "completed", steps |-> 1, started |-> now, completed |-> now]
    BY <1>4 DEF PassedAll, NewProgress
  <2>2. p \in Progress /\ p.status = "completed" /\ p.completed = now /\ p.started = now BY <1>3, <2>1 DEF Progress
  <2>3. \A j \in DOMAIN studied : studied[j].started <= now BY SessionAt
  <2>4. WellWritten(u, l, p) BY <1>2, <1>3, <2>2, <2>3 DEF WellWritten
  <2> QED BY <1>1, <1>2, <2>4, NewProgressKeeps
<1>5. CASE ~allSteps
  <2>1. p = [status |-> "in_progress", steps |-> 0, started |-> now, completed |-> None]
    BY <1>5 DEF NewProgress
  <2>2. p \in Progress /\ p.status = "in_progress" /\ p.completed = None /\ p.started = now /\ p.steps = 0
    BY <1>3, <2>1 DEF Progress
  <2>3. WellWritten(u, l, p) BY <1>2, <1>3, <2>2 DEF WellWritten
  <2> QED BY <1>1, <1>2, <2>3, NewProgressKeeps
<1> QED BY <1>4, <1>5

\* A session begins, its loop knowing the arm.
LEMMA StartSessionKeeps ==
  ASSUME StudyInv, NEW u \in Learners, NEW l \in Labs, StartSession(u, l) PROVE StudyInv'
<1> USE NoneApart
<1>1. /\ UNCHANGED <<now, simulated, userArm, progressOf, measures>>
      /\ u \in simulated => \A i \in DOMAIN studied : studied[i].user # u
  BY DEF StartSession
<1>2. progressOf[u][l] # None => progressOf[u][l].steps # 1
  BY <1>1 DEF StudyInv, ProgressOrdered, StepsMade
<1>3. userArm[u] \in Arms \cup {None} BY DEF StudyInv, StudyTyped
<1>4. ASSUME NEW arm \in Arms \cup {None}, arm = "closed" => userArm[u] = "closed",
             studied' = Append(studied, Started(u, l, arm, FALSE)), UNCHANGED drifted
      PROVE  StudyInv'
  <2>1. drifted \subseteq drifted' /\ drifted' \subseteq Learners BY <1>4 DEF StudyInv, StudyTyped
  <2> QED BY <1>1, <1>2, <1>4, <2>1, NewSession
<1>5. ASSUME NEW arm \in Arms, userArm[u] = None, studied' = Append(studied, Started(u, l, arm, TRUE)), Drifts(u)
      PROVE  StudyInv'
  <2>1. drifted \subseteq drifted' /\ drifted' \subseteq Learners BY <1>5 DEF StudyInv, StudyTyped, Drifts
  <2>2. u \notin drifted' => Drawing(u) = {} BY <1>5 DEF Drifts
  <2> QED BY <1>1, <1>2, <1>5, <2>1, <2>2, NewSession
<1>6. \/ /\ studied' = Append(studied, Started(u, l, "open", FALSE)) /\ UNCHANGED drifted
      \/ /\ userArm[u] # None /\ studied' = Append(studied, Started(u, l, userArm[u], FALSE)) /\ UNCHANGED drifted
      \/ /\ userArm[u] = None /\ Drifts(u)
         /\ \E arm \in Arms : studied' = Append(studied, Started(u, l, arm, TRUE))
      \/ /\ studied' = Append(studied, Started(u, l, None, FALSE)) /\ UNCHANGED drifted
  BY DEF StartSession
<1> PICK own : own = userArm[u] OBVIOUS
<1>7. "open" \in Arms /\ None # "closed" BY DEF Arms
<1> QED BY <1>3, <1>4, <1>5, <1>6, <1>7

\* The simulation makes the session on the second lab without a loop.
LEMMA SimulateSecondKeeps ==
  ASSUME StudyInv, NEW u \in Learners, NEW l \in Labs, SimulateSecond(u, l) PROVE StudyInv'
<1>1. /\ UNCHANGED <<now, simulated, userArm, progressOf, measures, drifted>> /\ progressOf[u][l] = None
      /\ studied' = Append(studied, Started(u, l, None, FALSE))
      /\ \A i \in DOMAIN studied : studied[i].user = u => studied[i].lab # l
  BY DEF SimulateSecond
<1>2. drifted \subseteq drifted' /\ drifted' \subseteq Learners BY <1>1 DEF StudyInv, StudyTyped
<1>3. None # "closed" BY NoneApart DEF Arms
<1> QED BY <1>1, <1>2, <1>3, NewSession

\* A row moves on: its loop is drawn for, or its session ends.
LEMMA RowMoves ==
  ASSUME StudyInv, DOMAIN studied' = DOMAIN studied, UNCHANGED <<now, simulated, progressOf>>,
         \A j \in DOMAIN studied :
           /\ studied'[j].user = studied[j].user /\ studied'[j].lab = studied[j].lab
           /\ studied'[j].started = studied[j].started
           /\ studied'[j].ended = studied[j].ended \/ (OpenSession(j) /\ studied'[j].ended = now)
  PROVE  /\ ProgressOrdered' /\ SessionsDated' /\ StepsMade' /\ EndsDated'
         /\ \A m \in MeasureRows : Passed(m) => Passed(m)'
<1>0. now \in Nat BY DEF StudyInv, StudyTyped
<1>1. ProgressOrdered' BY DEF StudyInv, ProgressOrdered
<1>2. SessionsDated'
  <2>1. \A j \in DOMAIN studied :
          /\ studied'[j].started <= now
          /\ studied'[j].user \in simulated =>
               \A k \in DOMAIN studied :
                 studied'[k].user = studied'[j].user /\ studied'[k].lab = studied'[j].lab => j = k
          /\ LET p == progressOf[studied'[j].user][studied'[j].lab]
             IN p # None /\ p.steps = 1 => studied'[j].started <= p.completed
    BY DEF StudyInv, SessionsDated
  <2> QED BY <2>1 DEF SessionsDated
<1>3. StepsMade' BY DEF StudyInv, StepsMade
<1>4. EndsDated' BY <1>0 DEF StudyInv, EndsDated
<1>5. ASSUME NEW m \in MeasureRows, Passed(m) PROVE Passed(m)'
  <2>1. IsL2Session(m.user, m.lab)' BY <1>5 DEF Passed, IsL2Session, Completed
  <2>2. studied'[m.session].ended = studied[m.session].ended BY <1>5 DEF Passed, OpenSession
  <2> QED BY <1>5, <2>1, <2>2 DEF Passed
<1> QED BY <1>1, <1>2, <1>3, <1>4, <1>5

\* The draw is committed: nobody else had drawn, and no loop knew of an arm before.
LEMMA CommitArmKeeps == ASSUME StudyInv, NEW i \in DOMAIN studied, CommitArm(i) PROVE StudyInv'
<1> USE NoneApart
<1> PICK u, arm : u = studied[i].user /\ arm = studied[i].arm OBVIOUS
<1>1. u \in Learners /\ arm \in Arms \cup {None} BY SessionAt DEF SessionRows
<1>2. /\ studied[i].draws /\ userArm' = [userArm EXCEPT ![u] = arm]
      /\ studied' = [studied EXCEPT ![i].draws = FALSE]
      /\ UNCHANGED <<now, simulated, progressOf, measures, drifted>>
  BY DEF CommitArm, Keep, DrawnArm
<1>3. DOMAIN studied' = DOMAIN studied /\ studied' \in Seq(SessionRows)
      /\ \A j \in DOMAIN studied :
           /\ studied'[j].user = studied[j].user /\ studied'[j].lab = studied[j].lab
           /\ studied'[j].started = studied[j].started /\ studied'[j].ended = studied[j].ended
           /\ studied'[j].arm = studied[j].arm
           /\ studied'[j].draws = (IF j = i THEN FALSE ELSE studied[j].draws)
  <2> PICK r : r = [studied[i] EXCEPT !.draws = FALSE] OBVIOUS
  <2>1. r \in SessionRows BY SessionAt DEF SessionRows
  <2>2. studied' = [studied EXCEPT ![i] = r] BY <1>2
  <2>3. studied \in Seq(SessionRows) BY DEF StudyInv, StudyTyped
  <2>4. studied' \in Seq(SessionRows) BY <2>1, <2>2, <2>3, ExceptSeq
  <2>5. studied'[i] = r /\ (\A j \in DOMAIN studied \ {i} : studied'[j] = studied[j]) /\ DOMAIN studied' = DOMAIN studied
    BY <2>2
  <2>6. /\ r.user = studied[i].user /\ r.lab = studied[i].lab /\ r.started = studied[i].started
        /\ r.ended = studied[i].ended /\ r.arm = studied[i].arm /\ r.draws = FALSE
    BY SessionAt DEF SessionRows
  <2> QED BY <2>4, <2>5, <2>6
<1>4. StudyTyped' BY <1>1, <1>2, <1>3 DEF StudyInv, StudyTyped
<1>5. ArmsKept'
  <2> SUFFICES ASSUME NEW v \in Learners, v \notin drifted PROVE OneArm(v)' BY <1>2 DEF ArmsKept
  <2>1. OneArm(v) BY DEF StudyInv, ArmsKept
  <2>2. CASE v # u
    <3>1. userArm'[v] = userArm[v] BY <1>2, <2>2 DEF StudyInv, StudyTyped
    <3> QED BY <1>2, <1>3, <2>1, <2>2, <3>1 DEF OneArm
  <2>3. CASE v = u
    <3>1. userArm[u] = None /\ userArm'[u] = arm BY <1>1, <1>2, <2>1, <2>3 DEF OneArm, StudyInv, StudyTyped
    <3>2. \A j \in DOMAIN studied : studied[j].user = u /\ j # i => ~studied[j].draws /\ studied[j].arm # "closed"
      BY <1>2, <2>1, <2>3, <3>1 DEF OneArm, Arms
    <3>3. \A k \in DOMAIN measures : measures[k].user = u => measures[k].base = None
      BY <2>1, <2>3, <3>1 DEF OneArm
    <3> QED BY <1>2, <1>3, <2>3, <3>1, <3>2, <3>3 DEF OneArm
  <2> QED BY <2>2, <2>3
<1>6. ProgressOrdered' /\ SessionsDated' /\ StepsMade' /\ EndsDated' /\ \A m \in MeasureRows : Passed(m) => Passed(m)'
  BY <1>2, <1>3, RowMoves
<1>7. PassesStand'
  <2> SUFFICES ASSUME NEW k \in DOMAIN measures, measures[k].pass = TRUE PROVE Passed(measures[k])'
    BY <1>2 DEF PassesStand
  <2> PICK m : m = measures[k] OBVIOUS
  <2>1. m \in MeasureRows /\ Passed(m) BY MeasureAt DEF StudyInv, PassesStand
  <2>2. measures'[k] = m BY <1>2
  <2> QED BY <1>2, <1>6, <2>1
<1> QED BY <1>4, <1>5, <1>6, <1>7 DEF StudyInv

\* A measure is of a session's learner and lab, and as good as their progress.
LEMMA MeasuredIs ==
  ASSUME StudyInv, NEW i \in DOMAIN studied, NEW base \in Arms \cup {None}
  PROVE  /\ Measured(i, base) \in MeasureRows
         /\ Measured(i, base).session = i /\ Measured(i, base).user = studied[i].user
         /\ Measured(i, base).lab = studied[i].lab /\ Measured(i, base).base = base
         /\ Measured(i, base).pass = TRUE =>
              /\ IsL2Session(studied[i].user, studied[i].lab)
              /\ progressOf[studied[i].user][studied[i].lab] # None
              /\ progressOf[studied[i].user][studied[i].lab].steps = 1
<1> USE NoneApart
<1> PICK u, l, p, done : /\ u = studied[i].user /\ l = studied[i].lab /\ p = progressOf[u][l]
                         /\ done = (p # None /\ p.steps >= 1)
  OBVIOUS
<1> PICK verdict : verdict = IF IsL2Session(u, l) THEN done ELSE None OBVIOUS
<1>1. u \in Learners /\ l \in Labs /\ done \in BOOLEAN /\ verdict \in BOOLEAN \cup {None} BY SessionAt
<1>2. Measured(i, base) = [session |-> i, user |-> u, lab |-> l, base |-> base, completed |-> done, pass |-> verdict]
  BY DEF Measured
<1>3. i \in Nat
  <2>1. studied \in Seq(SessionRows) BY DEF StudyInv, StudyTyped
  <2> QED BY <2>1, LenProperties
<1>4. verdict = TRUE => IsL2Session(u, l) /\ p # None /\ p.steps = 1
  <2>1. p # None => p \in Progress BY <1>1 DEF StudyInv, StudyTyped
  <2>2. p # None /\ p.steps >= 1 => p.steps = 1 BY <2>1 DEF Progress
  <2> QED BY <2>2
<1>5. Measured(i, base) \in MeasureRows BY <1>1, <1>2, <1>3 DEF MeasureRows
<1> QED BY <1>2, <1>4, <1>5

\* A session ends, and is measured or is not.
LEMMA EndMeasuredKeeps == ASSUME StudyInv, NEW i \in DOMAIN studied, EndMeasured(i) PROVE StudyInv'
<1> USE NoneApart
<1> PICK u, l : u = studied[i].user /\ l = studied[i].lab OBVIOUS
<1>1. u \in Learners /\ l \in Labs /\ now \in Nat BY SessionAt DEF StudyInv, StudyTyped
<1>2. /\ studied[i].ended = None /\ studied' = [studied EXCEPT ![i].ended = now]
      /\ UNCHANGED <<now, simulated, progressOf>>
  BY DEF EndMeasured, OpenSession
<1>3. DOMAIN studied' = DOMAIN studied /\ studied' \in Seq(SessionRows)
      /\ \A j \in DOMAIN studied :
           /\ studied'[j].user = studied[j].user /\ studied'[j].lab = studied[j].lab
           /\ studied'[j].started = studied[j].started
           /\ studied'[j].ended = (IF j = i THEN now ELSE studied[j].ended)
           /\ studied'[j].arm = studied[j].arm /\ studied'[j].draws = studied[j].draws
  <2> PICK r : r = [studied[i] EXCEPT !.ended = now] OBVIOUS
  <2>1. r \in SessionRows BY <1>1, SessionAt DEF SessionRows
  <2>2. studied' = [studied EXCEPT ![i] = r] BY <1>2
  <2>3. studied \in Seq(SessionRows) BY DEF StudyInv, StudyTyped
  <2>4. studied' \in Seq(SessionRows) BY <2>1, <2>2, <2>3, ExceptSeq
  <2>5. studied'[i] = r /\ (\A j \in DOMAIN studied \ {i} : studied'[j] = studied[j]) /\ DOMAIN studied' = DOMAIN studied
    BY <2>2
  <2>6. /\ r.user = studied[i].user /\ r.lab = studied[i].lab /\ r.started = studied[i].started
        /\ r.ended = now /\ r.arm = studied[i].arm /\ r.draws = studied[i].draws
    BY SessionAt DEF SessionRows
  <2> QED BY <2>4, <2>5, <2>6
<1>4. ProgressOrdered' /\ SessionsDated' /\ StepsMade' /\ EndsDated' /\ \A m \in MeasureRows : Passed(m) => Passed(m)'
  BY <1>2, <1>3, RowMoves DEF OpenSession
<1>5. CASE UNCHANGED <<userArm, measures, drifted>>
  <2>1. StudyTyped' BY <1>2, <1>3, <1>5 DEF StudyInv, StudyTyped
  <2>2. ArmsKept' BY <1>3, <1>5 DEF StudyInv, ArmsKept, OneArm
  <2>3. PassesStand'
    <3> SUFFICES ASSUME NEW k \in DOMAIN measures, measures[k].pass = TRUE PROVE Passed(measures[k])'
      BY <1>5 DEF PassesStand
    <3> PICK m : m = measures[k] OBVIOUS
    <3>1. m \in MeasureRows /\ Passed(m) BY MeasureAt DEF StudyInv, PassesStand
    <3>2. measures'[k] = m BY <1>5
    <3> QED BY <1>4, <3>1, <3>2
  <2> QED BY <1>4, <2>1, <2>2, <2>3 DEF StudyInv
<1>6. ASSUME NEW draws \in BOOLEAN, draws => userArm[u] = None,
             NEW arm \in Arms \cup {None}, draws => arm \in Arms, ~draws => arm = userArm[u],
             userArm' = IF draws THEN [userArm EXCEPT ![u] = arm] ELSE userArm,
             measures' = Append(measures, Measured(i, arm)),
             IF draws THEN Drifts(u) ELSE UNCHANGED drifted
      PROVE  StudyInv'
  <2> PICK n : n = Len(measures) OBVIOUS
  <2> PICK x : x = Measured(i, arm) OBVIOUS
  <2>1. /\ x \in MeasureRows /\ x.session = i /\ x.user = u /\ x.lab = l /\ x.base = arm
        /\ x.pass = TRUE => /\ IsL2Session(u, l) /\ progressOf[u][l] # None /\ progressOf[u][l].steps = 1
    BY MeasuredIs
  <2>2. /\ n \in Nat /\ DOMAIN measures = 1 .. n /\ DOMAIN measures' = 1 .. (n + 1)
        /\ measures' \in Seq(MeasureRows) /\ measures'[n + 1] = x /\ \A k \in 1 .. n : measures'[k] = measures[k]
    BY <1>6, <2>1 DEF StudyInv, StudyTyped
  <2>3. userArm' \in [Learners -> Arms \cup {None}] /\ userArm'[u] = arm /\ \A v \in Learners \ {u} : userArm'[v] = userArm[v]
    BY <1>1, <1>6 DEF StudyInv, StudyTyped
  <2>4. drifted \subseteq drifted' /\ drifted' \subseteq Learners /\ (draws /\ u \notin drifted' => Drawing(u) = {})
    BY <1>1, <1>6 DEF StudyInv, StudyTyped, Drifts
  <2>5. StudyTyped' BY <1>2, <1>3, <2>2, <2>3, <2>4 DEF StudyInv, StudyTyped
  <2>6. ArmsKept'
    <3> SUFFICES ASSUME NEW v \in Learners, v \notin drifted' PROVE OneArm(v)' BY DEF ArmsKept
    <3>1. OneArm(v) BY <2>4 DEF StudyInv, ArmsKept
    <3>2. CASE v # u
      <4>1. \A k \in 1 .. (n + 1) : measures'[k].user = v /\ measures'[k].base # None => measures'[k].base = userArm'[v]
        <5> SUFFICES ASSUME NEW k \in 1 .. (n + 1), measures'[k].user = v, measures'[k].base # None
                     PROVE  measures'[k].base = userArm'[v]
          OBVIOUS
        <5>1. k \in 1 .. n BY <2>1, <2>2, <3>2
        <5> QED BY <2>2, <2>3, <3>1, <3>2, <5>1 DEF OneArm
      <4> QED BY <1>3, <2>2, <2>3, <3>1, <3>2, <4>1 DEF OneArm
    <3>3. CASE v = u /\ draws
      <4>1. \A j \in DOMAIN studied : studied[j].user = u => ~studied[j].draws /\ studied[j].arm # "closed"
        BY <1>6, <2>4, <3>1, <3>3 DEF OneArm, Drawing, Arms
      <4>2. \A k \in 1 .. n : measures[k].user = u => measures[k].base = None
        BY <1>6, <2>2, <3>1, <3>3 DEF OneArm
      <4>3. \A k \in 1 .. (n + 1) : measures'[k].user = u /\ measures'[k].base # None => measures'[k].base = userArm'[u]
        <5> SUFFICES ASSUME NEW k \in 1 .. (n + 1), measures'[k].user = u, measures'[k].base # None
                     PROVE  measures'[k].base = userArm'[u]
          OBVIOUS
        <5>1. k = n + 1 BY <2>2, <4>2
        <5> QED BY <2>1, <2>2, <2>3, <5>1
      <4> QED BY <1>3, <2>2, <3>3, <4>1, <4>3 DEF OneArm
    <3>4. CASE v = u /\ ~draws
      <4>1. \A k \in 1 .. (n + 1) : measures'[k].user = u /\ measures'[k].base # None => measures'[k].base = userArm'[u]
        <5> SUFFICES ASSUME NEW k \in 1 .. (n + 1), measures'[k].user = u, measures'[k].base # None
                     PROVE  measures'[k].base = userArm'[u]
          OBVIOUS
        <5>1. CASE k = n + 1 BY <2>1, <2>2, <2>3, <5>1
        <5>2. CASE k \in 1 .. n BY <1>6, <2>2, <3>1, <3>4, <5>2 DEF OneArm
        <5> QED BY <2>2, <5>1, <5>2
      <4> QED BY <1>3, <1>6, <2>2, <3>1, <3>4, <4>1 DEF OneArm
    <3> QED BY <3>2, <3>3, <3>4
  <2>7. PassesStand'
    <3> SUFFICES ASSUME NEW k \in 1 .. (n + 1), measures'[k].pass = TRUE PROVE Passed(measures[k])'
      BY <2>2 DEF PassesStand
    <3>1. CASE k \in 1 .. n
      <4> PICK m : m = measures[k] OBVIOUS
      <4>1. m \in MeasureRows /\ Passed(m) BY <2>2, <3>1, MeasureAt DEF StudyInv, PassesStand
      <4>2. measures'[k] = m BY <2>2, <3>1
      <4>3. Passed(m)' BY <1>4, <4>1
      <4> QED BY <4>2, <4>3 DEF Passed
    <3>2. CASE k = n + 1
      <4>1. measures'[k] = x BY <2>2, <3>2
      <4>2. progressOf[u][l].completed # None /\ progressOf[u][l].completed <= now /\ IsL2Session(u, l)'
        BY <1>1, <1>2, <2>1, <4>1 DEF StudyInv, ProgressOrdered, IsL2Session, Completed
      <4>3. progressOf[u][l] # None /\ progressOf[u][l].steps = 1 BY <2>1, <4>1
      <4>4. studied'[i].user = u /\ studied'[i].lab = l /\ studied'[i].ended = now /\ i \in DOMAIN studied'
        BY <1>3
      <4>5. Passed(x)' BY <1>1, <1>2, <2>1, <4>2, <4>3, <4>4 DEF Passed
      <4> QED BY <4>1, <4>5 DEF Passed
    <3> QED BY <2>2, <3>1, <3>2
  <2> QED BY <1>4, <2>5, <2>6, <2>7 DEF StudyInv
<1> PICK draws : draws = (~IsL2Session(u, l) /\ userArm[u] = None) OBVIOUS
<1>7. \/ UNCHANGED <<userArm, measures, drifted>>
      \/ \E arm \in IF draws THEN Arms ELSE {userArm[u]} :
             /\ userArm' = IF draws THEN [userArm EXCEPT ![u] = arm] ELSE userArm
             /\ measures' = Append(measures, Measured(i, arm))
             /\ IF draws THEN Drifts(u) ELSE UNCHANGED drifted
  BY DEF EndMeasured, Keep, DrawnArm
<1>8. draws \in BOOLEAN /\ userArm[u] \in Arms \cup {None} BY <1>1 DEF StudyInv, StudyTyped
<1> QED BY <1>5, <1>6, <1>7, <1>8

\* Time passes.
LEMMA StudyTimeKeeps == ASSUME StudyInv, TimePasses PROVE StudyInv'
<1>1. now \in Nat /\ now' = now + 1 /\ UNCHANGED <<simulated, userArm, studied, progressOf, measures, drifted>>
  BY DEF TimePasses, StudyInv, StudyTyped
<1>2. StudyTyped' /\ ArmsKept' /\ StepsMade' BY <1>1 DEF StudyInv, StudyTyped, ArmsKept, OneArm, StepsMade
<1>3. ProgressOrdered'
  <2>1. \A u \in Learners, l \in Labs : progressOf[u][l] # None => progressOf[u][l] \in Progress
    BY DEF StudyInv, StudyTyped
  <2> QED BY <1>1, <2>1 DEF StudyInv, ProgressOrdered, Progress
<1>4. \A j \in DOMAIN studied : studied[j] \in SessionRows BY SessionAt
<1>5. SessionsDated' BY <1>1, <1>4 DEF StudyInv, SessionsDated, SessionRows
<1>6. EndsDated' BY <1>1, <1>4 DEF StudyInv, EndsDated, SessionRows
<1>7. PassesStand'
  <2> SUFFICES ASSUME NEW k \in DOMAIN measures, measures[k].pass = TRUE PROVE Passed(measures[k])'
    BY <1>1 DEF PassesStand
  <2> PICK m : m = measures[k] OBVIOUS
  <2>1. Passed(m) BY DEF StudyInv, PassesStand
  <2>2. IsL2Session(m.user, m.lab)' BY <1>1, <2>1 DEF Passed, IsL2Session, Completed
  <2>3. Passed(m)' BY <1>1, <1>4, <2>1, <2>2 DEF Passed, SessionRows
  <2>4. measures'[k] = m BY <1>1
  <2> QED BY <2>3, <2>4
<1> QED BY <1>2, <1>3, <1>5, <1>6, <1>7 DEF StudyInv

\* The invariant is inductive.
LEMMA StudyNextInv == StudyInv /\ [StudyNext]_studyVars => StudyInv'
<1> SUFFICES ASSUME StudyInv, [StudyNext]_studyVars PROVE StudyInv' OBVIOUS
<1>1. CASE UNCHANGED studyVars
  BY <1>1 DEF studyVars, StudyInv, StudyTyped, ArmsKept, OneArm, ProgressOrdered, SessionsDated, StepsMade, EndsDated,
     PassesStand, Passed, IsL2Session, Completed
<1> QED BY <1>1, StartSessionKeeps, OpenLabKeeps, SimulateSecondKeeps, CommitArmKeeps, EndMeasuredKeeps, ValidateLabKeeps,
           SimulateProgressKeeps, StudyTimeKeeps DEF StudyNext

\* A set of numbers that is not empty has a least element,
LEMMA Least ==
  ASSUME NEW S, S \subseteq Nat, S # {} PROVE \E x \in S : \A y \in S : x <= y
<1>1. PICK x \in S : \A y \in S : ~(<<y, x>> \in OpToRel(<, Nat))
  BY NatLessThanWellFounded, WFMin
<1>2. \A y \in S : ~(y < x) BY <1>1 DEF OpToRel
<1> QED BY <1>2

\* which is its Min,
LEMMA MinIsLeast ==
  ASSUME NEW S, S \subseteq Nat, S # {} PROVE Min(S) \in S /\ \A y \in S : Min(S) <= y
BY Least DEF Min
\* and if it is bounded a greatest one, its Max.
LEMMA MaxIsGreatest ==
  ASSUME NEW S, S \subseteq Nat, S # {}, NEW b \in Nat, \A x \in S : x <= b
  PROVE  Max(S) \in S /\ \A y \in S : y <= Max(S)
<1> DEFINE T == {b - x : x \in S}
<1>5. \A x \in S : b - x \in Nat OBVIOUS
<1>1. T \subseteq Nat /\ T # {} BY <1>5
<1>2. PICK t \in T : \A y \in T : t <= y BY <1>1, Least
<1>3. PICK x \in S : t = b - x OBVIOUS
<1>4. \A y \in S : x >= y BY <1>2, <1>3
<1> QED BY <1>4 DEF Max

\* The measure that counts is one of the learner on the lab.
LEMMA FirstMeasureIs ==
  ASSUME StudyInv, NEW u, NEW l, FirstMeasure(u, l) # 0
  PROVE  /\ FirstMeasure(u, l) \in DOMAIN measures
         /\ measures[FirstMeasure(u, l)].user = u /\ measures[FirstMeasure(u, l)].lab = l
<1> DEFINE I == {i \in 1 .. Len(measures) : measures[i].user = u /\ measures[i].lab = l}
<1>1. FirstMeasure(u, l) = IF I # {} THEN Min(I) ELSE 0 BY DEF FirstMeasure, SelectInSeq
<1>2. I \subseteq Nat /\ I # {} BY <1>1
<1>3. Min(I) \in I BY <1>2, MinIsLeast
<1>4. DOMAIN measures = 1 .. Len(measures)
  <2>1. measures \in Seq(MeasureRows) BY DEF StudyInv, StudyTyped
  <2> QED BY <2>1, LenProperties
<1> QED BY <1>1, <1>2, <1>3, <1>4

\* What is no later than a time before another is before that one.
LEMMA EarlierThan == ASSUME NEW a \in Nat, NEW b \in Nat, NEW e \in Nat, a - b < 0, e <= a PROVE e < b
OBVIOUS

\* What the report says of a learner is possible.
LEMMA ReportSound ==
  ASSUME StudyInv, NEW u \in Learners, NEW skill \in {SkillOf[l] : l \in Labs} \ {None},
         NEW order \in StartOrders(u, skill) \ {<<>>}
  PROVE  LET o == ReportOf(u, skill, order)
         IN /\ o.reached => /\ o.time >= 0 /\ o.sessions > 0 /\ u \in simulated
                            /\ Completed(u, o.l2) /\ IsL2Session(u, o.l2)
            /\ o.observed < 0 =>
                 /\ ~o.reached
                 /\ \A i \in DOMAIN studied : studied[i].user = u /\ SkillOf[studied[i].lab] = skill
                      => OpenSession(i) \/ studied[i].ended < progressOf[u][order[1]].started
<1> USE NoneApart
<1> PICK n : n = Cardinality(LabsOf(u, skill)) OBVIOUS
<1>1. n \in Nat
  <2>1. LabsOf(u, skill) \subseteq Labs BY DEF LabsOf
  <2> QED BY <2>1, FS_Subset, FS_CardinalityType, StudyAssumption
<1>2. order \in [1 .. n -> LabsOf(u, skill)] BY DEF StartOrders, SetToSeqs
<1>3. n >= 1 /\ order \in Seq(LabsOf(u, skill)) /\ Len(order) = n
  <2>1. order \in Seq(LabsOf(u, skill)) /\ Len(order) = n BY <1>1, <1>2
  <2>2. n # 0 BY <2>1, EmptySeq
  <2> QED BY <1>1, <2>1, <2>2
<1>4. \A i \in 1 .. n : /\ order[i] \in Labs /\ SkillOf[order[i]] = skill /\ progressOf[u][order[i]] \in Progress
                        /\ progressOf[u][order[i]] # None
                        /\ progressOf[u][order[1]].started <= progressOf[u][order[i]].started
  <2> SUFFICES ASSUME NEW i \in 1 .. n
               PROVE  /\ order[i] \in Labs /\ SkillOf[order[i]] = skill /\ progressOf[u][order[i]] \in Progress
                      /\ progressOf[u][order[i]] # None
                      /\ progressOf[u][order[1]].started <= progressOf[u][order[i]].started
    OBVIOUS
  <2>1. order[i] \in LabsOf(u, skill) BY <1>2
  <2>2. order[i] \in Labs /\ SkillOf[order[i]] = skill /\ progressOf[u][order[i]] # None BY <2>1 DEF LabsOf
  <2>3. progressOf[u][order[i]] \in Progress BY <2>2 DEF StudyInv, StudyTyped
  <2>4. CASE i = 1
    <3>1. progressOf[u][order[i]].started \in Nat BY <2>3 DEF Progress
    <3> QED BY <2>2, <2>3, <2>4, <3>1
  <2>5. CASE 1 < i
    <3>1. \A j, k \in DOMAIN order : j < k => progressOf[u][order[j]].started <= progressOf[u][order[k]].started
      BY DEF StartOrders
    <3>2. 1 \in DOMAIN order /\ i \in DOMAIN order BY <1>1, <1>2, <1>3
    <3>3. progressOf[u][order[1]].started <= progressOf[u][order[i]].started BY <2>5, <3>1, <3>2
    <3> QED BY <2>2, <2>3, <3>3
  <2> QED BY <1>1, <2>4, <2>5
<1>20. PICK second : second = SelectInSeq(Tail(order), LAMBDA l : FirstMeasure(u, l) # 0
                                                     /\ measures[FirstMeasure(u, l)].pass = TRUE)
  OBVIOUS
<1>5. second # 0 => second + 1 \in 1 .. n /\ FirstMeasure(u, order[second + 1]) # 0
                    /\ measures[FirstMeasure(u, order[second + 1])].pass = TRUE
  <2> DEFINE I == {i \in 1 .. Len(Tail(order)) : FirstMeasure(u, Tail(order)[i]) # 0
                                                 /\ measures[FirstMeasure(u, Tail(order)[i])].pass = TRUE}
  <2>1. second = IF I # {} THEN Min(I) ELSE 0 BY <1>20 DEF SelectInSeq
  <2> SUFFICES ASSUME second # 0 PROVE second + 1 \in 1 .. n /\ FirstMeasure(u, order[second + 1]) # 0
                                       /\ measures[FirstMeasure(u, order[second + 1])].pass = TRUE
    OBVIOUS
  <2>2. I \subseteq Nat /\ I # {} BY <2>1
  <2>3. second \in I BY <2>1, <2>2, MinIsLeast
  <2>4. Len(Tail(order)) = n - 1 /\ \A i \in 1 .. (n - 1) : Tail(order)[i] = order[i + 1]
    BY <1>1, <1>3
  <2>5. second \in 1 .. (n - 1) /\ FirstMeasure(u, Tail(order)[second]) # 0
        /\ measures[FirstMeasure(u, Tail(order)[second])].pass = TRUE
    BY <2>3, <2>4
  <2> QED BY <1>1, <2>4, <2>5
<1> PICK first, reached, at, mine, ends, lastSeen :
      /\ first = progressOf[u][order[1]] /\ reached = (second # 0)
      /\ at = IF reached THEN progressOf[u][order[second + 1]].completed ELSE None
      /\ mine = {i \in DOMAIN studied : studied[i].user = u /\ SkillOf[studied[i].lab] = skill}
      /\ ends = {studied[i].ended : i \in mine} \ {None}
      /\ lastSeen = IF ends # {} THEN Max(ends)
                    ELSE IF first.completed # None THEN first.completed ELSE first.started
  OBVIOUS
<1>6. ReportOf(u, skill, order) =
        [reached |-> reached,
         l2 |-> IF reached THEN order[second + 1] ELSE None,
         time |-> IF reached THEN at - first.started ELSE None,
         sessions |-> Cardinality({i \in mine : reached => studied[i].started <= at}),
         observed |-> lastSeen - first.started]
  BY <1>20 DEF ReportOf
<1> PICK start : start = first.started OBVIOUS
<1>7. start \in Nat /\ first \in Progress /\ first.started \in Nat /\ now \in Nat BY <1>1, <1>3, <1>4 DEF Progress, StudyInv, StudyTyped
\* The last end of a session is no earlier than any.
<1>8. \A i \in mine : ~OpenSession(i) => lastSeen \in Nat /\ studied[i].ended \in Nat /\ studied[i].ended <= lastSeen
  <2> SUFFICES ASSUME NEW i \in mine, ~OpenSession(i)
               PROVE  lastSeen \in Nat /\ studied[i].ended \in Nat /\ studied[i].ended <= lastSeen
    OBVIOUS
  <2>1. \A j \in mine : studied[j].ended \in Nat \cup {None} /\ (studied[j].ended # None => studied[j].ended <= now)
    BY SessionAt DEF SessionRows, StudyInv, EndsDated
  <2>2. ends \subseteq Nat /\ \A e \in ends : e <= now BY <2>1
  <2>3. studied[i].ended \in ends BY DEF OpenSession
  <2>4. Max(ends) \in ends /\ \A e \in ends : e <= Max(ends) BY <1>7, <2>2, <2>3, MaxIsGreatest
  <2> QED BY <2>2, <2>3, <2>4
\* The second lab was measured in a session that is over.
<1>9. reached => \E i \in mine :
        /\ studied[i].ended # None /\ at <= studied[i].ended /\ at \in Nat /\ first.started <= at
        /\ studied[i].started <= at /\ u \in simulated
        /\ Completed(u, order[second + 1]) /\ IsL2Session(u, order[second + 1])
  <2> SUFFICES ASSUME reached
               PROVE  \E i \in mine :
                        /\ studied[i].ended # None /\ at <= studied[i].ended /\ at \in Nat /\ first.started <= at
                        /\ studied[i].started <= at /\ u \in simulated
                        /\ Completed(u, order[second + 1]) /\ IsL2Session(u, order[second + 1])
    OBVIOUS
  <2> PICK l : l = order[second + 1] OBVIOUS
  <2> PICK k : k = FirstMeasure(u, l) OBVIOUS
  <2> PICK m : m = measures[k] OBVIOUS
  <2>1. second + 1 \in 1 .. n /\ k # 0 /\ measures[k].pass = TRUE BY <1>5
  <2>9. k \in DOMAIN measures /\ m.user = u /\ m.lab = l BY <2>1, FirstMeasureIs
  <2>10. Passed(measures[k]) BY <2>1, <2>9 DEF StudyInv, PassesStand
  <2>2. m.user = u /\ m.lab = l /\ Passed(m) BY <2>9, <2>10
  <2> PICK p, i : p = progressOf[u][l] /\ i = m.session OBVIOUS
  <2>3. /\ p # None /\ p.steps = 1 /\ IsL2Session(u, l) /\ i \in DOMAIN studied
        /\ studied[i].user = u /\ studied[i].lab = l
        /\ studied[i].ended # None /\ p.completed <= studied[i].ended
    BY <2>2 DEF Passed
  <2>4. l \in Labs /\ SkillOf[l] = skill /\ p \in Progress /\ first.started <= p.started BY <1>4, <2>1
  <2>5. p.status = "completed" /\ p.completed # None /\ p.started <= p.completed /\ u \in simulated
    BY <2>3, <2>4 DEF StudyInv, ProgressOrdered
  <2>6. studied[i].started <= p.completed BY <2>3 DEF StudyInv, SessionsDated
  <2>7. at = p.completed /\ p.completed \in Nat /\ p.started \in Nat BY <2>4, <2>5 DEF Progress
  <2>8. i \in mine /\ Completed(u, l) BY <2>3, <2>4, <2>5 DEF Completed
  <2>11. first.started <= p.completed
    <3>1. first.started \in Nat /\ first.started <= p.started /\ p.started <= p.completed BY <1>7, <2>4, <2>5
    <3> QED BY <2>7, <3>1
  <2> QED BY <2>3, <2>5, <2>6, <2>7, <2>8, <2>11
<1>10. reached => Cardinality({i \in mine : reached => studied[i].started <= at}) > 0
  <2> SUFFICES ASSUME reached PROVE Cardinality({i \in mine : reached => studied[i].started <= at}) > 0
    OBVIOUS
  <2> PICK C : C = {i \in mine : reached => studied[i].started <= at} /\ Cardinality(C) = Cardinality({i \in mine : reached => studied[i].started <= at})
    OBVIOUS
  <2>1. studied \in Seq(SessionRows) BY DEF StudyInv, StudyTyped
  <2>7. DOMAIN studied = 1 .. Len(studied) /\ Len(studied) \in Nat BY <2>1, LenProperties
  <2>2. IsFiniteSet(DOMAIN studied) BY <2>7, FS_Interval
  <2>3. C \subseteq DOMAIN studied OBVIOUS
  <2>4. IsFiniteSet(C) BY <2>2, <2>3, FS_Subset
  <2>5. C # {} BY <1>9
  <2>6. Cardinality(C) \in Nat /\ Cardinality(C) # 0 BY <2>4, <2>5, FS_CardinalityType, FS_EmptySet
  <2> QED BY <2>6
<1>11. lastSeen - first.started < 0 =>
         /\ ~reached
         /\ \A i \in DOMAIN studied : studied[i].user = u /\ SkillOf[studied[i].lab] = skill
              => OpenSession(i) \/ studied[i].ended < first.started
  <2> SUFFICES ASSUME lastSeen - first.started < 0
               PROVE  /\ ~reached
                      /\ \A i \in mine : OpenSession(i) \/ studied[i].ended < first.started
    OBVIOUS
  <2>3. lastSeen - start < 0 OBVIOUS
  <2>1. \A i \in mine : OpenSession(i) \/ studied[i].ended < first.started
    <3> SUFFICES ASSUME NEW i \in mine, ~OpenSession(i) PROVE studied[i].ended < start OBVIOUS
    <3> PICK e : e = studied[i].ended OBVIOUS
    <3>1. lastSeen \in Nat /\ e \in Nat /\ e <= lastSeen BY <1>8
    <3>2. e < start BY <1>7, <2>3, <3>1, EarlierThan, Zenon
    <3> QED BY <3>2
  <2>2. ~reached
    <3> SUFFICES ASSUME reached PROVE FALSE OBVIOUS
    <3>1. PICK i \in mine : /\ studied[i].ended # None /\ at <= studied[i].ended /\ at \in Nat /\ first.started <= at
      BY <1>9
    <3>2. studied[i].ended \in Nat /\ studied[i].ended < first.started BY <1>8, <2>1, <3>1 DEF OpenSession
    <3> QED BY <1>7, <3>1, <3>2
  <2> QED BY <2>1, <2>2
<1>12. reached => at - first.started >= 0
  <2>1. reached => at \in Nat /\ start <= at BY <1>9
  <2> QED BY <1>7, <2>1
<1>13. reached => u \in simulated /\ Completed(u, order[second + 1]) /\ IsL2Session(u, order[second + 1]) BY <1>9
<1> PICK o : o = ReportOf(u, skill, order) OBVIOUS
<1> PICK l2, time, sessions :
      /\ l2 = IF reached THEN order[second + 1] ELSE None
      /\ time = IF reached THEN at - first.started ELSE None
      /\ sessions = Cardinality({i \in mine : reached => studied[i].started <= at})
  OBVIOUS
<1>16. o = [reached |-> reached, l2 |-> l2, time |-> time, sessions |-> sessions, observed |-> lastSeen - first.started]
  BY <1>6
<1>17. o.reached = reached /\ o.l2 = l2 /\ o.time = time /\ o.sessions = sessions /\ o.observed = lastSeen - first.started
  BY <1>16
<1>14. /\ o.reached = reached /\ o.observed = lastSeen - first.started
       /\ reached => o.time = at - first.started /\ o.l2 = order[second + 1]
                     /\ o.sessions = Cardinality({i \in mine : reached => studied[i].started <= at})
  BY <1>17
<1>15. /\ o.reached => /\ o.time >= 0 /\ o.sessions > 0 /\ u \in simulated
                       /\ Completed(u, o.l2) /\ IsL2Session(u, o.l2)
       /\ o.observed < 0 =>
            /\ ~o.reached
            /\ \A i \in DOMAIN studied : studied[i].user = u /\ SkillOf[studied[i].lab] = skill
                 => OpenSession(i) \/ studied[i].ended < progressOf[u][order[1]].started
  BY <1>10, <1>11, <1>12, <1>13, <1>14
<1> QED BY <1>15

\* Whatever the order of draws, sessions, measures and times, for any learners and labs: a
\* learner whose first reads did not overlap is in one arm throughout, and what the report
\* says of a learner is possible (experiment/assignment.py:60-100, analytics/cohort/service.py).
THEOREM StudyAlwaysSound == StudySpec => []StudySound
<1>1. StudyInv => StudySound
  <2> SUFFICES ASSUME StudyInv PROVE StudySound OBVIOUS
  <2>1. \A u \in Learners \ drifted :
          /\ \A i \in DOMAIN studied :
               studied[i].user = u /\ studied[i].arm = "closed" /\ ~studied[i].draws => userArm[u] = "closed"
          /\ \A k \in DOMAIN measures :
               measures[k].user = u /\ measures[k].base # None => measures[k].base = userArm[u]
    BY DEF StudyInv, ArmsKept, OneArm
  <2> QED BY <2>1, ReportSound DEF StudySound
<1> QED BY <1>1, StudyInitInv, StudyNextInv, PTL DEF StudySpec
-----------------------------------------------------------------------------
(* The pool of connections to GNS3. *)

EntryRows == [key : Credentials, conn : 1 .. MaxConns, used : Nat, checked : Nat]
Working == {"drop", "closing", "look", "checking", "room", "connecting"}
Places == Working \cup {"rest", "queued", "done"}

\* A call's record; what is on its list of idle keys does not matter.
CallOK(r) ==
  /\ r = [pc |-> r.pc, key |-> r.key, lock |-> r.lock, now |-> r.now, todo |-> r.todo, conn |-> r.conn,
          then |-> r.then]
  /\ r.pc \in Places /\ r.key \in Credentials \cup {None} /\ r.lock \in Locks \cup {None} /\ r.now \in Nat
  /\ r.conn \in (1 .. MaxConns) \cup {None} /\ r.then \in {"rest", "drop", "room"}

PoolTyped ==
  /\ entries \in Seq(EntryRows)
  /\ owner \in [1 .. MaxConns -> Credentials \cup {None}]
  /\ lockOf \in [Credentials -> Locks \cup {None}]
  /\ held \in [Locks -> Callers \cup {None}]
  /\ waiting \in [Locks -> Seq(Callers)]
  /\ call = [t \in Callers |-> call[t]] /\ \A t \in Callers : CallOK(call[t])
  /\ running \in Callers \cup {None} /\ poolClock \in Nat /\ suspends \in BOOLEAN

\* A call that works holds the lock of its key, one that waits is in the queue of it, and
\* nobody else holds a lock or is in a queue.
LocksKept ==
  /\ \A t \in Callers :
       /\ call[t].pc \in Working \cup {"queued"} => call[t].key \in Credentials /\ call[t].lock \in Locks
       /\ call[t].pc \in Working => held[call[t].lock] = t
       /\ call[t].pc = "queued" => \E i \in DOMAIN waiting[call[t].lock] : waiting[call[t].lock][i] = t
       /\ call[t].pc \notin Working \cup {"queued"} => call[t].lock = None
  /\ \A l \in Locks : held[l] # None => call[held[l]].lock = l /\ call[held[l]].pc \in Working
  /\ \A l \in Locks : \A i \in DOMAIN waiting[l] :
       /\ call[waiting[l][i]].pc = "queued" /\ call[waiting[l][i]].lock = l
       /\ \A j \in DOMAIN waiting[l] : waiting[l][i] = waiting[l][j] => i = j

\* An entry is of its own key, and its connection is open for that and not being closed.
EntriesKept ==
  /\ \A i, j \in DOMAIN entries : entries[i].key = entries[j].key => i = j
  /\ \A i \in DOMAIN entries : owner[entries[i].conn] = entries[i].key
  /\ \A t \in Callers : call[t].pc = "closing" =>
       /\ call[t].conn # None /\ call[t].then \in {"drop", "room"}
       /\ \A i \in DOMAIN entries : entries[i].conn # call[t].conn

\* Who connects without suspending has the room that was made.
RoomKept ==
  ~suspends => /\ Len(entries) <= PoolSize
               /\ \A t \in Callers : call[t].pc = "connecting" => running = t /\ Len(entries) < PoolSize

PoolInv == PoolTyped /\ LocksKept /\ EntriesKept /\ RoomKept

\* A key is none of those that are not there.
LEMMA PoolNone == /\ None \notin Callers /\ None \notin Credentials /\ None \notin Nat /\ None \notin Locks
                  /\ MaxConns \in Nat /\ PoolSize \in Nat \ {0}
                  /\ Cardinality(Callers) \in Nat /\ Cardinality(Credentials) \in Nat
<1>1. Cardinality(Callers) \in Nat /\ Cardinality(Credentials) \in Nat BY PoolAssumption, FS_CardinalityType
<1>2. \A l \in Locks : l \in Nat BY <1>1 DEF Locks
<1> QED BY <1>1, <1>2, PoolAssumption

\* The entries of the pool are rows, and the keys of the pool theirs.
LEMMA EntriesAre ==
  ASSUME PoolTyped
  PROVE  /\ Len(entries) \in Nat /\ DOMAIN entries = 1 .. Len(entries)
         /\ \A i \in 1 .. Len(entries) : entries[i] \in EntryRows
         /\ \A k : k \in Pooled <=> \E i \in 1 .. Len(entries) : entries[i].key = k
<1>1. entries \in Seq(EntryRows) BY DEF PoolTyped
<1>2. /\ Len(entries) \in Nat /\ DOMAIN entries = 1 .. Len(entries)
      /\ \A i \in 1 .. Len(entries) : entries[i] \in EntryRows
  BY <1>1, LenProperties, ElementOfSeq
<1>3. \A k : k \in Pooled <=> \E i \in 1 .. Len(entries) : entries[i].key = k
  BY <1>2 DEF Pooled, ToSet
<1> QED BY <1>2, <1>3

\* Taking an entry out leaves the others as they were and in their order.
LEMMA RemoveAtIs ==
  ASSUME NEW S, NEW s \in Seq(S), NEW i \in 1 .. Len(s)
  PROVE  /\ RemoveAt(s, i) \in Seq(S) /\ Len(RemoveAt(s, i)) = Len(s) - 1
         /\ \A j \in 1 .. (Len(s) - 1) : RemoveAt(s, i)[j] = s[IF j < i THEN j ELSE j + 1]
<1>0. PICK n, a, b : n = Len(s) /\ a = SubSeq(s, 1, i - 1) /\ b = SubSeq(s, i + 1, n) OBVIOUS
<1>1. n \in Nat /\ \A j \in 1 .. n : s[j] \in S BY <1>0, LenProperties, ElementOfSeq
<1>2. a \in Seq(S) /\ Len(a) = i - 1 /\ \A j \in 1 .. (i - 1) : a[j] = s[j]
  <2>1. \A j \in 1 .. (i - 1) : s[j] \in S BY <1>1
  <2>2. /\ SubSeq(s, 1, i - 1) \in Seq(S) /\ Len(SubSeq(s, 1, i - 1)) = IF 1 <= i - 1 THEN (i - 1) - 1 + 1 ELSE 0
        /\ \A j \in 1 .. ((i - 1) - 1 + 1) : SubSeq(s, 1, i - 1)[j] = s[1 + j - 1]
    BY <1>1, <2>1, SubSeqProperties
  <2>3. \A j \in 1 .. (i - 1) : 1 + j - 1 = j /\ j \in 1 .. ((i - 1) - 1 + 1) BY <1>1
  <2>4. Len(a) = i - 1 BY <1>0, <1>1, <2>2
  <2> QED BY <1>0, <2>2, <2>3, <2>4
<1>3. b \in Seq(S) /\ Len(b) = n - i /\ \A j \in 1 .. (n - i) : b[j] = s[i + j]
  <2>1. \A j \in (i + 1) .. n : s[j] \in S BY <1>1
  <2>2. /\ SubSeq(s, i + 1, n) \in Seq(S)
        /\ Len(SubSeq(s, i + 1, n)) = IF i + 1 <= n THEN n - (i + 1) + 1 ELSE 0
        /\ \A j \in 1 .. (n - (i + 1) + 1) : SubSeq(s, i + 1, n)[j] = s[(i + 1) + j - 1]
    BY <1>1, <2>1, SubSeqProperties
  <2>3. \A j \in 1 .. (n - i) : (i + 1) + j - 1 = i + j /\ j \in 1 .. (n - (i + 1) + 1) BY <1>1
  <2>4. Len(b) = n - i BY <1>0, <1>1, <2>2
  <2> QED BY <1>0, <2>2, <2>3, <2>4
<1>4. /\ a \o b \in Seq(S) /\ Len(a \o b) = Len(a) + Len(b)
      /\ \A j \in 1 .. Len(a) + Len(b) : (a \o b)[j] = IF j <= Len(a) THEN a[j] ELSE b[j - Len(a)]
  BY <1>2, <1>3, ConcatProperties
<1>5. RemoveAt(s, i) = a \o b BY <1>0 DEF RemoveAt
<1>6. Len(a) + Len(b) = n - 1 BY <1>1, <1>2, <1>3
<1>7. ASSUME NEW j \in 1 .. (n - 1) PROVE (a \o b)[j] = s[IF j < i THEN j ELSE j + 1]
  <2>1. (a \o b)[j] = IF j <= Len(a) THEN a[j] ELSE b[j - Len(a)] BY <1>4, <1>6
  <2>2. CASE j < i
    <3>1. j <= Len(a) /\ j \in 1 .. (i - 1) BY <1>1, <1>2, <2>2
    <3> QED BY <1>2, <2>1, <2>2, <3>1
  <2>3. CASE ~(j < i)
    <3>1. ~(j <= Len(a)) /\ j - Len(a) \in 1 .. (n - i) /\ i + (j - Len(a)) = j + 1 BY <1>1, <1>2, <2>3
    <3> QED BY <1>3, <2>1, <2>3, <3>1
  <2> QED BY <2>2, <2>3
<1> QED BY <1>0, <1>4, <1>5, <1>6, <1>7

\* The pool without a key.
LEMMA WithoutIs ==
  ASSUME PoolTyped, NEW k, \A i, j \in DOMAIN entries : entries[i].key = entries[j].key => i = j
  PROVE  /\ Without(k) \in Seq(EntryRows) /\ Len(Without(k)) \in Nat /\ DOMAIN Without(k) = 1 .. Len(Without(k))
         /\ Len(Without(k)) = (IF k \in Pooled THEN Len(entries) - 1 ELSE Len(entries))
         /\ \A i \in DOMAIN Without(k) : Without(k)[i].key # k
                                         /\ \E j \in DOMAIN entries : Without(k)[i] = entries[j]
         /\ \A i, j \in DOMAIN Without(k) : Without(k)[i].key = Without(k)[j].key => i = j
<1> PICK n : n = Len(entries) OBVIOUS
<1>1. n \in Nat /\ DOMAIN entries = 1 .. n /\ (\A k1 : k1 \in Pooled <=> \E i \in 1 .. n : entries[i].key = k1)
      /\ entries \in Seq(EntryRows)
  BY EntriesAre DEF PoolTyped
<1>2. CASE k \notin Pooled
  <2>1. Without(k) = entries BY <1>2 DEF Without
  <2> QED BY <1>1, <1>2, <2>1
<1>3. CASE k \in Pooled
  <2> PICK p, W : p = Position(k) /\ W = Without(k) OBVIOUS
  <2>1. p \in 1 .. n /\ entries[p].key = k BY <1>1, <1>3 DEF Position
  <2>2. W = RemoveAt(entries, p) BY <1>3 DEF Without
  <2>3. /\ W \in Seq(EntryRows) /\ Len(W) = n - 1
        /\ \A j \in 1 .. (n - 1) : W[j] = entries[IF j < p THEN j ELSE j + 1]
    BY <1>1, <2>1, <2>2, RemoveAtIs
  <2>4. DOMAIN W = 1 .. (n - 1) /\ n - 1 \in Nat BY <1>1, <2>1, <2>3, LenProperties
  <2>5. ASSUME NEW i \in 1 .. (n - 1) PROVE W[i].key # k /\ \E j \in DOMAIN entries : W[i] = entries[j]
    <3> PICK j : j = IF i < p THEN i ELSE i + 1 OBVIOUS
    <3>1. j \in 1 .. n /\ j # p BY <1>1, <2>1
    <3>2. W[i] = entries[j] BY <2>3
    <3> QED BY <1>1, <2>1, <3>1, <3>2
  <2>6. ASSUME NEW i \in 1 .. (n - 1), NEW j \in 1 .. (n - 1), W[i].key = W[j].key PROVE i = j
    <3> PICK a, b : a = (IF i < p THEN i ELSE i + 1) /\ b = (IF j < p THEN j ELSE j + 1) OBVIOUS
    <3>1. a \in 1 .. n /\ b \in 1 .. n BY <1>1, <2>1
    <3>2. W[i] = entries[a] /\ W[j] = entries[b] BY <2>3
    <3>3. a = b BY <1>1, <2>6, <3>1, <3>2
    <3> QED BY <1>1, <2>1, <3>3
  <2> QED BY <1>1, <1>3, <2>3, <2>4, <2>5, <2>6
<1> QED BY <1>2, <1>3

\* The entry of a key that is there.
LEMMA EntryIs ==
  ASSUME PoolTyped, NEW k \in Pooled PROVE \E i \in DOMAIN entries : EntryOf(k) = entries[i] /\ entries[i].key = k
<1>1. PICK i \in DOMAIN entries : entries[i].key = k BY EntriesAre
<1>2. entries[i] \in ToSet(entries) BY DEF ToSet
<1>3. EntryOf(k) \in ToSet(entries) /\ EntryOf(k).key = k BY <1>1, <1>2 DEF EntryOf
<1> QED BY <1>3 DEF ToSet

\* A function has no more values than arguments.
LEMMA ImageBound ==
  ASSUME NEW A, IsFiniteSet(A), NEW f
  PROVE  IsFiniteSet({f[x] : x \in A}) /\ Cardinality({f[x] : x \in A}) <= Cardinality(A)
<1> DEFINE T == {f[x] : x \in A}
           g == [x \in A |-> f[x]]
<1>1. g \in [A -> T] OBVIOUS
<1>2. \A y \in T : \E x \in A : g[x] = y OBVIOUS
<1>3. g \in Surjection(A, T) BY <1>1, <1>2 DEF Surjection
<1> QED BY <1>3, FS_Surjection

\* There is a lock that is in no table and that nobody holds or waits for.
LEMMA FreshLockIs ==
  ASSUME PoolInv, NEW t \in Callers, call[t].pc = "rest"
  PROVE  FreshLock \in Locks
<1>0. PICK locks : locks = [u \in Callers |-> call[u].lock] OBVIOUS
<1> DEFINE A == {lockOf[k] : k \in Credentials}
           B == {locks[u] : u \in Callers \ {t}}
           m == Cardinality(Callers)
           n == Cardinality(Credentials)
<1>1. m \in Nat /\ n \in Nat /\ IsFiniteSet(Callers) /\ IsFiniteSet(Credentials) BY PoolNone, PoolAssumption
<1>2. IsFiniteSet(A) /\ Cardinality(A) <= n /\ Cardinality(A) \in Nat BY <1>1, ImageBound, FS_CardinalityType
<1>3. IsFiniteSet(Callers \ {t}) /\ Cardinality(Callers \ {t}) = m - 1 BY <1>1, FS_RemoveElement
<1>4. IsFiniteSet(B) /\ Cardinality(B) <= m - 1 /\ Cardinality(B) \in Nat BY <1>3, ImageBound, FS_CardinalityType
<1>5. IsFiniteSet(A \cup B) /\ Cardinality(A \cup B) < m + n /\ Cardinality(A \cup B) \in Nat
  <2>1. IsFiniteSet(A \cup B) /\ Cardinality(A \cup B) = Cardinality(A) + Cardinality(B) - Cardinality(A \cap B)
    BY <1>2, <1>4, FS_Union
  <2>2. Cardinality(A \cap B) \in Nat BY <1>2, FS_Intersection, FS_CardinalityType
  <2>3. Cardinality(A \cup B) \in Nat BY <2>1, FS_CardinalityType
  <2> HIDE DEF A, B, m, n
  <2> QED BY <1>1, <1>2, <1>4, <2>1, <2>2, <2>3
<1>6. Locks = 1 .. (m + n) /\ Cardinality(Locks) = m + n
  <2>2. Locks = 1 .. (m + n) BY DEF Locks
  <2> HIDE DEF m, n
  <2>3. m + n \in Int BY <1>1
  <2>1. Cardinality(1 .. (m + n)) = IF 1 > m + n THEN 0 ELSE (m + n) - 1 + 1 BY <2>3, FS_Interval
  <2> QED BY <1>1, <2>1, <2>2
<1>7. ~(Locks \subseteq A \cup B)
  <2> SUFFICES ASSUME Locks \subseteq A \cup B PROVE FALSE OBVIOUS
  <2>1. Cardinality(Locks) <= Cardinality(A \cup B) BY <1>5, FS_Subset
  <2> HIDE DEF A, B, m, n
  <2> QED BY <1>1, <1>5, <1>6, <2>1
<1>8. PICK l \in Locks : l \notin A /\ l \notin B BY <1>7
<1>9. \A k \in Credentials : lockOf[k] # l BY <1>8
<1>10. \A u \in Callers \ {t} : call[u].lock # l BY <1>0, <1>8
<1>11. call[t].lock = None BY DEF PoolInv, LocksKept, Working
<1>12. \A u \in Callers : call[u].lock # l BY <1>10, <1>11, PoolNone
<1> QED BY <1>9, <1>12 DEF FreshLock

\* One call goes on to p with the connection c to close or check and what comes after it;
\* its key, its lock and its time are what they were, and no other call moves.
Moved(t, p, c, h) ==
  /\ call' = [u \in Callers |-> call'[u]]
  /\ \A u \in Callers \ {t} : call'[u] = call[u]
  /\ CallOK(call'[t]) /\ call'[t].pc = p /\ call'[t].key = call[t].key /\ call'[t].lock = call[t].lock
  /\ call'[t].now = call[t].now /\ call'[t].conn = c /\ call'[t].then = h

\* The fields of a call that is written whole,
LEMMA CallFields ==
  ASSUME NEW p, NEW k, NEW l, NEW n, NEW d, NEW c, NEW h, NEW r,
         r = [pc |-> p, key |-> k, lock |-> l, now |-> n, todo |-> d, conn |-> c, then |-> h],
         p \in Places, k \in Credentials \cup {None}, l \in Locks \cup {None}, n \in Nat,
         c \in (1 .. MaxConns) \cup {None}, h \in {"rest", "drop", "room"}
  PROVE  CallOK(r) /\ r.pc = p /\ r.key = k /\ r.lock = l /\ r.now = n /\ r.todo = d /\ r.conn = c /\ r.then = h
BY DEF CallOK

\* and of one that goes on.
LEMMA FieldsMove ==
  ASSUME NEW r, CallOK(r), NEW p \in Places, NEW c \in (1 .. MaxConns) \cup {None}, NEW h \in {"rest", "drop", "room"}, NEW d,
         NEW s, s = [pc |-> p, key |-> r.key, lock |-> r.lock, now |-> r.now, todo |-> d, conn |-> c, then |-> h]
  PROVE  CallOK(s) /\ s.pc = p /\ s.key = r.key /\ s.lock = r.lock /\ s.now = r.now /\ s.conn = c /\ s.then = h
BY DEF CallOK

\* A call goes to its next place.
LEMMA GoIs ==
  ASSUME PoolTyped, NEW t \in Callers, NEW p \in Places, call' = [call EXCEPT ![t].pc = p]
  PROVE  Moved(t, p, call[t].conn, call[t].then)
<1> PICK r, s : r = call[t] /\ s = call'[t] OBVIOUS
<1>1. r = [pc |-> r.pc, key |-> r.key, lock |-> r.lock, now |-> r.now, todo |-> r.todo, conn |-> r.conn,
          then |-> r.then] /\ CallOK(r)
  BY DEF PoolTyped, CallOK
<1>2. call' = [u \in Callers |-> call'[u]] /\ (\A u \in Callers \ {t} : call'[u] = call[u]) /\ s = [r EXCEPT !.pc = p]
  BY DEF PoolTyped
<1>3. s = [pc |-> p, key |-> r.key, lock |-> r.lock, now |-> r.now, todo |-> r.todo, conn |-> r.conn, then |-> r.then]
  BY <1>1, <1>2
<1>4. r.conn \in (1 .. MaxConns) \cup {None} /\ r.then \in {"rest", "drop", "room"} BY <1>1 DEF CallOK
<1>5. CallOK(s) /\ s.pc = p /\ s.key = r.key /\ s.lock = r.lock /\ s.now = r.now /\ s.conn = r.conn /\ s.then = r.then
  BY <1>1, <1>3, <1>4, FieldsMove
<1> QED BY <1>2, <1>5 DEF Moved

\* The same for the steps that set more than where the call is.
LEMMA CloseIs ==
  ASSUME PoolTyped, NEW t \in Callers, NEW p \in Places, NEW c \in (1 .. MaxConns) \cup {None}, NEW h \in {"rest", "drop", "room"},
         call' = [call EXCEPT ![t].pc = p, ![t].conn = c, ![t].then = h]
  PROVE  Moved(t, p, c, h)
<1> PICK r, s : r = call[t] /\ s = call'[t] OBVIOUS
<1>1. r = [pc |-> r.pc, key |-> r.key, lock |-> r.lock, now |-> r.now, todo |-> r.todo, conn |-> r.conn,
          then |-> r.then] /\ CallOK(r)
  BY DEF PoolTyped, CallOK
<1>2. call' = [u \in Callers |-> call'[u]] /\ (\A u \in Callers \ {t} : call'[u] = call[u])
      /\ s = [r EXCEPT !.pc = p, !.conn = c, !.then = h]
  BY DEF PoolTyped
<1>3. s = [pc |-> p, key |-> r.key, lock |-> r.lock, now |-> r.now, todo |-> r.todo, conn |-> c, then |-> h]
  BY <1>1, <1>2
<1>5. CallOK(s) /\ s.pc = p /\ s.key = r.key /\ s.lock = r.lock /\ s.now = r.now /\ s.conn = c /\ s.then = h
  BY <1>1, <1>3, FieldsMove
<1> QED BY <1>2, <1>5 DEF Moved

\* A call goes on with another connection.
LEMMA AskIs ==
  ASSUME PoolTyped, NEW t \in Callers, NEW p \in Places, NEW c \in (1 .. MaxConns) \cup {None},
         call' = [call EXCEPT ![t].pc = p, ![t].conn = c]
  PROVE  Moved(t, p, c, call[t].then)
<1> PICK r, s : r = call[t] /\ s = call'[t] OBVIOUS
<1>1. r = [pc |-> r.pc, key |-> r.key, lock |-> r.lock, now |-> r.now, todo |-> r.todo, conn |-> r.conn,
          then |-> r.then] /\ CallOK(r)
  BY DEF PoolTyped, CallOK
<1>2. call' = [u \in Callers |-> call'[u]] /\ (\A u \in Callers \ {t} : call'[u] = call[u])
      /\ s = [r EXCEPT !.pc = p, !.conn = c]
  BY DEF PoolTyped
<1>3. s = [pc |-> p, key |-> r.key, lock |-> r.lock, now |-> r.now, todo |-> r.todo, conn |-> c, then |-> r.then]
  BY <1>1, <1>2
<1>4. r.then \in {"rest", "drop", "room"} BY <1>1 DEF CallOK
<1>5. CallOK(s) /\ s.pc = p /\ s.key = r.key /\ s.lock = r.lock /\ s.now = r.now /\ s.conn = c /\ s.then = r.then
  BY <1>1, <1>3, <1>4, FieldsMove
<1> QED BY <1>2, <1>5 DEF Moved

\* A call has one idle key less to drop.
LEMMA NextKeyIs ==
  ASSUME PoolTyped, NEW t \in Callers, NEW d, call' = [call EXCEPT ![t].todo = d]
  PROVE  Moved(t, call[t].pc, call[t].conn, call[t].then)
<1> PICK r, s : r = call[t] /\ s = call'[t] OBVIOUS
<1>1. r = [pc |-> r.pc, key |-> r.key, lock |-> r.lock, now |-> r.now, todo |-> r.todo, conn |-> r.conn,
          then |-> r.then] /\ CallOK(r)
  BY DEF PoolTyped, CallOK
<1>2. call' = [u \in Callers |-> call'[u]] /\ (\A u \in Callers \ {t} : call'[u] = call[u])
      /\ s = [r EXCEPT !.todo = d]
  BY DEF PoolTyped
<1>3. s = [pc |-> r.pc, key |-> r.key, lock |-> r.lock, now |-> r.now, todo |-> d, conn |-> r.conn, then |-> r.then]
  BY <1>1, <1>2
<1>4. r.pc \in Places /\ r.conn \in (1 .. MaxConns) \cup {None} /\ r.then \in {"rest", "drop", "room"} BY <1>1 DEF CallOK
<1>5. CallOK(s) /\ s.pc = r.pc /\ s.key = r.key /\ s.lock = r.lock /\ s.now = r.now /\ s.conn = r.conn /\ s.then = r.then
  BY <1>1, <1>3, <1>4, FieldsMove
<1> QED BY <1>2, <1>5 DEF Moved

\* A call closes the entry of an idle key.
LEMMA DropIs ==
  ASSUME PoolTyped, NEW t \in Callers, NEW d, NEW c \in (1 .. MaxConns) \cup {None},
         call' = [[call EXCEPT ![t].todo = d] EXCEPT ![t].pc = "closing", ![t].then = "drop", ![t].conn = c]
  PROVE  Moved(t, "closing", c, "drop")
<1> PICK r, s : r = call[t] /\ s = call'[t] OBVIOUS
<1>1. r = [pc |-> r.pc, key |-> r.key, lock |-> r.lock, now |-> r.now, todo |-> r.todo, conn |-> r.conn,
          then |-> r.then] /\ CallOK(r)
  BY DEF PoolTyped, CallOK
<1>2. call' = [u \in Callers |-> call'[u]] /\ (\A u \in Callers \ {t} : call'[u] = call[u])
      /\ s = [[r EXCEPT !.todo = d] EXCEPT !.pc = "closing", !.then = "drop", !.conn = c]
  BY DEF PoolTyped
<1>3. s = [pc |-> "closing", key |-> r.key, lock |-> r.lock, now |-> r.now, todo |-> d, conn |-> c, then |-> "drop"]
  BY <1>1, <1>2
<1>4. "closing" \in Places /\ "drop" \in {"rest", "drop", "room"} BY DEF Places, Working
<1>5. CallOK(s) /\ s.pc = "closing" /\ s.key = r.key /\ s.lock = r.lock /\ s.now = r.now /\ s.conn = c /\ s.then = "drop"
  BY <1>1, <1>3, <1>4, FieldsMove
<1> QED BY <1>2, <1>5 DEF Moved

\* The calls that begin, wait and have returned.
LEMMA DoneIs ==
  ASSUME PoolTyped, NEW t \in Callers, call' = [call EXCEPT ![t] = [AtRest EXCEPT !.pc = "done"]]
  PROVE  /\ call' = [u \in Callers |-> call'[u]] /\ \A u \in Callers \ {t} : call'[u] = call[u]
         /\ CallOK(call'[t]) /\ call'[t].pc = "done" /\ call'[t].lock = None
<1> PICK s : s = call'[t] OBVIOUS
<1>1. call' = [u \in Callers |-> call'[u]] /\ (\A u \in Callers \ {t} : call'[u] = call[u])
      /\ s = [AtRest EXCEPT !.pc = "done"]
  BY DEF PoolTyped
<1>2. s = [pc |-> "done", key |-> None, lock |-> None, now |-> 0, todo |-> <<>>, conn |-> None, then |-> "rest"]
  BY <1>1 DEF AtRest
<1>3. "done" \in Places BY DEF Places
<1>4. CallOK(s) /\ s.pc = "done" /\ s.lock = None BY <1>2, <1>3, CallFields
<1> QED BY <1>1, <1>4

\* A call waits for a lock.
LEMMA QueuedIs ==
  ASSUME PoolTyped, NEW t \in Callers, NEW k \in Credentials, NEW l \in Locks,
         call' = [call EXCEPT ![t] = [AtRest EXCEPT !.pc = "queued", !.key = k, !.lock = l]]
  PROVE  /\ call' = [u \in Callers |-> call'[u]] /\ \A u \in Callers \ {t} : call'[u] = call[u]
         /\ CallOK(call'[t]) /\ call'[t].pc = "queued" /\ call'[t].key = k /\ call'[t].lock = l
<1> PICK s : s = call'[t] OBVIOUS
<1>1. call' = [u \in Callers |-> call'[u]] /\ (\A u \in Callers \ {t} : call'[u] = call[u])
      /\ s = [AtRest EXCEPT !.pc = "queued", !.key = k, !.lock = l]
  BY DEF PoolTyped
<1>2. s = [pc |-> "queued", key |-> k, lock |-> l, now |-> 0, todo |-> <<>>, conn |-> None, then |-> "rest"]
  BY <1>1 DEF AtRest
<1>3. "queued" \in Places BY DEF Places
<1>4. CallOK(s) /\ s.pc = "queued" /\ s.key = k /\ s.lock = l BY <1>2, <1>3, CallFields
<1> QED BY <1>1, <1>4

\* A call has its lock.
LEMMA LockedIs ==
  ASSUME PoolTyped, NEW t \in Callers, NEW k \in Credentials, NEW l \in Locks, Locked(t, k, l)
  PROVE  /\ call' = [u \in Callers |-> call'[u]] /\ \A u \in Callers \ {t} : call'[u] = call[u]
         /\ CallOK(call'[t]) /\ call'[t].pc = "drop" /\ call'[t].key = k /\ call'[t].lock = l
<1> PICK s : s = call'[t] OBVIOUS
<1> PICK d : d = [i \in DOMAIN StaleAt(poolClock) |-> StaleAt(poolClock)[i].key] OBVIOUS
<1>1. call' = [u \in Callers |-> call'[u]] /\ (\A u \in Callers \ {t} : call'[u] = call[u])
      /\ s = [AtRest EXCEPT !.pc = "drop", !.key = k, !.lock = l, !.now = poolClock, !.todo = d]
  BY DEF PoolTyped, Locked
<1>2. s = [pc |-> "drop", key |-> k, lock |-> l, now |-> poolClock, todo |-> d, conn |-> None, then |-> "rest"]
  BY <1>1 DEF AtRest
<1>3. "drop" \in Places /\ poolClock \in Nat BY DEF Places, Working, PoolTyped
<1>4. CallOK(s) /\ s.pc = "drop" /\ s.key = k /\ s.lock = l BY <1>2, <1>3, CallFields
<1> QED BY <1>1, <1>4

\* Only one call has changed.
Others(t) == \A u \in Callers \ {t} : call'[u] = call[u]

\* Who connects without suspending is the one that runs: nobody else's step is a connect.
LEMMA RoomStays ==
  ASSUME PoolInv, NEW t \in Callers, HasTurn(t), Others(t), call'[t].pc # "connecting", suspends' = suspends,
         Len(entries') \in Nat, Len(entries') <= Len(entries)
  PROVE  RoomKept'
<1> SUFFICES ASSUME ~suspends
             PROVE  Len(entries') <= PoolSize
                    /\ \A u \in Callers : call'[u].pc = "connecting" => running' = u /\ Len(entries') < PoolSize
  BY DEF RoomKept
<1>1. Len(entries) <= PoolSize /\ Len(entries) \in Nat /\ PoolSize \in Nat
  BY EntriesAre, PoolNone DEF PoolInv, RoomKept
<1>2. ASSUME NEW u \in Callers, call'[u].pc = "connecting" PROVE FALSE
  <2>1. u # t /\ call[u].pc = "connecting" BY <1>2 DEF Others
  <2>2. running = u BY <2>1 DEF PoolInv, RoomKept
  <2> QED BY <2>1, <2>2, PoolNone DEF HasTurn
<1> QED BY <1>1, <1>2

\* A call that goes on working keeps its lock.
LEMMA LocksStay ==
  ASSUME PoolInv, NEW t \in Callers, Others(t), call[t].pc \in Working, call'[t].pc \in Working,
         call'[t].key = call[t].key, call'[t].lock = call[t].lock, held' = held, waiting' = waiting
  PROVE  LocksKept'
<1> USE DEF LocksKept
<1>1. LocksKept BY DEF PoolInv
<1>2. held \in [Locks -> Callers \cup {None}] /\ waiting \in [Locks -> Seq(Callers)] BY DEF PoolInv, PoolTyped
<1>3. \A u \in Callers : call'[u].key = call[u].key /\ call'[u].lock = call[u].lock
                         /\ (u # t => call'[u].pc = call[u].pc)
  BY DEF Others
<1>4. "queued" \notin Working BY DEF Working
<1>5. ASSUME NEW u \in Callers
      PROVE /\ call'[u].pc \in Working \cup {"queued"} => call'[u].key \in Credentials /\ call'[u].lock \in Locks
            /\ call'[u].pc \in Working => held'[call'[u].lock] = u
            /\ call'[u].pc = "queued" => \E i \in DOMAIN waiting'[call'[u].lock] : waiting'[call'[u].lock][i] = u
            /\ call'[u].pc \notin Working \cup {"queued"} => call'[u].lock = None
  <2>1. CASE u = t BY <1>1, <1>3, <1>4, <2>1
  <2>2. CASE u # t BY <1>1, <1>3, <2>2
  <2> QED BY <2>1, <2>2
<1>6. ASSUME NEW l \in Locks, held'[l] # None PROVE call'[held'[l]].lock = l /\ call'[held'[l]].pc \in Working
  <2>1. held'[l] = held[l] OBVIOUS
  <2>2. held[l] \in Callers /\ call[held[l]].lock = l /\ call[held[l]].pc \in Working BY <1>1, <1>2, <1>6, <2>1
  <2>3. call'[held[l]].lock = l /\ call'[held[l]].pc \in Working
    <3>1. CASE held[l] = t BY <1>3, <2>2, <3>1
    <3>2. CASE held[l] # t BY <1>3, <2>2, <3>2
    <3> QED BY <3>1, <3>2
  <2> QED BY <2>1, <2>3
<1>7. ASSUME NEW l \in Locks, NEW i \in DOMAIN waiting'[l]
      PROVE /\ call'[waiting'[l][i]].pc = "queued" /\ call'[waiting'[l][i]].lock = l
            /\ \A j \in DOMAIN waiting'[l] : waiting'[l][i] = waiting'[l][j] => i = j
  <2>1. waiting[l][i] \in Callers BY <1>2, <1>7, ElementOfSeq, LenProperties
  <2>2. call[waiting[l][i]].pc = "queued" /\ call[waiting[l][i]].lock = l
        /\ \A j \in DOMAIN waiting[l] : waiting[l][i] = waiting[l][j] => i = j
    BY <1>1, <1>7
  <2>3. waiting[l][i] # t BY <1>4, <2>2
  <2> QED BY <1>3, <2>1, <2>2, <2>3
<1> QED BY <1>5, <1>6, <1>7

\* A call that returns gives its lock back.
LEMMA LocksReturned ==
  ASSUME PoolInv, NEW t \in Callers, call[t].pc \in Working, Return(t), waiting' = waiting
  PROVE  LocksKept'
<1> USE DEF LocksKept
<1>1. LocksKept BY DEF PoolInv
<1>2. held \in [Locks -> Callers \cup {None}] /\ waiting \in [Locks -> Seq(Callers)] BY DEF PoolInv, PoolTyped
<1>3. (\A u \in Callers \ {t} : call'[u] = call[u]) /\ call'[t].pc = "done" /\ call'[t].lock = None
  BY DoneIs DEF PoolInv, Return
<1>4. "queued" \notin Working /\ "done" \notin Working BY DEF Working
<1> PICK m : m = call[t].lock OBVIOUS
<1>5. m \in Locks /\ held[m] = t /\ held' = [held EXCEPT ![m] = None] BY <1>1 DEF Return
<1>6. ASSUME NEW u \in Callers
      PROVE /\ call'[u].pc \in Working \cup {"queued"} => call'[u].key \in Credentials /\ call'[u].lock \in Locks
            /\ call'[u].pc \in Working => held'[call'[u].lock] = u
            /\ call'[u].pc = "queued" => \E i \in DOMAIN waiting'[call'[u].lock] : waiting'[call'[u].lock][i] = u
            /\ call'[u].pc \notin Working \cup {"queued"} => call'[u].lock = None
  <2>1. CASE u = t BY <1>3, <1>4, <2>1
  <2>2. CASE u # t
    <3>1. call'[u] = call[u] BY <1>3, <2>2
    <3>2. call[u].pc \in Working => call[u].lock \in Locks /\ held[call[u].lock] = u /\ call[u].lock # m
      BY <1>1, <1>5, <2>2
    <3>3. call[u].pc \in Working => held'[call[u].lock] = u BY <1>2, <1>5, <3>2
    <3> QED BY <1>1, <3>1, <3>3
  <2> QED BY <2>1, <2>2
<1>7. ASSUME NEW l \in Locks, held'[l] # None PROVE call'[held'[l]].lock = l /\ call'[held'[l]].pc \in Working
  <2>1. l # m /\ held'[l] = held[l] BY <1>2, <1>5, <1>7
  <2>2. held[l] \in Callers /\ call[held[l]].lock = l /\ call[held[l]].pc \in Working BY <1>1, <1>2, <1>7, <2>1
  <2>3. held[l] # t BY <2>1, <2>2
  <2> QED BY <1>3, <2>1, <2>2, <2>3
<1>8. ASSUME NEW l \in Locks, NEW i \in DOMAIN waiting'[l]
      PROVE /\ call'[waiting'[l][i]].pc = "queued" /\ call'[waiting'[l][i]].lock = l
            /\ \A j \in DOMAIN waiting'[l] : waiting'[l][i] = waiting'[l][j] => i = j
  <2>1. waiting[l][i] \in Callers BY <1>2, <1>8, ElementOfSeq, LenProperties
  <2>2. call[waiting[l][i]].pc = "queued" /\ call[waiting[l][i]].lock = l
        /\ \A j \in DOMAIN waiting[l] : waiting[l][i] = waiting[l][j] => i = j
    BY <1>1, <1>8
  <2>3. waiting[l][i] # t BY <1>4, <2>2
  <2> QED BY <1>3, <2>1, <2>2, <2>3
<1> QED BY <1>6, <1>7, <1>8

\* A queue where t stands no longer, and everybody else as before.
Leaves(t) ==
  /\ \A l \in Locks : \A i, j \in DOMAIN waiting'[l] : waiting'[l][i] = waiting'[l][j] => i = j
  /\ \A l \in Locks : \A i \in DOMAIN waiting'[l] :
       waiting'[l][i] # t /\ \E j \in DOMAIN waiting[l] : waiting[l][j] = waiting'[l][i]
  /\ \A l \in Locks : \A i \in DOMAIN waiting[l] :
       waiting[l][i] # t => \E j \in DOMAIN waiting'[l] : waiting'[l][j] = waiting[l][i]

\* A call takes a lock that is free.
LEMMA LocksTaken ==
  ASSUME PoolInv, NEW t \in Callers, NEW k \in Credentials, NEW m \in Locks, call[t].pc \in {"rest", "queued"},
         Locked(t, k, m), held[m] = None, Leaves(t)
  PROVE  LocksKept'
<1> USE DEF LocksKept
<1>1. LocksKept BY DEF PoolInv
<1>2. held \in [Locks -> Callers \cup {None}] /\ waiting \in [Locks -> Seq(Callers)] BY DEF PoolInv, PoolTyped
<1>3. (\A u \in Callers \ {t} : call'[u] = call[u]) /\ call'[t].pc = "drop" /\ call'[t].lock = m /\ call'[t].key = k
  BY LockedIs DEF PoolInv
<1>4. "queued" \notin Working /\ "rest" \notin Working /\ "drop" \in Working BY DEF Working
<1>5. held' = [held EXCEPT ![m] = t] BY DEF Locked
<1>6. ASSUME NEW u \in Callers
      PROVE /\ call'[u].pc \in Working \cup {"queued"} => call'[u].key \in Credentials /\ call'[u].lock \in Locks
            /\ call'[u].pc \in Working => held'[call'[u].lock] = u
            /\ call'[u].pc = "queued" => \E i \in DOMAIN waiting'[call'[u].lock] : waiting'[call'[u].lock][i] = u
            /\ call'[u].pc \notin Working \cup {"queued"} => call'[u].lock = None
  <2>1. CASE u = t BY <1>2, <1>3, <1>4, <1>5, <2>1
  <2>2. CASE u # t
    <3>1. call'[u] = call[u] BY <1>3, <2>2
    <3>2. call[u].pc \in Working => call[u].lock \in Locks /\ held[call[u].lock] = u /\ call[u].lock # m
      BY <1>1, PoolNone
    <3>3. call[u].pc \in Working => held'[call[u].lock] = u BY <1>2, <1>5, <3>2
    <3>4. call[u].pc = "queued" => \E i \in DOMAIN waiting'[call[u].lock] : waiting'[call[u].lock][i] = u
      BY <1>1, <2>2 DEF Leaves
    <3> QED BY <1>1, <3>1, <3>3, <3>4
  <2> QED BY <2>1, <2>2
<1>7. ASSUME NEW l \in Locks, held'[l] # None PROVE call'[held'[l]].lock = l /\ call'[held'[l]].pc \in Working
  <2>1. CASE l = m BY <1>2, <1>3, <1>4, <1>5, <2>1
  <2>2. CASE l # m
    <3>1. held'[l] = held[l] BY <1>2, <1>5, <2>2
    <3>2. held[l] \in Callers /\ call[held[l]].lock = l /\ call[held[l]].pc \in Working BY <1>1, <1>2, <1>7, <3>1
    <3>3. held[l] # t BY <1>4, <3>2
    <3> QED BY <1>3, <3>1, <3>2, <3>3
  <2> QED BY <2>1, <2>2
<1>8. ASSUME NEW l \in Locks, NEW i \in DOMAIN waiting'[l]
      PROVE /\ call'[waiting'[l][i]].pc = "queued" /\ call'[waiting'[l][i]].lock = l
            /\ \A j \in DOMAIN waiting'[l] : waiting'[l][i] = waiting'[l][j] => i = j
  <2>1. PICK j \in DOMAIN waiting[l] : waiting[l][j] = waiting'[l][i] BY <1>8 DEF Leaves
  <2>2. waiting[l][j] \in Callers BY <1>2, ElementOfSeq, LenProperties
  <2>3. call[waiting[l][j]].pc = "queued" /\ call[waiting[l][j]].lock = l BY <1>1
  <2>4. waiting'[l][i] # t BY <1>8 DEF Leaves
  <2>5. call'[waiting'[l][i]].pc = "queued" /\ call'[waiting'[l][i]].lock = l BY <1>3, <2>1, <2>2, <2>3, <2>4
  <2> QED BY <1>8, <2>5 DEF Leaves
<1> QED BY <1>6, <1>7, <1>8

\* A call that is at rest joins the end of a queue.
LEMMA LocksQueued ==
  ASSUME PoolInv, NEW t \in Callers, NEW k \in Credentials, NEW m \in Locks, call[t].pc = "rest",
         call' = [call EXCEPT ![t] = [AtRest EXCEPT !.pc = "queued", !.key = k, !.lock = m]],
         waiting' = [waiting EXCEPT ![m] = Append(waiting[m], t)], held' = held
  PROVE  LocksKept'
<1> USE DEF LocksKept
<1>1. LocksKept BY DEF PoolInv
<1>2. held \in [Locks -> Callers \cup {None}] /\ waiting \in [Locks -> Seq(Callers)] BY DEF PoolInv, PoolTyped
<1>3. (\A u \in Callers \ {t} : call'[u] = call[u]) /\ call'[t].pc = "queued" /\ call'[t].lock = m /\ call'[t].key = k
  <2>1. PoolTyped BY DEF PoolInv
  <2> QED BY <2>1, QueuedIs
<1>4. "queued" \notin Working /\ "rest" \notin Working BY DEF Working
<1> PICK n : n = Len(waiting[m]) OBVIOUS
<1>5. n \in Nat /\ DOMAIN waiting[m] = 1 .. n /\ DOMAIN waiting'[m] = 1 .. (n + 1)
      /\ (\A i \in 1 .. n : waiting'[m][i] = waiting[m][i]) /\ waiting'[m][n + 1] = t
      /\ \A l \in Locks \ {m} : waiting'[l] = waiting[l]
  <2>1. waiting[m] \in Seq(Callers) BY <1>2
  <2>2. waiting'[m] = Append(waiting[m], t) /\ \A l \in Locks \ {m} : waiting'[l] = waiting[l] BY <1>2
  <2>3. /\ waiting'[m] \in Seq(Callers) /\ Len(waiting'[m]) = n + 1
        /\ (\A i \in 1 .. n : waiting'[m][i] = waiting[m][i]) /\ waiting'[m][n + 1] = t
    BY <2>1, <2>2, AppendProperties
  <2> QED BY <2>1, <2>2, <2>3, LenProperties
<1>6. \A l \in Locks : \A i \in DOMAIN waiting[l] : waiting[l][i] \in Callers /\ waiting[l][i] # t
  <2> SUFFICES ASSUME NEW l \in Locks, NEW i \in DOMAIN waiting[l] PROVE waiting[l][i] \in Callers /\ waiting[l][i] # t
    OBVIOUS
  <2>1. waiting[l][i] \in Callers BY <1>2, ElementOfSeq, LenProperties
  <2>2. call[waiting[l][i]].pc = "queued" BY <1>1
  <2> QED BY <2>1, <2>2
<1>7. ASSUME NEW u \in Callers
      PROVE /\ call'[u].pc \in Working \cup {"queued"} => call'[u].key \in Credentials /\ call'[u].lock \in Locks
            /\ call'[u].pc \in Working => held'[call'[u].lock] = u
            /\ call'[u].pc = "queued" => \E i \in DOMAIN waiting'[call'[u].lock] : waiting'[call'[u].lock][i] = u
            /\ call'[u].pc \notin Working \cup {"queued"} => call'[u].lock = None
  <2>1. CASE u = t
    <3>1. \E i \in DOMAIN waiting'[m] : waiting'[m][i] = t BY <1>5
    <3> QED BY <1>3, <1>4, <2>1, <3>1
  <2>2. CASE u # t
    <3>1. call'[u] = call[u] BY <1>3, <2>2
    <3>2. ASSUME call[u].pc = "queued" PROVE \E i \in DOMAIN waiting'[call[u].lock] : waiting'[call[u].lock][i] = u
      <4>1. call[u].lock \in Locks /\ \E i \in DOMAIN waiting[call[u].lock] : waiting[call[u].lock][i] = u
        BY <1>1, <3>2
      <4>2. CASE call[u].lock = m BY <1>5, <4>1, <4>2
      <4>3. CASE call[u].lock # m BY <1>5, <4>1, <4>3
      <4> QED BY <4>2, <4>3
    <3>3. /\ call[u].pc \in Working \cup {"queued"} => call[u].key \in Credentials /\ call[u].lock \in Locks
          /\ call[u].pc \in Working => held[call[u].lock] = u
          /\ call[u].pc \notin Working \cup {"queued"} => call[u].lock = None
      BY <1>1
    <3> QED BY <3>1, <3>2, <3>3
  <2> QED BY <2>1, <2>2
<1>8. ASSUME NEW l \in Locks, held'[l] # None PROVE call'[held'[l]].lock = l /\ call'[held'[l]].pc \in Working
  <2>1. held[l] \in Callers /\ call[held[l]].lock = l /\ call[held[l]].pc \in Working BY <1>1, <1>2, <1>8
  <2>2. held[l] # t BY <1>4, <2>1
  <2> QED BY <1>3, <2>1, <2>2
<1>9. ASSUME NEW l \in Locks, NEW i \in DOMAIN waiting'[l]
      PROVE /\ call'[waiting'[l][i]].pc = "queued" /\ call'[waiting'[l][i]].lock = l
            /\ \A j \in DOMAIN waiting'[l] : waiting'[l][i] = waiting'[l][j] => i = j
  <2>1. CASE l # m
    <3>1. waiting'[l] = waiting[l] BY <1>5, <2>1
    <3>2. i \in DOMAIN waiting[l] BY <1>9, <3>1
    <3>3. call[waiting[l][i]].pc = "queued" /\ call[waiting[l][i]].lock = l
          /\ \A j \in DOMAIN waiting[l] : waiting[l][i] = waiting[l][j] => i = j
      BY <1>1, <3>2
    <3>4. call'[waiting[l][i]] = call[waiting[l][i]] BY <1>3, <1>6, <3>2
    <3> QED BY <3>1, <3>3, <3>4
  <2>2. CASE l = m
    <3>1. i \in 1 .. (n + 1) BY <1>5, <1>9, <2>2
    <3>2. ASSUME i # n + 1
          PROVE i \in 1 .. n /\ waiting'[m][i] = waiting[m][i] /\ waiting[m][i] # t /\ call'[waiting[m][i]] = call[waiting[m][i]]
      <4>1. i \in 1 .. n BY <1>5, <3>1, <3>2
      <4> QED BY <1>3, <1>5, <1>6, <4>1
    <3>3. call'[waiting'[m][i]].pc = "queued" /\ call'[waiting'[m][i]].lock = m
      <4>1. CASE i = n + 1 BY <1>3, <1>5, <4>1
      <4>2. CASE i # n + 1 BY <1>1, <1>5, <3>2, <4>2
      <4> QED BY <4>1, <4>2
    <3>4. ASSUME NEW j \in 1 .. (n + 1), waiting'[m][i] = waiting'[m][j] PROVE i = j
      <4>1. j # n + 1 => j \in 1 .. n /\ waiting'[m][j] = waiting[m][j] /\ waiting[m][j] # t BY <1>5, <1>6
      <4>2. CASE i = n + 1 BY <1>5, <3>4, <4>1, <4>2
      <4>3. CASE i # n + 1 /\ j = n + 1 BY <1>5, <3>2, <3>4, <4>3
      <4>4. CASE i # n + 1 /\ j # n + 1
        <5>1. i \in DOMAIN waiting[m] /\ j \in DOMAIN waiting[m] /\ waiting[m][i] = waiting[m][j]
          BY <1>5, <3>2, <3>4, <4>1, <4>4
        <5> QED BY <1>1, <5>1
      <4> QED BY <4>2, <4>3, <4>4
    <3> QED BY <1>5, <2>2, <3>3, <3>4
  <2> QED BY <2>1, <2>2
<1> QED BY <1>7, <1>8, <1>9

\* The entries are untouched by a step that closes nothing.
LEMMA EntriesStay ==
  ASSUME PoolInv, NEW t \in Callers, Others(t), call'[t].pc # "closing", entries' = entries, owner' = owner
  PROVE  EntriesKept'
BY DEF PoolInv, EntriesKept, Others

\* An entry is taken out to be closed.
LEMMA EntriesClosed ==
  ASSUME PoolInv, NEW t \in Callers, Others(t), NEW k \in Pooled, entries' = Without(k), owner' = owner,
         call'[t].pc = "closing", call'[t].conn = EntryOf(k).conn, call'[t].then \in {"drop", "room"}
  PROVE  EntriesKept' /\ entries' \in Seq(EntryRows) /\ Len(entries') \in Nat /\ Len(entries') = Len(entries) - 1
<1>0. PICK W, c : W = Without(k) /\ c = EntryOf(k).conn OBVIOUS
<1>1. EntriesKept /\ PoolTyped BY DEF PoolInv
<1>2. /\ W \in Seq(EntryRows) /\ Len(W) \in Nat /\ Len(W) = Len(entries) - 1
      /\ \A i \in DOMAIN W : W[i].key # k /\ \E j \in DOMAIN entries : W[i] = entries[j]
      /\ \A i, j \in DOMAIN W : W[i].key = W[j].key => i = j
  BY <1>0, <1>1, WithoutIs DEF EntriesKept
<1>3. PICK p \in DOMAIN entries : EntryOf(k) = entries[p] /\ entries[p].key = k BY <1>1, EntryIs
<1>4. entries[p] \in EntryRows BY <1>1, EntriesAre
<1>5. c \in 1 .. MaxConns /\ owner[c] = k /\ c # None
  BY <1>0, <1>1, <1>3, <1>4, PoolNone DEF EntriesKept, EntryRows
<1>6. \A i \in DOMAIN W : owner[W[i].conn] = W[i].key /\ W[i].conn # c BY <1>1, <1>2, <1>5 DEF EntriesKept
<1>7. ASSUME NEW u \in Callers, call'[u].pc = "closing"
      PROVE /\ call'[u].conn # None /\ call'[u].then \in {"drop", "room"}
            /\ \A i \in DOMAIN W : W[i].conn # call'[u].conn
  <2>1. CASE u = t BY <1>0, <1>5, <1>6, <2>1
  <2>2. CASE u # t
    <3>1. call'[u] = call[u] BY <2>2 DEF Others
    <3> QED BY <1>1, <1>2, <1>7, <3>1 DEF EntriesKept
  <2> QED BY <2>1, <2>2
<1>8. entries' = W BY <1>0
<1> QED BY <1>2, <1>6, <1>7, <1>8 DEF EntriesKept

\* An entry is put at the end of the pool in place of any other of its key.
LEMMA EntriesPut ==
  ASSUME PoolInv, NEW t \in Callers, Others(t), call'[t].pc # "closing", NEW e \in EntryRows,
         entries' = Append(Without(e.key), e), owner'[e.conn] = e.key,
         \A i \in DOMAIN entries : entries[i].key # e.key => owner'[entries[i].conn] = owner[entries[i].conn],
         \A u \in Callers \ {t} : call[u].pc = "closing" => call[u].conn # e.conn
  PROVE  /\ EntriesKept' /\ entries' \in Seq(EntryRows) /\ Len(entries') \in Nat
         /\ Len(entries') = (IF e.key \in Pooled THEN Len(entries) ELSE Len(entries) + 1)
<1>0. PICK W, n, k : W = Without(e.key) /\ n = Len(W) /\ k = e.key OBVIOUS
<1>1. EntriesKept /\ PoolTyped BY DEF PoolInv
<1>2. /\ W \in Seq(EntryRows) /\ n \in Nat /\ n = (IF e.key \in Pooled THEN Len(entries) - 1 ELSE Len(entries))
      /\ DOMAIN W = 1 .. n
      /\ \A i \in DOMAIN W : W[i].key # k /\ \E j \in DOMAIN entries : W[i] = entries[j]
      /\ \A i, j \in DOMAIN W : W[i].key = W[j].key => i = j
  BY <1>0, <1>1, WithoutIs DEF EntriesKept
<1>3. entries' = Append(W, e) BY <1>0
<1>4. /\ entries' \in Seq(EntryRows) /\ Len(entries') = n + 1 /\ DOMAIN entries' = 1 .. (n + 1)
      /\ (\A i \in 1 .. n : entries'[i] = W[i]) /\ entries'[n + 1] = e
  BY <1>0, <1>2, <1>3, AppendProperties, LenProperties
<1>5. Len(entries) \in Nat BY <1>1, EntriesAre
<1>6. ASSUME NEW i \in 1 .. (n + 1), NEW j \in 1 .. (n + 1), entries'[i].key = entries'[j].key PROVE i = j
  <2>1. i # n + 1 => i \in 1 .. n BY <1>2
  <2>2. j # n + 1 => j \in 1 .. n BY <1>2
  <2>3. i # n + 1 => entries'[i] = W[i] /\ W[i].key # k BY <1>2, <1>4, <2>1
  <2>4. j # n + 1 => entries'[j] = W[j] /\ W[j].key # k BY <1>2, <1>4, <2>2
  <2>5. CASE i = n + 1 BY <1>0, <1>4, <1>6, <2>4, <2>5
  <2>6. CASE i # n + 1 /\ j = n + 1 BY <1>0, <1>4, <1>6, <2>3, <2>6
  <2>7. CASE i # n + 1 /\ j # n + 1 BY <1>2, <1>6, <2>1, <2>2, <2>3, <2>4, <2>7
  <2> QED BY <2>5, <2>6, <2>7
<1>7. ASSUME NEW i \in 1 .. (n + 1)
      PROVE owner'[entries'[i].conn] = entries'[i].key
            /\ \A u \in Callers : call'[u].pc = "closing" => entries'[i].conn # call'[u].conn
  <2>1. CASE i = n + 1 BY <1>4, <2>1 DEF Others
  <2>2. CASE i # n + 1
    <3>1. i \in 1 .. n BY <1>2, <2>2
    <3>2. PICK j \in DOMAIN entries : W[i] = entries[j] /\ entries[j].key # k BY <1>2, <3>1
    <3>3. entries'[i] = entries[j] BY <1>4, <3>1, <3>2
    <3>4. owner[entries[j].conn] = entries[j].key BY <1>1 DEF EntriesKept
    <3>5. owner'[entries[j].conn] = owner[entries[j].conn] BY <1>0, <3>2
    <3>6. \A u \in Callers : call'[u].pc = "closing" => entries[j].conn # call'[u].conn BY <1>1 DEF EntriesKept, Others
    <3> QED BY <3>3, <3>4, <3>5, <3>6
  <2> QED BY <2>1, <2>2
<1>8. \A u \in Callers : call'[u].pc = "closing" => call'[u].conn # None /\ call'[u].then \in {"drop", "room"}
  BY <1>1 DEF EntriesKept, Others
<1> QED BY <1>2, <1>4, <1>5, <1>6, <1>7, <1>8 DEF EntriesKept

\* What is stored keeps its type.
LEMMA TypedStays ==
  ASSUME PoolInv, NEW t \in Callers, Others(t), call' = [u \in Callers |-> call'[u]], CallOK(call'[t]),
         entries' \in Seq(EntryRows), owner' \in [1 .. MaxConns -> Credentials \cup {None}],
         lockOf' \in [Credentials -> Locks \cup {None}], held' \in [Locks -> Callers \cup {None}],
         waiting' \in [Locks -> Seq(Callers)], running' \in Callers \cup {None}, poolClock' = poolClock, suspends' = suspends
  PROVE  PoolTyped'
<1>1. PoolTyped BY DEF PoolInv
<1>2. \A u \in Callers : CallOK(call'[u])
  <2> SUFFICES ASSUME NEW u \in Callers PROVE CallOK(call'[u]) OBVIOUS
  <2>1. CASE u = t BY <2>1
  <2>2. CASE u # t
    <3>1. call'[u] = call[u] BY <2>2 DEF Others
    <3> QED BY <1>1, <3>1 DEF PoolTyped
  <2> QED BY <2>1, <2>2
<1> QED BY <1>1, <1>2 DEF PoolTyped

\* A step within a call that leaves the pool as it is.
LEMMA WorkStep ==
  ASSUME PoolInv, NEW t \in Callers, HasTurn(t), NEW p \in Working \ {"connecting", "closing"}, call[t].pc \in Working,
         \E c, h : Moved(t, p, c, h), UNCHANGED <<entries, owner, held, waiting, poolClock, suspends>>,
         lockOf' \in [Credentials -> Locks \cup {None}], running' \in Callers \cup {None}
  PROVE  PoolInv'
<1>1. PICK c, h : Moved(t, p, c, h) OBVIOUS
<1>2. /\ Others(t) /\ call' = [u \in Callers |-> call'[u]] /\ CallOK(call'[t]) /\ call'[t].pc = p
      /\ call'[t].key = call[t].key /\ call'[t].lock = call[t].lock
  BY <1>1 DEF Moved, Others
<1>3. PoolTyped BY DEF PoolInv
<1>4. PoolTyped' BY <1>2, <1>3, TypedStays DEF PoolTyped
<1>5. LocksKept' BY <1>2, LocksStay
<1>6. EntriesKept' BY <1>2, EntriesStay
<1>7. Len(entries) \in Nat BY <1>3, EntriesAre
<1>8. RoomKept' BY <1>2, <1>7, RoomStays
<1> QED BY <1>4, <1>5, <1>6, <1>8 DEF PoolInv

\* A step that takes an entry out to close its connection.
LEMMA CloseStep ==
  ASSUME PoolInv, NEW t \in Callers, HasTurn(t), NEW k \in Pooled, NEW h \in {"drop", "room"}, call[t].pc \in Working,
         Moved(t, "closing", EntryOf(k).conn, h), entries' = Without(k), running' = None,
         UNCHANGED <<owner, lockOf, held, waiting, poolClock, suspends>>
  PROVE  PoolInv'
<1>2. /\ Others(t) /\ call' = [u \in Callers |-> call'[u]] /\ CallOK(call'[t]) /\ call'[t].pc = "closing"
      /\ call'[t].key = call[t].key /\ call'[t].lock = call[t].lock /\ call'[t].conn = EntryOf(k).conn /\ call'[t].then = h
  BY DEF Moved, Others
<1>3. PoolTyped /\ "closing" \in Working BY DEF PoolInv, Working
<1>4. EntriesKept' /\ entries' \in Seq(EntryRows) /\ Len(entries') \in Nat /\ Len(entries') = Len(entries) - 1
  BY <1>2, EntriesClosed
<1>5. PoolTyped' BY <1>2, <1>3, <1>4, TypedStays DEF PoolTyped
<1>6. LocksKept' BY <1>2, <1>3, LocksStay
<1>7. Len(entries) \in Nat /\ Len(entries') <= Len(entries) BY <1>3, <1>4, EntriesAre
<1>8. RoomKept' BY <1>2, <1>4, <1>7, RoomStays
<1> QED BY <1>4, <1>5, <1>6, <1>8 DEF PoolInv

\* The connection of an entry of the pool.
LEMMA EntryHas ==
  ASSUME PoolInv, NEW k \in Pooled
  PROVE  EntryOf(k) \in EntryRows /\ EntryOf(k).key = k /\ EntryOf(k).conn \in 1 .. MaxConns /\ owner[EntryOf(k).conn] = k
         /\ k \in Credentials
<1>1. PICK i \in DOMAIN entries : EntryOf(k) = entries[i] /\ entries[i].key = k BY EntryIs DEF PoolInv
<1>2. entries[i] \in EntryRows BY EntriesAre DEF PoolInv
<1>3. owner[entries[i].conn] = entries[i].key BY DEF PoolInv, EntriesKept
<1> QED BY <1>1, <1>2, <1>3 DEF EntryRows

\* The close of a key: its entry if there is one, else the call goes on at once.
LEMMA CloseKeyKeeps ==
  ASSUME PoolInv, NEW t \in Callers, HasTurn(t), call[t].pc \in Working, NEW k, NEW h \in {"drop", "room"},
         CloseKey(t, k, h), UNCHANGED <<owner, lockOf, held, waiting, poolClock, suspends>>
  PROVE  PoolInv'
<1>1. PoolTyped /\ lockOf \in [Credentials -> Locks \cup {None}] BY DEF PoolInv, PoolTyped
<1>2. h \in Places /\ h \in {"rest", "drop", "room"} /\ h \in Working \ {"connecting", "closing"} /\ "closing" \in Places
  BY DEF Places, Working
<1>3. CASE k \in Pooled
  <2>0. PICK c : c = EntryOf(k).conn OBVIOUS
  <2>1. c \in 1 .. MaxConns BY <1>3, <2>0, EntryHas
  <2>2. call' = [call EXCEPT ![t].pc = "closing", ![t].conn = c, ![t].then = h] /\ entries' = Without(k) /\ running' = None
    BY <1>3, <2>0 DEF CloseKey
  <2>3. Moved(t, "closing", c, h) BY <1>1, <1>2, <2>1, <2>2, CloseIs
  <2>4. Moved(t, "closing", EntryOf(k).conn, h) BY <2>0, <2>3
  <2> QED BY <1>3, <2>2, <2>4, CloseStep
<1>4. CASE k \notin Pooled
  <2>1. call' = [call EXCEPT ![t].pc = h] /\ running' = t /\ entries' = entries BY <1>4 DEF CloseKey
  <2>2. Moved(t, h, call[t].conn, call[t].then) BY <1>1, <1>2, <2>1, GoIs
  <2>3. \E c1, h1 : Moved(t, h, c1, h1) BY <2>2
  <2> QED BY <1>1, <1>2, <2>1, <2>3, WorkStep
<1> QED BY <1>3, <1>4

\* Each step of a call keeps the pool in order.  The idle keys:
LEMMA DropIdleKeeps == ASSUME PoolInv, NEW t \in Callers, DropIdle(t) PROVE PoolInv'
<1>1. PoolTyped /\ lockOf \in [Credentials -> Locks \cup {None}] BY DEF PoolInv, PoolTyped
<1>2. HasTurn(t) /\ call[t].pc = "drop" /\ UNCHANGED <<owner, lockOf, held, waiting, poolClock, suspends>> BY DEF DropIdle, In
<1>3. "drop" \in Working \ {"connecting", "closing"} BY DEF Working
<1>4. PICK k, d : k = Head(call[t].todo) /\ d = Tail(call[t].todo) OBVIOUS
<1>5. [call EXCEPT ![t].todo = Tail(@)] = [call EXCEPT ![t].todo = d] BY <1>4
<1>6. CASE k \in Pooled
  <2>0. PICK c : c = EntryOf(k).conn OBVIOUS
  <2>1. c \in 1 .. MaxConns BY <1>6, <2>0, EntryHas
  <2>2. /\ call' = [[call EXCEPT ![t].todo = d] EXCEPT ![t].pc = "closing", ![t].then = "drop", ![t].conn = c]
        /\ entries' = Without(k) /\ running' = None
    BY <1>4, <1>5, <1>6, <2>0 DEF DropIdle
  <2>3. Moved(t, "closing", c, "drop") BY <1>1, <2>1, <2>2, DropIs
  <2>4. Moved(t, "closing", EntryOf(k).conn, "drop") BY <2>0, <2>3
  <2> QED BY <1>2, <1>3, <1>6, <2>2, <2>4, CloseStep
<1>7. CASE k \notin Pooled
  <2>1. call' = [call EXCEPT ![t].todo = d] /\ running' = t /\ entries' = entries BY <1>4, <1>5, <1>7 DEF DropIdle
  <2>2. Moved(t, call[t].pc, call[t].conn, call[t].then) BY <1>1, <2>1, NextKeyIs
  <2>3. \E c1, h1 : Moved(t, "drop", c1, h1) BY <1>2, <2>2
  <2> QED BY <1>1, <1>2, <1>3, <2>1, <2>3, WorkStep
<1> QED BY <1>6, <1>7

\* the locks that nobody holds:
LEMMA PruneLocksKeeps == ASSUME PoolInv, NEW t \in Callers, PruneLocks(t) PROVE PoolInv'
<1>1. PoolTyped /\ lockOf \in [Credentials -> Locks \cup {None}] BY DEF PoolInv, PoolTyped
<1>2. /\ HasTurn(t) /\ call[t].pc = "drop" /\ UNCHANGED <<entries, owner, held, waiting, poolClock, suspends>>
      /\ call' = [call EXCEPT ![t].pc = "look"] /\ running' = t
      /\ lockOf' = [k \in Credentials |-> IF Prunable(k) THEN None ELSE lockOf[k]]
  BY DEF PruneLocks, In, Go
<1>3. lockOf' \in [Credentials -> Locks \cup {None}] BY <1>1, <1>2
<1>4. "look" \in Places /\ "look" \in Working \ {"connecting", "closing"} /\ "drop" \in Working BY DEF Places, Working
<1>5. Moved(t, "look", call[t].conn, call[t].then) BY <1>1, <1>2, <1>4, GoIs
<1>6. \E c1, h1 : Moved(t, "look", c1, h1) BY <1>5
<1> QED BY <1>2, <1>3, <1>4, <1>6, WorkStep

\* no entry:
LEMMA MissKeeps == ASSUME PoolInv, NEW t \in Callers, Miss(t) PROVE PoolInv'
<1>1. PoolTyped /\ lockOf \in [Credentials -> Locks \cup {None}] BY DEF PoolInv, PoolTyped
<1>2. /\ HasTurn(t) /\ call[t].pc = "look" /\ UNCHANGED <<entries, owner, lockOf, held, waiting, poolClock, suspends>>
      /\ call' = [call EXCEPT ![t].pc = "room"] /\ running' = t
  BY DEF Miss, In, Go
<1>4. "room" \in Places /\ "room" \in Working \ {"connecting", "closing"} /\ "look" \in Working BY DEF Places, Working
<1>5. Moved(t, "room", call[t].conn, call[t].then) BY <1>1, <1>2, <1>4, GoIs
<1>6. \E c1, h1 : Moved(t, "room", c1, h1) BY <1>5
<1> QED BY <1>1, <1>2, <1>4, <1>6, WorkStep

\* an entry that is due for a check:
LEMMA AskHealthKeeps == ASSUME PoolInv, NEW t \in Callers, AskHealth(t) PROVE PoolInv'
<1>1. PoolTyped /\ lockOf \in [Credentials -> Locks \cup {None}] BY DEF PoolInv, PoolTyped
<1>0. PICK c : c = EntryOf(call[t].key).conn OBVIOUS
<1>2. /\ HasTurn(t) /\ call[t].pc = "look" /\ UNCHANGED <<entries, owner, lockOf, held, waiting, poolClock, suspends>>
      /\ call' = [call EXCEPT ![t].pc = "checking", ![t].conn = c] /\ running' = None /\ call[t].key \in Pooled
  BY <1>0 DEF AskHealth, In
<1>3. c \in 1 .. MaxConns BY <1>0, <1>2, EntryHas
<1>4. "checking" \in Places /\ "checking" \in Working \ {"connecting", "closing"} /\ "look" \in Working BY DEF Places, Working
<1>5. Moved(t, "checking", c, call[t].then) BY <1>1, <1>2, <1>3, <1>4, AskIs
<1>6. \E c1, h1 : Moved(t, "checking", c1, h1) BY <1>5
<1> QED BY <1>1, <1>2, <1>4, <1>6, WorkStep

\* a check that fails:
LEMMA DeadKeeps == ASSUME PoolInv, NEW t \in Callers, Dead(t) PROVE PoolInv'
<1>1. PICK k : k = call[t].key OBVIOUS
<1>2. HasTurn(t) /\ call[t].pc = "checking" /\ CloseKey(t, k, "room") /\ UNCHANGED <<owner, lockOf, held, waiting, poolClock, suspends>>
  BY <1>1 DEF Dead, In
<1>3. "checking" \in Working BY DEF Working
<1> QED BY <1>2, <1>3, CloseKeyKeeps

\* The connection that is disconnected is that of no entry.
LEMMA DisconnectKeeps == ASSUME PoolInv, NEW t \in Callers, Disconnect(t) PROVE PoolInv'
<1>1. PoolTyped /\ EntriesKept BY DEF PoolInv
<1>0. PICK c, h : c = call[t].conn /\ h = call[t].then OBVIOUS
<1>2. /\ HasTurn(t) /\ call[t].pc = "closing" /\ UNCHANGED <<entries, lockOf, held, waiting, poolClock, suspends>>
      /\ call' = [call EXCEPT ![t].pc = h, ![t].conn = None] /\ running' = t /\ owner' = [owner EXCEPT ![c] = None]
  BY <1>0 DEF Disconnect, In
<1>3. h \in {"drop", "room"} /\ c # None /\ \A i \in DOMAIN entries : entries[i].conn # c
  BY <1>0, <1>1, <1>2 DEF EntriesKept
<1>4. h \in Places /\ h \in Working /\ h \notin {"connecting", "closing"} /\ "closing" \in Working BY <1>3 DEF Places, Working
<1>5. Moved(t, h, None, call[t].then) BY <1>1, <1>2, <1>4, AskIs
<1>6. /\ Others(t) /\ call' = [u \in Callers |-> call'[u]] /\ CallOK(call'[t]) /\ call'[t].pc = h
      /\ call'[t].key = call[t].key /\ call'[t].lock = call[t].lock
  BY <1>5 DEF Moved, Others
<1>7. /\ owner \in [1 .. MaxConns -> Credentials \cup {None}] /\ entries \in Seq(EntryRows) /\ running' \in Callers \cup {None}
      /\ lockOf \in [Credentials -> Locks \cup {None}] /\ held \in [Locks -> Callers \cup {None}]
      /\ waiting \in [Locks -> Seq(Callers)] /\ Len(entries) \in Nat
  BY <1>1, <1>2, EntriesAre DEF PoolTyped
<1>8. owner' \in [1 .. MaxConns -> Credentials \cup {None}] BY <1>2, <1>7
<1>9. PoolTyped' BY <1>2, <1>6, <1>7, <1>8, TypedStays
<1>10. LocksKept' BY <1>2, <1>4, <1>6, LocksStay
<1>14. Len(entries') \in Nat /\ Len(entries') <= Len(entries) /\ call'[t].pc # "connecting" BY <1>2, <1>4, <1>6, <1>7
<1>15. suspends' = suspends BY <1>2
<1>11. RoomKept' BY <1>2, <1>6, <1>14, <1>15, RoomStays
<1>12. \A i \in DOMAIN entries : entries[i].conn \in 1 .. MaxConns /\ owner'[entries[i].conn] = owner[entries[i].conn]
  <2> SUFFICES ASSUME NEW i \in DOMAIN entries PROVE entries[i].conn \in 1 .. MaxConns /\ owner'[entries[i].conn] = owner[entries[i].conn]
    OBVIOUS
  <2>1. entries[i].conn \in 1 .. MaxConns BY <1>1, EntriesAre DEF EntryRows
  <2> QED BY <1>2, <1>3, <1>7, <2>1
<1>13. EntriesKept' BY <1>1, <1>2, <1>4, <1>6, <1>12 DEF EntriesKept, Others
<1> QED BY <1>9, <1>10, <1>11, <1>13 DEF PoolInv

\* A call that returns, with the pool as it leaves it.
LEMMA ReturnStep ==
  ASSUME PoolInv, NEW t \in Callers, HasTurn(t), call[t].pc \in Working, Return(t), EntriesKept', entries' \in Seq(EntryRows),
         Len(entries') <= Len(entries), owner' \in [1 .. MaxConns -> Credentials \cup {None}],
         UNCHANGED <<lockOf, waiting, poolClock, suspends>>
  PROVE  PoolInv'
<1>1. PoolTyped BY DEF PoolInv
<1>2. Others(t) /\ call' = [u \in Callers |-> call'[u]] /\ CallOK(call'[t]) /\ call'[t].pc = "done" /\ running' = None
  BY <1>1, DoneIs DEF Return, Others
<1>3. /\ held \in [Locks -> Callers \cup {None}] /\ lockOf \in [Credentials -> Locks \cup {None}]
      /\ waiting \in [Locks -> Seq(Callers)]
  BY <1>1 DEF PoolTyped
<1>4. held' \in [Locks -> Callers \cup {None}] BY <1>3 DEF Return
<1>5. PoolTyped' BY <1>2, <1>3, <1>4, TypedStays
<1>6. LocksKept' BY LocksReturned
<1>7. Len(entries') \in Nat BY LenProperties
<1>8. RoomKept' BY <1>2, <1>7, RoomStays
<1> QED BY <1>5, <1>6, <1>8 DEF PoolInv

\* An entry is served again, moved to the end of the pool,
LEMMA ReuseKeeps ==
  ASSUME PoolInv, NEW t \in Callers, HasTurn(t), call[t].pc \in Working, NEW c, Reuse(t, c)
  PROVE  PoolInv'
<1>1. PoolTyped /\ EntriesKept BY DEF PoolInv
<1>2. Return(t) /\ UNCHANGED <<owner, lockOf, waiting, poolClock, suspends>> BY DEF Reuse
<1>3. Others(t) /\ CallOK(call'[t]) /\ call'[t].pc = "done" BY <1>1, <1>2, DoneIs DEF Return, Others
<1>4. owner' \in [1 .. MaxConns -> Credentials \cup {None}] /\ entries \in Seq(EntryRows) /\ Len(entries) \in Nat
  BY <1>1, <1>2, EntriesAre DEF PoolTyped
<1>5. PICK k : k = call[t].key OBVIOUS
<1>6. CASE k \notin Pooled
  <2>1. entries' = entries BY <1>5, <1>6 DEF Reuse
  <2>2. EntriesKept' BY <1>2, <1>3, <2>1, EntriesStay
  <2> QED BY <1>2, <1>4, <2>1, <2>2, ReturnStep
<1>7. CASE k \in Pooled
  <2>1. PICK f : f = EntryOf(k) OBVIOUS
  <2>2. f \in EntryRows /\ f.key = k /\ owner[f.conn] = k BY <1>7, <2>1, EntryHas
  <2>3. PICK e : e = (IF f.conn = c THEN Touched(t, f) ELSE f) OBVIOUS
  <2>4. entries' = Append(Without(k), e) BY <1>5, <1>7, <2>1, <2>3 DEF Reuse
  <2>5. call[t].now \in Nat BY <1>1 DEF PoolTyped, CallOK
  <2>6. Touched(t, f) \in EntryRows /\ Touched(t, f).key = f.key /\ Touched(t, f).conn = f.conn
    BY <2>2, <2>5 DEF Touched, EntryRows
  <2>7. e \in EntryRows /\ e.key = k /\ e.conn = f.conn BY <2>2, <2>3, <2>6
  <2>8. PICK i \in DOMAIN entries : f = entries[i] BY <1>1, <1>7, <2>1, EntryIs
  <2>9. \A u \in Callers : call[u].pc = "closing" => call[u].conn # e.conn BY <1>1, <2>7, <2>8 DEF EntriesKept
  <2>10. owner' = owner BY <1>2
  <2>11. entries' = Append(Without(e.key), e) BY <2>4, <2>7
  <2>12. owner'[e.conn] = e.key BY <2>2, <2>7, <2>10
  <2>13. \A j \in DOMAIN entries : owner'[entries[j].conn] = owner[entries[j].conn] BY <2>10
  <2>14. /\ EntriesKept' /\ entries' \in Seq(EntryRows)
         /\ Len(entries') = (IF e.key \in Pooled THEN Len(entries) ELSE Len(entries) + 1)
    BY <1>3, <2>7, <2>9, <2>11, <2>12, <2>13, EntriesPut
  <2>15. Len(entries') <= Len(entries) BY <1>4, <1>7, <2>7, <2>14
  <2> QED BY <1>2, <1>4, <2>14, <2>15, ReturnStep
<1> QED BY <1>6, <1>7

\* when it was checked lately,
LEMMA FindFreshKeeps == ASSUME PoolInv, NEW t \in Callers, FindFresh(t) PROVE PoolInv'
<1>1. PICK c : c = EntryOf(call[t].key).conn OBVIOUS
<1>2. HasTurn(t) /\ call[t].pc \in Working /\ Reuse(t, c) BY <1>1 DEF FindFresh, In, Working
<1> QED BY <1>2, ReuseKeeps

\* or when its check succeeds.
LEMMA AliveKeeps == ASSUME PoolInv, NEW t \in Callers, Alive(t) PROVE PoolInv'
<1>1. PICK c : c = call[t].conn OBVIOUS
<1>2. HasTurn(t) /\ call[t].pc \in Working /\ Reuse(t, c) BY <1>1 DEF Alive, In, Working
<1> QED BY <1>2, ReuseKeeps

\* A connect that fails leaves the pool as it was.
LEMMA ConnectFailsKeeps == ASSUME PoolInv, NEW t \in Callers, ConnectFails(t) PROVE PoolInv'
<1>1. /\ HasTurn(t) /\ call[t].pc = "connecting" /\ Return(t)
      /\ UNCHANGED <<entries, owner, lockOf, waiting, poolClock, suspends>>
  BY DEF ConnectFails, In
<1>2. call[t].pc \in Working BY <1>1 DEF Working
<1>3. PoolTyped BY DEF PoolInv
<1>4. Others(t) /\ call'[t].pc = "done" BY <1>1, <1>3, DoneIs DEF Return, Others
<1>5. EntriesKept' BY <1>1, <1>4, EntriesStay
<1>6. /\ entries \in Seq(EntryRows) /\ owner \in [1 .. MaxConns -> Credentials \cup {None}] /\ Len(entries) \in Nat
  BY <1>3, EntriesAre DEF PoolTyped
<1> QED BY <1>1, <1>2, <1>5, <1>6, ReturnStep

\* There is room, an idle entry to close, or a refusal.
LEMMA MakeRoomKeeps == ASSUME PoolInv, NEW t \in Callers, MakeRoom(t) PROVE PoolInv'
<1>1. PoolTyped /\ EntriesKept BY DEF PoolInv
<1>2. HasTurn(t) /\ call[t].pc = "room" /\ call[t].pc \in Working /\ UNCHANGED <<owner, lockOf, waiting, poolClock, suspends>>
  BY DEF MakeRoom, In, Working
<1>3. /\ entries \in Seq(EntryRows) /\ owner \in [1 .. MaxConns -> Credentials \cup {None}] /\ Len(entries) \in Nat
      /\ lockOf \in [Credentials -> Locks \cup {None}] /\ held \in [Locks -> Callers \cup {None}]
      /\ waiting \in [Locks -> Seq(Callers)] /\ suspends \in BOOLEAN
  BY <1>1, EntriesAre DEF PoolTyped
<1>4. CASE HasRoom
  <2>1. /\ call' = [call EXCEPT ![t].pc = "connecting"] /\ running' = (IF suspends THEN None ELSE t)
        /\ entries' = entries /\ held' = held
    BY <1>4 DEF MakeRoom, Go
  <2>2. "connecting" \in Places /\ "connecting" \in Working BY DEF Places, Working
  <2>3. Moved(t, "connecting", call[t].conn, call[t].then) BY <1>1, <2>1, <2>2, GoIs
  <2>4. /\ Others(t) /\ call' = [u \in Callers |-> call'[u]] /\ CallOK(call'[t]) /\ call'[t].pc = "connecting"
        /\ call'[t].key = call[t].key /\ call'[t].lock = call[t].lock
    BY <2>3 DEF Moved, Others
  <2>5. running' \in Callers \cup {None} BY <2>1
  <2>6. PoolTyped' BY <1>2, <1>3, <2>1, <2>4, <2>5, TypedStays
  <2>7. LocksKept' BY <1>2, <2>1, <2>2, <2>4, LocksStay
  <2>8. EntriesKept' BY <1>2, <2>1, <2>4, EntriesStay
  <2>9. RoomKept'
    <3> SUFFICES ASSUME ~suspends
                 PROVE  Len(entries) <= PoolSize
                        /\ \A u \in Callers : call'[u].pc = "connecting" => running' = u /\ Len(entries) < PoolSize
      BY <1>2, <2>1 DEF RoomKept
    <3>1. Len(entries) < PoolSize /\ PoolSize \in Nat BY <1>4, PoolNone DEF HasRoom
    <3>2. ASSUME NEW u \in Callers, call'[u].pc = "connecting" PROVE u = t
      <4> SUFFICES ASSUME u # t PROVE FALSE OBVIOUS
      <4>1. call[u].pc = "connecting" BY <2>4, <3>2 DEF Others
      <4>2. running = u BY <4>1 DEF PoolInv, RoomKept
      <4> QED BY <1>2, <4>2, PoolNone DEF HasTurn
    <3> QED BY <1>3, <2>1, <3>1, <3>2
  <2> QED BY <2>6, <2>7, <2>8, <2>9 DEF PoolInv
<1>5. CASE ~HasRoom /\ call[t].now < Head(entries).used + HotFor
  <2>1. Return(t) /\ entries' = entries BY <1>5 DEF MakeRoom
  <2>2. Others(t) /\ call'[t].pc = "done" BY <1>1, <2>1, DoneIs DEF Return, Others
  <2>3. EntriesKept' BY <1>2, <2>1, <2>2, EntriesStay
  <2> QED BY <1>2, <1>3, <2>1, <2>3, ReturnStep
<1>6. CASE ~HasRoom /\ ~(call[t].now < Head(entries).used + HotFor)
  <2>1. PICK k : k = Head(entries).key OBVIOUS
  <2>2. CloseKey(t, k, "room") /\ held' = held BY <1>6, <2>1 DEF MakeRoom
  <2> QED BY <1>2, <2>2, CloseKeyKeeps
<1> QED BY <1>4, <1>5, <1>6

\* The new connection is of nobody else's, and there is room for its entry.
LEMMA OpenSlotKeeps == ASSUME PoolInv, NEW t \in Callers, OpenSlot(t) PROVE PoolInv'
<1>1. PoolTyped /\ EntriesKept /\ LocksKept BY DEF PoolInv
<1>0. PICK c, k, n : c = Min(Unused) /\ k = call[t].key /\ n = call[t].now OBVIOUS
<1>e. PICK e : e = [key |-> k, conn |-> c, used |-> n, checked |-> n] OBVIOUS
<1>2. /\ HasTurn(t) /\ call[t].pc = "connecting" /\ call[t].pc \in Working /\ Unused # {} /\ Return(t)
      /\ owner' = [owner EXCEPT ![c] = k] /\ entries' = Append(Without(k), e)
      /\ UNCHANGED <<lockOf, waiting, poolClock, suspends>>
  BY <1>0, <1>e DEF OpenSlot, In, Working
<1>3. c \in Unused
  <2>1. Unused \subseteq Nat BY DEF Unused
  <2> QED BY <1>0, <1>2, <2>1, MinIsLeast
<1>4. c \in 1 .. MaxConns /\ owner[c] = None /\ \A u \in Callers : call[u].conn # c BY <1>3 DEF Unused
<1>5. k \in Credentials /\ n \in Nat BY <1>0, <1>1, <1>2 DEF LocksKept, PoolTyped, CallOK
<1>6. e \in EntryRows /\ e.key = k /\ e.conn = c BY <1>e, <1>4, <1>5 DEF EntryRows
<1>7. Others(t) /\ call'[t].pc = "done" /\ CallOK(call'[t]) /\ call' = [u \in Callers |-> call'[u]] /\ running' = None
  BY <1>1, <1>2, DoneIs DEF Return, Others
<1>8. /\ entries \in Seq(EntryRows) /\ owner \in [1 .. MaxConns -> Credentials \cup {None}] /\ Len(entries) \in Nat
      /\ lockOf \in [Credentials -> Locks \cup {None}] /\ held \in [Locks -> Callers \cup {None}]
      /\ waiting \in [Locks -> Seq(Callers)] /\ suspends \in BOOLEAN
  BY <1>1, EntriesAre DEF PoolTyped
<1>9. owner'[c] = k /\ owner' \in [1 .. MaxConns -> Credentials \cup {None}] BY <1>2, <1>4, <1>5, <1>8
<1>10. \A i \in DOMAIN entries : owner'[entries[i].conn] = owner[entries[i].conn]
  <2> SUFFICES ASSUME NEW i \in DOMAIN entries PROVE owner'[entries[i].conn] = owner[entries[i].conn] OBVIOUS
  <2>1. entries[i] \in EntryRows BY <1>1, EntriesAre
  <2>2. entries[i].conn \in 1 .. MaxConns /\ entries[i].key # None BY <2>1, PoolNone DEF EntryRows
  <2>3. entries[i].conn # c BY <1>1, <1>4, <2>2 DEF EntriesKept
  <2> QED BY <1>2, <1>8, <2>2, <2>3
<1>11. /\ EntriesKept' /\ entries' \in Seq(EntryRows) /\ Len(entries') \in Nat
       /\ Len(entries') = (IF e.key \in Pooled THEN Len(entries) ELSE Len(entries) + 1)
  <2>1. entries' = Append(Without(e.key), e) BY <1>2, <1>6
  <2>2. owner'[e.conn] = e.key BY <1>6, <1>9
  <2>3. \A u \in Callers \ {t} : call[u].pc = "closing" => call[u].conn # e.conn BY <1>4, <1>6
  <2>4. call'[t].pc # "closing" BY <1>7
  <2> QED BY <1>6, <1>7, <1>10, <2>1, <2>2, <2>3, <2>4, EntriesPut
<1>12. LocksKept' BY <1>2, LocksReturned
<1>13. held' \in [Locks -> Callers \cup {None}] BY <1>2, <1>8 DEF Return
<1>14. PoolTyped' BY <1>2, <1>7, <1>8, <1>9, <1>11, <1>13, TypedStays
<1>15. RoomKept'
  <2> SUFFICES ASSUME ~suspends
               PROVE  Len(entries') <= PoolSize
                      /\ \A u \in Callers : call'[u].pc = "connecting" => running' = u /\ Len(entries') < PoolSize
    BY <1>2 DEF RoomKept
  <2>1. running = t /\ Len(entries) < PoolSize /\ PoolSize \in Nat BY <1>2, PoolNone DEF PoolInv, RoomKept
  <2>2. Len(entries') <= PoolSize BY <1>8, <1>11, <2>1
  <2>3. ASSUME NEW u \in Callers, call'[u].pc = "connecting" PROVE FALSE
    <3>1. u # t /\ call[u].pc = "connecting" BY <1>7, <2>3 DEF Others
    <3>2. running = u BY <3>1 DEF PoolInv, RoomKept
    <3> QED BY <2>1, <3>1, <3>2
  <2> QED BY <2>2, <2>3
<1> QED BY <1>11, <1>12, <1>14, <1>15 DEF PoolInv

\* A call comes in: its lock is there or is made, and it takes it or waits for it.
LEMMA GetConnectionKeeps ==
  ASSUME PoolInv, NEW t \in Callers, NEW k \in Credentials, GetConnection(t, k)
  PROVE  PoolInv'
<1>1. PoolTyped /\ EntriesKept /\ LocksKept BY DEF PoolInv
<1>0. PICK l : l = (IF lockOf[k] = None THEN FreshLock ELSE lockOf[k]) OBVIOUS
<1>2. /\ HasTurn(t) /\ call[t].pc = "rest" /\ running = None /\ lockOf' = [lockOf EXCEPT ![k] = l]
      /\ UNCHANGED <<entries, owner, poolClock, suspends>>
      /\ \/ held[l] = None /\ waiting[l] = <<>> /\ Locked(t, k, l) /\ waiting' = waiting
         \/ /\ waiting' = [waiting EXCEPT ![l] = Append(waiting[l], t)]
            /\ call' = [call EXCEPT ![t] = [AtRest EXCEPT !.pc = "queued", !.key = k, !.lock = l]]
            /\ held' = held /\ running' = running
  BY <1>0 DEF GetConnection, In
<1>3. /\ entries \in Seq(EntryRows) /\ owner \in [1 .. MaxConns -> Credentials \cup {None}] /\ Len(entries) \in Nat
      /\ lockOf \in [Credentials -> Locks \cup {None}] /\ held \in [Locks -> Callers \cup {None}]
      /\ waiting \in [Locks -> Seq(Callers)] /\ suspends \in BOOLEAN
  BY <1>1, EntriesAre DEF PoolTyped
<1>4. l \in Locks
  <2>1. CASE lockOf[k] = None BY <1>0, <1>2, <2>1, FreshLockIs
  <2>2. CASE lockOf[k] # None BY <1>0, <1>3, <2>2
  <2> QED BY <2>1, <2>2
<1>5. lockOf' \in [Credentials -> Locks \cup {None}] BY <1>2, <1>3, <1>4
<1>6. CASE Locked(t, k, l) /\ held[l] = None /\ waiting' = waiting
  <2>1. /\ Others(t) /\ call' = [u \in Callers |-> call'[u]] /\ CallOK(call'[t]) /\ call'[t].pc = "drop"
    BY <1>1, <1>4, <1>6, LockedIs DEF Others
  <2>2. held' \in [Locks -> Callers \cup {None}] /\ running' = t BY <1>3, <1>6 DEF Locked
  <2>3. PoolTyped' BY <1>2, <1>3, <1>5, <1>6, <2>1, <2>2, TypedStays
  <2>4. Leaves(t)
    <3>1. \A m \in Locks : \A i \in DOMAIN waiting[m] : call[waiting[m][i]].pc = "queued" BY <1>1 DEF LocksKept
    <3>2. \A m \in Locks : \A i \in DOMAIN waiting[m] : waiting[m][i] # t BY <1>2, <3>1
    <3>3. \A m \in Locks : \A i, j \in DOMAIN waiting[m] : waiting[m][i] = waiting[m][j] => i = j BY <1>1 DEF LocksKept
    <3> QED BY <1>6, <3>2, <3>3 DEF Leaves
  <2>5. LocksKept' BY <1>2, <1>4, <1>6, <2>4, LocksTaken
  <2>6. EntriesKept' BY <1>2, <2>1, EntriesStay
  <2>7. RoomKept' BY <1>2, <1>3, <2>1, RoomStays
  <2> QED BY <2>3, <2>5, <2>6, <2>7 DEF PoolInv
<1>7. CASE /\ waiting' = [waiting EXCEPT ![l] = Append(waiting[l], t)]
           /\ call' = [call EXCEPT ![t] = [AtRest EXCEPT !.pc = "queued", !.key = k, !.lock = l]]
           /\ held' = held /\ running' = running
  <2>1. /\ Others(t) /\ call' = [u \in Callers |-> call'[u]] /\ CallOK(call'[t]) /\ call'[t].pc = "queued"
    BY <1>1, <1>4, <1>7, QueuedIs DEF Others
  <2>2. waiting' \in [Locks -> Seq(Callers)]
    <3>1. waiting[l] \in Seq(Callers) BY <1>3, <1>4
    <3>2. Append(waiting[l], t) \in Seq(Callers) BY <3>1, AppendProperties
    <3> QED BY <1>3, <1>7, <3>2
  <2>3. PoolTyped' BY <1>2, <1>3, <1>5, <1>7, <2>1, <2>2, TypedStays
  <2>5. LocksKept' BY <1>2, <1>4, <1>7, LocksQueued
  <2>6. EntriesKept' BY <1>2, <2>1, EntriesStay
  <2>7. RoomKept' BY <1>2, <1>3, <2>1, RoomStays
  <2> QED BY <2>3, <2>5, <2>6, <2>7 DEF PoolInv
<1> QED BY <1>2, <1>6, <1>7

\* The first in a queue takes its lock when it is free and it runs.
LEMMA WokenKeeps == ASSUME PoolInv, NEW t \in Callers, Woken(t) PROVE PoolInv'
<1>1. PoolTyped /\ EntriesKept /\ LocksKept BY DEF PoolInv
<1>0. PICK l, k : l = call[t].lock /\ k = call[t].key OBVIOUS
<1>2. /\ HasTurn(t) /\ call[t].pc = "queued" /\ held[l] = None /\ Head(waiting[l]) = t
      /\ waiting' = [waiting EXCEPT ![l] = Tail(waiting[l])] /\ Locked(t, k, l)
      /\ UNCHANGED <<entries, owner, lockOf, poolClock, suspends>>
  BY <1>0 DEF Woken, In
<1>3. /\ entries \in Seq(EntryRows) /\ owner \in [1 .. MaxConns -> Credentials \cup {None}] /\ Len(entries) \in Nat
      /\ lockOf \in [Credentials -> Locks \cup {None}] /\ held \in [Locks -> Callers \cup {None}]
      /\ waiting \in [Locks -> Seq(Callers)] /\ suspends \in BOOLEAN
  BY <1>1, EntriesAre DEF PoolTyped
<1>4. l \in Locks /\ k \in Credentials /\ \E i \in DOMAIN waiting[l] : waiting[l][i] = t
  BY <1>0, <1>1, <1>2 DEF LocksKept
<1>5. PICK n : n = Len(waiting[l]) OBVIOUS
<1>6. /\ waiting[l] \in Seq(Callers) /\ n \in Nat /\ DOMAIN waiting[l] = 1 .. n /\ n >= 1 /\ waiting[l] # <<>>
      /\ waiting[l][1] = t
  <2>1. waiting[l] \in Seq(Callers) BY <1>3, <1>4
  <2>2. n \in Nat /\ DOMAIN waiting[l] = 1 .. n BY <1>5, <2>1, LenProperties
  <2>3. n >= 1 BY <1>4, <2>2
  <2>4. waiting[l] # <<>> BY <1>5, <2>3, EmptySeq
  <2>5. waiting[l][1] = t BY <1>2, <2>1, <2>4
  <2> QED BY <2>1, <2>2, <2>3, <2>4, <2>5
<1>7. /\ waiting'[l] \in Seq(Callers) /\ DOMAIN waiting'[l] = 1 .. (n - 1)
      /\ (\A i \in 1 .. (n - 1) : waiting'[l][i] = waiting[l][i + 1])
      /\ \A m \in Locks \ {l} : waiting'[m] = waiting[m]
  <2>1. waiting'[l] = Tail(waiting[l]) /\ \A m \in Locks \ {l} : waiting'[m] = waiting[m] BY <1>2, <1>3, <1>4
  <2>2. waiting'[l] \in Seq(Callers) /\ Len(waiting'[l]) = n - 1
        /\ \A i \in 1 .. Len(waiting'[l]) : waiting'[l][i] = waiting[l][i + 1]
    BY <1>5, <1>6, <2>1, HeadTailProperties
  <2> QED BY <2>1, <2>2, LenProperties
<1>8. waiting' \in [Locks -> Seq(Callers)] BY <1>2, <1>3, <1>4, <1>7
<1>9. \A m \in Locks : \A i, j \in DOMAIN waiting[m] : waiting[m][i] = waiting[m][j] => i = j BY <1>1 DEF LocksKept
<1>10. Leaves(t)
  <2>1. ASSUME NEW m \in Locks
        PROVE /\ \A i, j \in DOMAIN waiting'[m] : waiting'[m][i] = waiting'[m][j] => i = j
              /\ \A i \in DOMAIN waiting'[m] : waiting'[m][i] # t /\ \E j \in DOMAIN waiting[m] : waiting[m][j] = waiting'[m][i]
              /\ \A i \in DOMAIN waiting[m] : waiting[m][i] # t => \E j \in DOMAIN waiting'[m] : waiting'[m][j] = waiting[m][i]
    <3>1. CASE m # l
      <4>1. waiting'[m] = waiting[m] BY <1>7, <3>1
      <4>2. \A i \in DOMAIN waiting[m] : call[waiting[m][i]].lock = m BY <1>1 DEF LocksKept
      <4>3. \A i \in DOMAIN waiting[m] : waiting[m][i] # t BY <1>0, <3>1, <4>2
      <4> QED BY <1>9, <4>1, <4>3
    <3>2. CASE m = l
      <4>1. ASSUME NEW i \in 1 .. (n - 1)
            PROVE waiting'[l][i] # t /\ \E j \in DOMAIN waiting[l] : waiting[l][j] = waiting'[l][i]
        <5>1. i + 1 \in 1 .. n /\ 1 \in 1 .. n /\ i + 1 # 1 BY <1>6
        <5> QED BY <1>4, <1>6, <1>7, <1>9, <5>1
      <4>2. ASSUME NEW i \in 1 .. (n - 1), NEW j \in 1 .. (n - 1), waiting'[l][i] = waiting'[l][j] PROVE i = j
        <5>1. i + 1 \in 1 .. n /\ j + 1 \in 1 .. n BY <1>6
        <5>2. waiting[l][i + 1] = waiting[l][j + 1] BY <1>7, <4>2
        <5>3. i + 1 = j + 1 BY <1>4, <1>6, <1>9, <5>1, <5>2
        <5> QED BY <5>3
      <4>3. ASSUME NEW i \in 1 .. n, waiting[l][i] # t
            PROVE \E j \in 1 .. (n - 1) : waiting'[l][j] = waiting[l][i]
        <5>1. i # 1 BY <1>6, <4>3
        <5>2. i - 1 \in 1 .. (n - 1) /\ (i - 1) + 1 = i BY <1>6, <5>1
        <5>3. waiting'[l][i - 1] = waiting[l][i] BY <1>7, <5>2
        <5> QED BY <5>2, <5>3
      <4> QED BY <1>6, <1>7, <3>2, <4>1, <4>2, <4>3
    <3> QED BY <3>1, <3>2
  <2> QED BY <2>1 DEF Leaves
<1>11. /\ Others(t) /\ call' = [u \in Callers |-> call'[u]] /\ CallOK(call'[t]) /\ call'[t].pc = "drop"
  BY <1>1, <1>2, <1>4, LockedIs DEF Others
<1>12. held' \in [Locks -> Callers \cup {None}] /\ running' = t BY <1>2, <1>3 DEF Locked
<1>13. PoolTyped' BY <1>2, <1>3, <1>8, <1>11, <1>12, TypedStays
<1>14. LocksKept' BY <1>2, <1>4, <1>10, LocksTaken
<1>15. EntriesKept' BY <1>2, <1>11, EntriesStay
<1>16. RoomKept' BY <1>2, <1>3, <1>11, RoomStays
<1> QED BY <1>13, <1>14, <1>15, <1>16 DEF PoolInv

\* Time passes.
LEMMA PoolTickKeeps == ASSUME PoolInv, PoolTick PROVE PoolInv'
<1>1. PoolTyped' BY DEF PoolInv, PoolTyped, PoolTick
<1>2. LocksKept' BY DEF PoolInv, LocksKept, PoolTick
<1>3. EntriesKept' BY DEF PoolInv, EntriesKept, PoolTick
<1>4. RoomKept' BY DEF PoolInv, RoomKept, PoolTick
<1> QED BY <1>1, <1>2, <1>3, <1>4 DEF PoolInv

\* The empty pool is in order,
LEMMA PoolInitInv == PoolInit => PoolInv
<1> SUFFICES ASSUME PoolInit PROVE PoolInv OBVIOUS
<1>1. CallOK(AtRest)
  <2>1. "rest" \in Places /\ 0 \in Nat BY DEF Places
  <2> QED BY <2>1, CallFields DEF AtRest
<1>2. \A t \in Callers : call[t] = AtRest BY DEF PoolInit
<1>3. AtRest.pc = "rest" /\ AtRest.lock = None BY DEF AtRest
<1>4. entries = <<>> /\ Len(entries) = 0 /\ DOMAIN entries = {} BY DEF PoolInit
<1>5. <<>> \in Seq(EntryRows) /\ <<>> \in Seq(Callers) /\ 0 \in Nat BY EmptySeq
<1>6. PoolTyped BY <1>1, <1>2, <1>4, <1>5 DEF PoolInit, PoolTyped
<1>7. \A l \in Locks : held[l] = None /\ waiting[l] = <<>> /\ DOMAIN waiting[l] = {} BY DEF PoolInit
<1>8. LocksKept BY <1>2, <1>3, <1>7 DEF LocksKept, Working
<1>9. EntriesKept BY <1>2, <1>3, <1>4 DEF EntriesKept
<1>10. RoomKept BY <1>2, <1>3, <1>4, PoolNone DEF RoomKept
<1> QED BY <1>6, <1>8, <1>9, <1>10 DEF PoolInv

\* and every step keeps it so.
LEMMA PoolNextInv == PoolInv /\ [PoolNext]_poolVars => PoolInv'
<1> SUFFICES ASSUME PoolInv, [PoolNext]_poolVars PROVE PoolInv' OBVIOUS
<1>1. CASE PoolNext
  BY <1>1, GetConnectionKeeps, WokenKeeps, DropIdleKeeps, DisconnectKeeps, PruneLocksKeeps, FindFreshKeeps,
     AskHealthKeeps, MissKeeps, AliveKeeps, DeadKeeps, MakeRoomKeeps, OpenSlotKeeps, ConnectFailsKeeps, PoolTickKeeps
  DEF PoolNext
<1>2. CASE UNCHANGED poolVars
  <2>1. PoolTyped' BY <1>2 DEF PoolInv, PoolTyped, poolVars
  <2>2. LocksKept' BY <1>2 DEF PoolInv, LocksKept, poolVars
  <2>3. EntriesKept' BY <1>2 DEF PoolInv, EntriesKept, poolVars
  <2>4. RoomKept' BY <1>2 DEF PoolInv, RoomKept, poolVars
  <2> QED BY <2>1, <2>2, <2>3, <2>4 DEF PoolInv
<1> QED BY <1>1, <1>2

\* However calls interleave at the points where they suspend, for any callers, credentials
\* and sizes: what an entry serves is open and of its credential, who waits for a lock waits
\* behind a call that works or is woken, and a manager that connects without suspending keeps
\* the pool within its size (mcp_sdk/connection.py:98-124, 150-169).
THEOREM PoolStaysInOrder == PoolSpec => []PoolInOrder
<1>1. PoolInv => PoolInOrder
  <2> SUFFICES ASSUME PoolInv PROVE PoolInOrder OBVIOUS
  <2>1. PoolTyped /\ LocksKept /\ EntriesKept /\ RoomKept BY DEF PoolInv
  <2>2. \A e \in ToSet(entries) : e.key \in Credentials /\ e.conn \in 1 .. MaxConns /\ owner[e.conn] = e.key
    BY <2>1, EntriesAre DEF ToSet, EntryRows, EntriesKept
  <2>3. PoolTypeOK BY <2>1, <2>2 DEF PoolTypeOK, PoolTyped
  <2>4. ASSUME NEW t \in Callers, call[t].pc = "queued", NEW l, l = call[t].lock
        PROVE t \in ToSet(waiting[l])
              /\ (held[l] # None => call[held[l]].lock = l /\ call[held[l]].pc \notin {"rest", "queued", "done"})
    BY <2>1, <2>4 DEF LocksKept, ToSet, Working
  <2>5. ~suspends => Len(entries) <= PoolSize BY <2>1 DEF RoomKept
  <2>6. \A i, j \in DOMAIN entries : entries[i].key = entries[j].key => i = j BY <2>1 DEF EntriesKept
  <2>7. \A t \in Callers : call[t].pc = "queued" =>
          /\ t \in ToSet(waiting[call[t].lock])
          /\ held[call[t].lock] # None => call[held[call[t].lock]].lock = call[t].lock
                                         /\ call[held[call[t].lock]].pc \notin {"rest", "queued", "done"}
    BY <2>4
  <2> QED BY <2>2, <2>3, <2>5, <2>6, <2>7 DEF PoolInOrder
<1> QED BY <1>1, PoolInitInv, PoolNextInv, PTL DEF PoolSpec

\* Both ends of a tool call: a behaviour in which the backend's client and the server's
\* pool run side by side keeps what each end keeps alone.
THEOREM ConnectionsAlwaysSound == StreamSpec /\ PoolSpec => []ConnectionsSound
<1>1. PoolInOrder /\ NoStreamLeft => ConnectionsSound BY DEF ConnectionsSound
<1> QED BY <1>1, NoStreamIsLeft, PoolStaysInOrder, PTL
-----------------------------------------------------------------------------
(* The simulated cohort leaves the stack as it found it *)

Regimes == {"productive", "stuck_on_step", "idle", "trial_and_error", "repeating_errors"}
SimStates ==
  {"out", "asking", "launching", "attaching", "acting", "doing", "asked", "done", "ending",
   "second", "closing", "reported", "failed"}
Through == {"reported", "failed"}
Rows3 == {"none", "open", "ended"}
StudentStates ==
  [pc : SimStates, tries : Nat, slot : BOOLEAN, first : Rows3, second : Rows3,
   watched : BOOLEAN, mode : Regimes, step : Nat, made : Nat,
   action : {"none", "submit", "correct_cmd", "wrong_cmd", "repeat_error", "ask_help", "idle"},
   systematic : BOOLEAN, offset : Offsets, typed : {None} \cup (Nat \X BOOLEAN), asked : Nat,
   tasks : Nat, progress : BOOLEAN \cup {None}, passed : [SimLabs -> BOOLEAN \cup {None}]]
Counters == {"first", "second", "total"}

\* What the variables hold.
SimTyped ==
  /\ student \in [Students -> StudentStates]
  /\ used \in [Counters -> Nat] /\ others \in [SimLabs -> Nat]
  /\ truth \in [Students -> Seq(Regimes)]
  /\ talk = [u \in Students |-> talk[u]] /\ \A u \in Students : talk[u] \in Seq(ToSet(talk[u]))

\* Where a student is tells which of the slot, the rows and the monitor they have.
Stays(s) ==
  /\ s.pc \in {"out", "asking"} => ~s.slot /\ s.first = "none"
  /\ s.pc = "launching" => s.slot /\ s.first = "none"
  /\ s.pc \in {"attaching", "acting", "doing", "asked", "done", "ending"} => s.slot /\ s.first = "open"
  /\ s.pc \in {"acting", "doing", "asked", "done", "ending"} => s.watched
  /\ s.pc = "ending" => s.progress \in BOOLEAN
  /\ s.pc \in {"second", "closing", "reported"} => s.first = "ended" /\ ~s.slot /\ ~s.watched
  /\ s.pc = "second" => HasPair /\ s.passed["first"] = TRUE
  /\ s.pc \notin {"closing", "reported", "failed"} => s.second = "none"
  /\ s.pc = "closing" => s.second = "open"
  /\ s.pc = "reported" => s.second # "open"
  /\ s.slot => s.first = "open" \/ s.pc = "launching"
  /\ s.second # "none" => HasPair /\ s.first = "ended" /\ s.passed["first"] = TRUE

\* The windows that made progress are those recorded as productive, and the one
\* that is not recorded yet.
Productives(r) == Cardinality({i \in DOMAIN r : r[i] = "productive"})
Unrecorded(s) == IF s.mode = "productive" THEN 1 ELSE 0
Progressed(s, r) ==
  /\ s.pc \in {"out", "asking", "launching", "attaching"} => s.step = 0 /\ s.made = 0 /\ r = <<>>
  /\ s.pc = "acting" => s.step * WindowsPerStep + s.made = Productives(r)
  /\ s.pc \in {"doing", "asked", "done"} =>
       s.step * WindowsPerStep + s.made = Productives(r) + Unrecorded(s)

\* The rows of a dialogue take turns, and each request has the phrase of its number.
PhraseAt(offset, number, tried) ==
  IF (offset + number) % Phrases = 1 /\ tried = None THEN 0 ELSE (offset + number) % Phrases
Spoke(s, t) ==
  /\ \A i \in DOMAIN t :
       /\ t[i].role = IF i % 2 = 1 THEN "user" ELSE "assistant"
       /\ i % 2 = 1 =>
            /\ t[i].attempt \in Nat /\ i = 2 * t[i].attempt + 1
            /\ t[i].phrase = PhraseAt(s.offset, t[i].attempt, t[i].tried)
  /\ s.pc = "asked" => Len(t) + 1 = 2 * s.asked
  /\ s.pc \notin Through \cup {"asked"} => Len(t) = 2 * s.asked

Own(s, r, t) == Stays(s) /\ Progressed(s, r) /\ Spoke(s, t)

SimInv ==
  /\ SimTyped
  /\ \A u \in Students : Own(student[u], truth[u], talk[u])
  /\ Cardinality(Inside) <= Concurrency
  /\ used["first"] = Cardinality(Holding) + others["first"]

-----------------------------------------------------------------------------
\* One less, but never below zero.
LEMMA OneLess == ASSUME NEW n \in Nat PROVE Max({n - 1, 0}) = IF n > 0 THEN n - 1 ELSE 0
PROOF
<1>1. \E x \in {n - 1, 0} : \A y \in {n - 1, 0} : x >= y
  OBVIOUS
<1>2. Max({n - 1, 0}) \in {n - 1, 0} /\ \A y \in {n - 1, 0} : Max({n - 1, 0}) >= y
  BY <1>1 DEF Max
<1> QED BY <1>2

\* A slot that is taken or given back moves the counter of its lab and the total.
LEMMA SlotCounted ==
  ASSUME used \in [Counters -> Nat], NEW lab \in SimLabs
  PROVE  /\ Taken1(lab) \in [Counters -> Nat]
         /\ Taken1(lab)["first"] = IF lab = "first" THEN used["first"] + 1 ELSE used["first"]
         /\ Given(lab) \in [Counters -> Nat]
         /\ Given(lab)["first"] = IF lab = "first" /\ used["first"] > 0
                                  THEN used["first"] - 1 ELSE used["first"]
PROOF
<1>1. ASSUME NEW n \in Nat
      PROVE  Max({n - 1, 0}) \in Nat /\ Max({n - 1, 0}) = IF n > 0 THEN n - 1 ELSE 0
  <2>1. Max({n - 1, 0}) = IF n > 0 THEN n - 1 ELSE 0
    BY OneLess
  <2>2. (IF n > 0 THEN n - 1 ELSE 0) \in Nat
    OBVIOUS
  <2> QED BY <2>1, <2>2
<1>2. lab \in {"first", "second"}
  BY DEF SimLabs
<1>3. /\ Taken1(lab) \in [Counters -> Nat]
      /\ Taken1(lab)["first"] = IF lab = "first" THEN used["first"] + 1 ELSE used["first"]
  <2>0. \A c \in Counters : used[c] \in Nat /\ used[c] + 1 \in Nat
    OBVIOUS
  <2>1. CASE lab = "first"
    BY <2>0, <2>1 DEF Taken1, Counters
  <2>2. CASE lab = "second"
    BY <2>0, <2>2 DEF Taken1, Counters
  <2> QED BY <1>2, <2>1, <2>2
<1>4. /\ Given(lab) \in [Counters -> Nat]
      /\ Given(lab)["first"] = IF lab = "first" THEN Max({used["first"] - 1, 0}) ELSE used["first"]
  <2>1. CASE lab = "first"
    BY <1>1, <2>1 DEF Given, Counters
  <2>2. CASE lab = "second"
    BY <1>1, <2>2 DEF Given, Counters
  <2> QED BY <1>2, <2>1, <2>2
<1>5. used["first"] \in Nat
  BY DEF Counters
<1> QED BY <1>1, <1>3, <1>4, <1>5

\* A function on an interval from 1 is a sequence.
LEMMA IntervalSeq == ASSUME NEW T, NEW n \in Nat, NEW a \in [1 .. n -> T] PROVE a \in Seq(T)
BY SeqDef

\* A row more, at the end of a sequence.
LEMMA RowAdded ==
  ASSUME NEW t, t \in Seq(ToSet(t)), NEW x
  PROVE  /\ Append(t, x) \in Seq(ToSet(Append(t, x)))
         /\ Len(t) \in Nat /\ DOMAIN t = 1 .. Len(t)
         /\ DOMAIN Append(t, x) = 1 .. (Len(t) + 1) /\ Len(Append(t, x)) = Len(t) + 1
         /\ Append(t, x)[Len(t) + 1] = x
         /\ \A i \in 1 .. Len(t) : Append(t, x)[i] = t[i]
PROOF
<1>1. PICK S : S = ToSet(t) \cup {x}
  OBVIOUS
<1>2. t \in Seq(S)
  <2>1. \A i \in 1 .. Len(t) : t[i] \in S
    BY <1>1, ElementOfSeq
  <2>2. t \in [1 .. Len(t) -> S] /\ Len(t) \in Nat
    BY <2>1, LenProperties
  <2> QED BY <2>2, IntervalSeq
<1>3. /\ Append(t, x) \in Seq(S) /\ Len(Append(t, x)) = Len(t) + 1
      /\ Append(t, x)[Len(t) + 1] = x
      /\ \A i \in 1 .. Len(t) : Append(t, x)[i] = t[i]
  BY <1>1, <1>2, AppendProperties
<1>4. Len(t) \in Nat /\ DOMAIN t = 1 .. Len(t)
  BY LenProperties
<1>5. DOMAIN Append(t, x) = 1 .. (Len(t) + 1)
  BY <1>3, <1>4, LenProperties
<1>6. Append(t, x) \in Seq(ToSet(Append(t, x)))
  <2> PICK a : a = Append(t, x)
    OBVIOUS
  <2>1. \A i \in 1 .. (Len(t) + 1) : a[i] \in ToSet(a)
    BY <1>5 DEF ToSet
  <2>2. a \in [1 .. (Len(t) + 1) -> S] /\ Len(t) + 1 \in Nat
    BY <1>3, <1>4, LenProperties
  <2>3. a \in [1 .. (Len(t) + 1) -> ToSet(a)]
    BY <2>1, <2>2
  <2>9. PICK T : T = ToSet(a)
    OBVIOUS
  <2>6. a \in [1 .. Len(a) -> T] /\ Len(a) \in Nat
    BY <1>3, <2>2, <2>3, <2>9
  <2>7. a \in Seq(T)
    BY <2>6, IntervalSeq
  <2>4. a \in Seq(ToSet(a))
    BY <2>9, <2>7
  <2> QED BY <2>4
<1> QED BY <1>3, <1>4, <1>5, <1>6

\* A regime more: one more productive window, if it is that.
LEMMA RegimeAdded ==
  ASSUME NEW r \in Seq(Regimes), NEW m \in Regimes
  PROVE  /\ Append(r, m) \in Seq(Regimes)
         /\ Productives(r) \in Nat
         /\ Productives(Append(r, m)) = Productives(r) + IF m = "productive" THEN 1 ELSE 0
PROOF
<1>1. /\ Append(r, m) \in Seq(Regimes) /\ Len(Append(r, m)) = Len(r) + 1
      /\ Append(r, m)[Len(r) + 1] = m
      /\ \A i \in 1 .. Len(r) : Append(r, m)[i] = r[i]
      /\ Len(r) \in Nat
  BY AppendProperties, LenProperties
<1>2. DOMAIN r = 1 .. Len(r) /\ DOMAIN Append(r, m) = 1 .. (Len(r) + 1)
  BY <1>1, LenProperties
<1> PICK D : D = {i \in DOMAIN r : r[i] = "productive"}
  OBVIOUS
<1> PICK a : a = Append(r, m)
  OBVIOUS
<1>3. IsFiniteSet(D) /\ Cardinality(D) \in Nat /\ Len(r) + 1 \notin D
  <2>1. IsFiniteSet(1 .. Len(r))
    BY <1>1, FS_Interval
  <2>2. D \subseteq 1 .. Len(r)
    BY <1>2
  <2> QED BY <2>1, <2>2, <1>1, FS_Subset, FS_CardinalityType
<1>4. {i \in DOMAIN a : a[i] = "productive"} =
        IF m = "productive" THEN D \cup {Len(r) + 1} ELSE D
  BY <1>1, <1>2
<1>5. Cardinality(D \cup {Len(r) + 1}) = Cardinality(D) + 1
  BY <1>3, FS_AddElement
<1>6. Productives(r) = Cardinality(D)
  BY DEF Productives
<1>7. Productives(a) = IF m = "productive" THEN Cardinality(D \cup {Len(r) + 1}) ELSE Cardinality(D)
  BY <1>4 DEF Productives
<1>8. Productives(a) = Productives(r) + IF m = "productive" THEN 1 ELSE 0
  BY <1>3, <1>5, <1>6, <1>7
<1> QED BY <1>1, <1>3, <1>6, <1>8

\* A student more, or less, among the holders of a slot.
LEMMA HoldersMove ==
  ASSUME SimTyped, NEW u \in Students, student' \in [Students -> StudentStates],
         \A v \in Students \ {u} : student'[v] = student[v]
  PROVE  /\ Cardinality(Holding) \in Nat
         /\ (student[u].slot /\ ~student'[u].slot) =>
              Cardinality(Holding') = Cardinality(Holding) - 1 /\ Cardinality(Holding) > 0
         /\ (~student[u].slot /\ student'[u].slot) =>
              Cardinality(Holding') = Cardinality(Holding) + 1
         /\ (student[u].slot <=> student'[u].slot) => Cardinality(Holding') = Cardinality(Holding)
PROOF
<1>1. IsFiniteSet(Holding) /\ Cardinality(Holding) \in Nat
  <2>1. Holding \subseteq Students /\ IsFiniteSet(Students)
    BY SimAssumption DEF Holding
  <2> QED BY <2>1, FS_Subset, FS_CardinalityType
<1>2. CASE student[u].slot /\ ~student'[u].slot
  <2>1. u \in Holding /\ Holding' = Holding \ {u}
    BY <1>2 DEF Holding
  <2>2. Cardinality(Holding \ {u}) = Cardinality(Holding) - 1 /\ Cardinality(Holding \ {u}) \in Nat
    BY <2>1, <1>1, FS_RemoveElement, FS_CardinalityType
  <2> QED BY <1>1, <1>2, <2>1, <2>2
<1>3. CASE ~student[u].slot /\ student'[u].slot
  <2>1. u \notin Holding /\ Holding' = Holding \cup {u}
    BY <1>3 DEF Holding
  <2> QED BY <2>1, <1>1, <1>3, FS_AddElement
<1>4. CASE student[u].slot <=> student'[u].slot
  <2>1. Holding' = Holding
    BY <1>4 DEF Holding
  <2> QED BY <2>1, <1>1, <1>4
<1> QED BY <1>1, <1>2, <1>3, <1>4

\* Nobody comes in but through the semaphore.
LEMMA InsideBounded ==
  ASSUME SimTyped, Cardinality(Inside) <= Concurrency, NEW u \in Students,
         \A v \in Students \ {u} : student'[v] = student[v],
         \/ student'[u].pc \in {"out", "reported", "failed"}
         \/ student[u].pc \notin {"out", "reported", "failed"}
         \/ Cardinality(Inside) < Concurrency
  PROVE  Cardinality(Inside') <= Concurrency
PROOF
<1>1. IsFiniteSet(Inside) /\ Cardinality(Inside) \in Nat /\ Concurrency \in Nat
  <2>1. Inside \subseteq Students /\ IsFiniteSet(Students)
    BY SimAssumption DEF Inside
  <2> QED BY <2>1, SimAssumption, FS_Subset, FS_CardinalityType
<1>2. CASE Cardinality(Inside) < Concurrency
  <2>1. Inside' \subseteq Inside \cup {u}
    BY DEF Inside
  <2>2. IsFiniteSet(Inside \cup {u}) /\ Cardinality(Inside \cup {u}) <= Cardinality(Inside) + 1
        /\ Cardinality(Inside \cup {u}) \in Nat
    <3>1. CASE u \in Inside
      <4>1. Inside \cup {u} = Inside
        BY <3>1
      <4> QED BY <4>1, <1>1
    <3>2. CASE u \notin Inside
      <4>1. IsFiniteSet(Inside \cup {u}) /\ Cardinality(Inside \cup {u}) = Cardinality(Inside) + 1
        BY <1>1, <3>2, FS_AddElement
      <4> QED BY <4>1, <1>1
    <3> QED BY <3>1, <3>2
  <2>3. Cardinality(Inside') <= Cardinality(Inside \cup {u}) /\ Cardinality(Inside') \in Nat
    BY <2>1, <2>2, FS_Subset, FS_CardinalityType
  <2> QED BY <1>1, <1>2, <2>2, <2>3
<1>3. CASE ~(Cardinality(Inside) < Concurrency)
  <2>1. Inside' \subseteq Inside
    BY <1>3 DEF Inside
  <2>2. Cardinality(Inside') <= Cardinality(Inside) /\ Cardinality(Inside') \in Nat
    BY <2>1, <1>1, FS_Subset, FS_CardinalityType
  <2> QED BY <1>1, <2>2
<1> QED BY <1>2, <1>3

\* A student as they come.
LEMMA NewIs ==
  ASSUME NEW systematic \in BOOLEAN, NEW offset \in Offsets
  PROVE  NewStudent(systematic, offset) \in StudentStates
PROOF
<1>1. [lab \in SimLabs |-> None] \in [SimLabs -> BOOLEAN \cup {None}]
  OBVIOUS
<1> QED BY <1>1 DEF NewStudent, StudentStates, SimStates, Rows3, Regimes

\* What is left of a coroutine that is over.
LEMMA OverIs ==
  ASSUME NEW s \in StudentStates, NEW pc \in Through
  PROVE  /\ Over(s, pc) \in StudentStates
         /\ Over(s, pc).pc = pc /\ Over(s, pc).slot = s.slot /\ Over(s, pc).first = s.first
         /\ Over(s, pc).second = s.second /\ Over(s, pc).watched = s.watched
         /\ Over(s, pc).passed = s.passed /\ Over(s, pc).offset = s.offset
PROOF
<1>1. s.offset \in Offsets /\ pc \in SimStates /\ s.slot \in BOOLEAN /\ s.first \in Rows3
      /\ s.second \in Rows3 /\ s.watched \in BOOLEAN /\ s.passed \in [SimLabs -> BOOLEAN \cup {None}]
  BY DEF StudentStates, Through, SimStates
<1>2. NewStudent(FALSE, s.offset) \in StudentStates
  BY <1>1, NewIs
<1>3. NewStudent(FALSE, s.offset).offset = s.offset
  BY DEF NewStudent
<1>4. PICK n : n = NewStudent(FALSE, s.offset)
  OBVIOUS
<1>5. [n EXCEPT !.pc = pc, !.slot = s.slot, !.first = s.first, !.second = s.second,
                !.watched = s.watched, !.passed = s.passed] \in StudentStates
  BY <1>1, <1>2, <1>4 DEF StudentStates
<1>6. n \in StudentStates /\ n.offset = s.offset
  BY <1>2, <1>3, <1>4
<1>7. Over(s, pc) = [n EXCEPT !.pc = pc, !.slot = s.slot, !.first = s.first, !.second = s.second,
                              !.watched = s.watched, !.passed = s.passed]
  BY <1>4 DEF Over
<1> QED BY <1>5, <1>6, <1>7 DEF StudentStates

\* A student who fails keeps what they have.
LEMMA Gone ==
  ASSUME NEW s \in StudentStates, NEW r, NEW t, Own(s, r, t), s.pc # "launching"
  PROVE  Own(Over(s, "failed"), r, t)
PROOF
<1>1. PICK n : n = Over(s, "failed")
  OBVIOUS
<1>2. /\ n.pc = "failed" /\ n.slot = s.slot /\ n.first = s.first /\ n.second = s.second
      /\ n.watched = s.watched /\ n.passed = s.passed /\ n.offset = s.offset
  BY <1>1, OverIs DEF Through
<1>3. Stays(n)
  BY <1>2 DEF Own, Stays
<1>4. Progressed(n, r)
  BY <1>2 DEF Progressed
<1>5. Spoke(n, t)
  BY <1>2 DEF Own, Spoke, Through
<1> QED BY <1>1, <1>3, <1>4, <1>5 DEF Own

\* A step of one student: their own part, the counter of the slots and the semaphore.
LEMMA StudentMoved ==
  ASSUME SimInv, NEW u \in Students, NEW s, s \in StudentStates,
         NEW r, r \in Seq(Regimes), NEW t, t \in Seq(ToSet(t)), Own(s, r, t),
         student' = [student EXCEPT ![u] = s], truth' = [truth EXCEPT ![u] = r],
         talk' = [talk EXCEPT ![u] = t], used' \in [Counters -> Nat], others' = others,
         \/ s.pc \in {"out", "reported", "failed"}
         \/ student[u].pc \notin {"out", "reported", "failed"}
         \/ Cardinality(Inside) < Concurrency,
         \/ (student[u].slot <=> s.slot) /\ used'["first"] = used["first"]
         \/ ~student[u].slot /\ s.slot /\ used'["first"] = used["first"] + 1
         \/ student[u].slot /\ ~s.slot /\
            used'["first"] = IF used["first"] > 0 THEN used["first"] - 1 ELSE used["first"]
  PROVE  SimInv'
PROOF
<1>0. SimTyped
  BY DEF SimInv
<1>1. student'[u] = s /\ truth'[u] = r /\ talk'[u] = t
  BY <1>0 DEF SimTyped
<1>2. \A v \in Students \ {u} : student'[v] = student[v] /\ truth'[v] = truth[v] /\ talk'[v] = talk[v]
  BY <1>0 DEF SimTyped
<1>3. SimTyped'
  <2>1. student' \in [Students -> StudentStates] /\ truth' \in [Students -> Seq(Regimes)]
    BY <1>0 DEF SimTyped
  <2>2. talk' = [v \in Students |-> talk'[v]]
    BY <1>0 DEF SimTyped
  <2>3. ASSUME NEW v \in Students PROVE talk'[v] \in Seq(ToSet(talk'[v]))
    <3>1. CASE v = u
      BY <3>1, <1>1
    <3>2. CASE v # u
      BY <3>2, <1>2, <1>0 DEF SimTyped
    <3> QED BY <3>1, <3>2
  <2> QED BY <2>1, <2>2, <2>3, <1>0 DEF SimTyped
<1>4. \A v \in Students : Own(student'[v], truth'[v], talk'[v])
  BY <1>1, <1>2 DEF SimInv
<1>5. Cardinality(Inside') <= Concurrency
  <2>1. Cardinality(Inside) <= Concurrency
    BY DEF SimInv
  <2> QED BY <2>1, <1>0, <1>1, <1>2, InsideBounded
<1>6. used'["first"] = Cardinality(Holding') + others'["first"]
  <2>0. student' \in [Students -> StudentStates]
    BY <1>3 DEF SimTyped
  <2>1. /\ Cardinality(Holding) \in Nat
        /\ (student[u].slot /\ ~s.slot) =>
              Cardinality(Holding') = Cardinality(Holding) - 1 /\ Cardinality(Holding) > 0
        /\ (~student[u].slot /\ s.slot) => Cardinality(Holding') = Cardinality(Holding) + 1
        /\ (student[u].slot <=> s.slot) => Cardinality(Holding') = Cardinality(Holding)
    BY <2>0, <1>0, <1>1, <1>2, HoldersMove
  <2>2. used["first"] = Cardinality(Holding) + others["first"] /\ others["first"] \in Nat
    BY <1>0 DEF SimInv, SimTyped, SimLabs
  <2> QED BY <2>1, <2>2
<1>7. (Cardinality(Inside))' = Cardinality(Inside') /\ (Cardinality(Holding))' = Cardinality(Holding')
  OBVIOUS
<1> QED BY <1>3, <1>4, <1>5, <1>6, <1>7 DEF SimInv

\* What holds of one student.
LEMMA StudentKnown ==
  ASSUME SimInv, NEW u \in Students
  PROVE  /\ student[u] \in StudentStates /\ truth[u] \in Seq(Regimes)
         /\ talk[u] \in Seq(ToSet(talk[u])) /\ Own(student[u], truth[u], talk[u])
         /\ truth = [truth EXCEPT ![u] = truth[u]] /\ talk = [talk EXCEPT ![u] = talk[u]]
         /\ used \in [Counters -> Nat]
PROOF
<1>1. SimTyped /\ Own(student[u], truth[u], talk[u])
  BY DEF SimInv
<1>2. truth = [truth EXCEPT ![u] = truth[u]]
  BY <1>1 DEF SimTyped
<1>3. talk = [talk EXCEPT ![u] = talk[u]]
  BY <1>1 DEF SimTyped
<1> QED BY <1>1, <1>2, <1>3 DEF SimTyped

\* A step that is about nothing but the student, who is inside.
LEMMA StudentAlone ==
  ASSUME SimInv, NEW u \in Students, NEW s, s \in StudentStates, Own(s, truth[u], talk[u]),
         student' = [student EXCEPT ![u] = s], UNCHANGED <<used, others, truth, talk>>,
         student[u].pc \notin {"out", "reported", "failed"}, s.slot = student[u].slot
  PROVE  SimInv'
BY StudentKnown, StudentMoved

\* The semaphore opens, or the row of the user is refused.
LEMMA EnterKeeps == ASSUME SimInv, NEW u \in Students, EnterCohort(u) PROVE SimInv'
PROOF
<1>1. PICK s : s = student[u]
  OBVIOUS
<1>2. s \in StudentStates /\ Own(s, truth[u], talk[u]) /\ s.pc = "out"
  BY <1>1, StudentKnown DEF EnterCohort, At
<1>3. CASE Ends(u, student[u], "asking")
  <2>1. PICK n : n = [s EXCEPT !.pc = "asking"]
    OBVIOUS
  <2>2. n \in StudentStates /\ Own(n, truth[u], talk[u]) /\ n.slot = s.slot
    BY <1>2, <2>1 DEF StudentStates, SimStates, Own, Stays, Progressed, Spoke, Through
  <2>3. student' = [student EXCEPT ![u] = n]
    BY <1>1, <1>3, <2>1 DEF Ends
  <2> QED BY <1>1, <2>2, <2>3, StudentKnown, StudentMoved DEF EnterCohort
<1>4. CASE Ends(u, student[u], "failed")
  <2>1. PICK n : n = Over(s, "failed")
    OBVIOUS
  <2>2. n \in StudentStates /\ Own(n, truth[u], talk[u]) /\ n.slot = s.slot /\ n.pc = "failed"
    BY <1>2, <2>1, Gone, OverIs DEF Through
  <2>3. student' = [student EXCEPT ![u] = n]
    BY <1>1, <1>4, <2>1 DEF Ends
  <2> QED BY <1>1, <2>2, <2>3, StudentKnown, StudentMoved DEF EnterCohort
<1> QED BY <1>3, <1>4 DEF EnterCohort

\* The queue gives a slot, or the tries are used up.
LEMMA AskSlotKeeps == ASSUME SimInv, NEW u \in Students, AskSlot(u) PROVE SimInv'
PROOF
<1>1. PICK s : s = student[u]
  OBVIOUS
<1>2. s \in StudentStates /\ Own(s, truth[u], talk[u]) /\ s.pc = "asking" /\ ~s.slot
  BY <1>1, StudentKnown DEF AskSlot, At, Own, Stays
<1>3. CASE used.first < SlotCap
  <2>1. PICK n : n = [s EXCEPT !.pc = "launching", !.slot = TRUE]
    OBVIOUS
  <2>2. n \in StudentStates /\ Own(n, truth[u], talk[u]) /\ n.slot
    BY <1>2, <2>1 DEF StudentStates, SimStates, Own, Stays, Progressed, Spoke, Through
  <2>0. student' = [student EXCEPT ![u].pc = "launching", ![u].slot = TRUE]
    BY <1>3 DEF AskSlot
  <2>3. student' = [student EXCEPT ![u] = n]
    BY <1>1, <2>0, <2>1 DEF SimInv, SimTyped
  <2>4. used' = Taken1("first")
    BY <1>3 DEF AskSlot
  <2>5. used' \in [Counters -> Nat] /\ used'["first"] = used["first"] + 1
    BY <2>4, StudentKnown, SlotCounted DEF SimLabs
  <2> QED BY <1>1, <1>2, <2>2, <2>3, <2>5, StudentKnown, StudentMoved DEF AskSlot
<1>4. CASE ~(used.first < SlotCap)
  <2>1. PICK m : m = [s EXCEPT !.tries = s.tries + 1]
    OBVIOUS
  <2>2. m \in StudentStates /\ Own(m, truth[u], talk[u]) /\ m.slot = s.slot /\ m.pc = "asking"
    BY <1>2, <2>1 DEF StudentStates, SimStates, Own, Stays, Progressed, Spoke, Through
  <2>3. Ends(u, m, IF s.tries + 1 = SlotTries THEN "failed" ELSE "asking")
    BY <1>1, <1>4, <2>1 DEF AskSlot
  <2>4. PICK n : n = IF s.tries + 1 = SlotTries THEN Over(m, "failed") ELSE [m EXCEPT !.pc = "asking"]
    OBVIOUS
  <2>5. n \in StudentStates /\ Own(n, truth[u], talk[u]) /\ n.slot = s.slot
    <3>1. CASE s.tries + 1 = SlotTries
      BY <2>2, <2>4, <3>1, Gone, OverIs DEF Through
    <3>2. CASE s.tries + 1 # SlotTries
      <4>1. n = m
        BY <2>2, <2>4, <3>2 DEF StudentStates
      <4> QED BY <4>1, <2>2
    <3> QED BY <3>1, <3>2
  <2>6. student' = [student EXCEPT ![u] = n]
    BY <2>3, <2>4 DEF Ends
  <2>7. UNCHANGED <<used, others, truth, talk>>
    BY <1>4 DEF AskSlot
  <2> QED BY <1>1, <1>2, <2>5, <2>6, <2>7, StudentKnown, StudentMoved
<1> QED BY <1>3, <1>4

\* The session is there, or the slot is given back.
LEMMA LaunchKeeps == ASSUME SimInv, NEW u \in Students, LaunchFirst(u) PROVE SimInv'
PROOF
<1>1. PICK s : s = student[u]
  OBVIOUS
<1>2. s \in StudentStates /\ Own(s, truth[u], talk[u]) /\ s.pc = "launching" /\ s.slot
  BY <1>1, StudentKnown DEF LaunchFirst, At, Own, Stays
<1>3. CASE student' = [student EXCEPT ![u].pc = "attaching", ![u].first = "open"] /\ UNCHANGED used
  <2>1. PICK n : n = [s EXCEPT !.pc = "attaching", !.first = "open"]
    OBVIOUS
  <2>2. n \in StudentStates /\ Own(n, truth[u], talk[u]) /\ n.slot
    BY <1>2, <2>1 DEF StudentStates, SimStates, Rows3, Own, Stays, Progressed, Spoke, Through
  <2>3. student' = [student EXCEPT ![u] = n]
    BY <1>1, <1>3, <2>1, StudentKnown DEF SimInv, SimTyped
  <2>7. UNCHANGED <<used, others, truth, talk>>
    BY <1>3 DEF LaunchFirst
  <2> QED BY <1>1, <1>2, <2>2, <2>3, <2>7, StudentKnown, StudentMoved
<1>4. ASSUME NEW row \in {"none", "open"}, used' = AfterFailure,
             Ends(u, [student[u] EXCEPT !.slot = FALSE, !.first = row], "failed")
      PROVE  SimInv'
  <2>1. PICK m : m = [s EXCEPT !.slot = FALSE, !.first = row]
    OBVIOUS
  <2>2. m \in StudentStates
    BY <1>2, <2>1 DEF StudentStates, Rows3
  <2>3. ~m.slot /\ m.second = "none" /\ m.offset = s.offset
    BY <1>2, <2>1 DEF StudentStates, Own, Stays
  <2>4. PICK n : n = Over(m, "failed")
    OBVIOUS
  <2>5. /\ n \in StudentStates /\ n.pc = "failed" /\ ~n.slot /\ n.second = "none"
        /\ n.offset = s.offset
    BY <2>2, <2>3, <2>4, OverIs DEF Through
  <2>6. Own(n, truth[u], talk[u])
    BY <1>2, <2>5 DEF Own, Stays, Progressed, Spoke, Through
  <2>7. student' = [student EXCEPT ![u] = n]
    BY <1>1, <1>4, <2>1, <2>4 DEF Ends
  <2>8. used' = Given("first")
    BY <1>4 DEF AfterFailure, GiveUp
  <2>9. /\ used' \in [Counters -> Nat]
        /\ used'["first"] = IF used["first"] > 0 THEN used["first"] - 1 ELSE used["first"]
    BY <2>8, StudentKnown, SlotCounted DEF SimLabs
  <2> QED BY <1>1, <1>2, <2>5, <2>6, <2>7, <2>9, StudentKnown, StudentMoved DEF LaunchFirst
<1> QED BY <1>3, <1>4 DEF LaunchFirst

\* The monitor is started and the nodes, or one of them fails.
LEMMA AttachKeeps == ASSUME SimInv, NEW u \in Students, Attach(u) PROVE SimInv'
PROOF
<1>1. PICK s : s = student[u]
  OBVIOUS
<1>2. s \in StudentStates /\ Own(s, truth[u], talk[u]) /\ s.pc = "attaching"
  BY <1>1, StudentKnown DEF Attach, At
<1>3. PICK m : m = [s EXCEPT !.watched = TRUE]
  OBVIOUS
<1>4. m \in StudentStates /\ Own(m, truth[u], talk[u]) /\ m.slot = s.slot /\ m.pc = "attaching"
  BY <1>2, <1>3 DEF StudentStates, Own, Stays, Progressed, Spoke, Through
<1>5. Productives(<<>>) = 0
  <2>1. {i \in DOMAIN <<>> : <<>>[i] = "productive"} = {}
    OBVIOUS
  <2> QED BY <2>1, FS_EmptySet DEF Productives
<1>6. PICK a : a = [m EXCEPT !.pc = "acting"]
  OBVIOUS
<1>7. a \in StudentStates /\ Own(a, truth[u], talk[u]) /\ a.slot = s.slot
  <2>1. a \in StudentStates
    BY <1>4, <1>6 DEF StudentStates, SimStates
  <2>2. /\ a.pc = "acting" /\ a.slot = m.slot /\ a.first = m.first /\ a.watched = m.watched
        /\ a.second = m.second /\ a.passed = m.passed /\ a.step = m.step /\ a.made = m.made
        /\ a.offset = m.offset /\ a.asked = m.asked /\ m.watched = TRUE
    BY <1>2, <1>3, <1>4, <1>6 DEF StudentStates
  <2>3. Stays(a)
    BY <1>4, <2>2 DEF Own, Stays
  <2>4. Progressed(a, truth[u])
    <3>1. m.step = 0 /\ m.made = 0 /\ truth[u] = <<>>
      BY <1>4 DEF Own, Progressed
    <3>2. 0 * WindowsPerStep + 0 = 0
      BY SimAssumption
    <3> QED BY <3>1, <3>2, <1>5, <2>2 DEF Progressed
  <2>5. Spoke(a, talk[u])
    BY <1>4, <2>2 DEF Own, Spoke, Through
  <2> QED BY <2>1, <2>2, <2>3, <2>4, <2>5, <1>4 DEF Own
<1>8. PICK n : n \in {Over(s, "failed"), Over(m, "failed"), a} /\ student' = [student EXCEPT ![u] = n]
  BY <1>1, <1>3, <1>6 DEF Attach, Fails, Ends
<1>9. n \in StudentStates /\ Own(n, truth[u], talk[u]) /\ n.slot = s.slot
  BY <1>2, <1>4, <1>7, <1>8, Gone, OverIs DEF Through
<1> QED BY <1>1, <1>2, <1>8, <1>9, StudentKnown, StudentMoved DEF Attach

\* A window begins: with progress, or with what the mode makes of it.
LEMMA WindowKeeps == ASSUME SimInv, NEW u \in Students, NextWindow(u) PROVE SimInv'
PROOF
<1>1. PICK s : s = student[u]
  OBVIOUS
<1>2. s \in StudentStates /\ Own(s, truth[u], talk[u]) /\ s.pc = "acting"
  BY <1>1, StudentKnown DEF NextWindow, At
<1>3. UNCHANGED <<used, others, truth, talk>>
  BY DEF NextWindow
<1>4. PICK mode \in NextModes(s) :
        IF mode = "productive"
        THEN student' = [student EXCEPT ![u] = Productive1(s)]
        ELSE \E action \in ActionsIn(mode) :
               student' = [student EXCEPT ![u].pc = "doing", ![u].mode = mode, ![u].action = action]
  BY <1>1 DEF NextWindow
<1>5. s.mode \in Regimes /\ s.step \in Nat /\ s.made \in Nat /\ WindowsPerStep \in Nat
  BY <1>2, SimAssumption DEF StudentStates
<1>6. s.step * WindowsPerStep + s.made = Productives(truth[u])
  BY <1>2 DEF Own, Progressed
<1>7. CASE mode = "productive"
  <2>1. PICK n : n = Productive1(s)
    OBVIOUS
  <2>2. CASE s.made + 1 = WindowsPerStep
    <3>0. PICK action \in {"submit", "correct_cmd"} :
            action = IF s.step + 1 >= StepsToDo THEN "submit" ELSE "correct_cmd"
      OBVIOUS
    <3>1. n = [s EXCEPT !.pc = "doing", !.mode = "productive", !.step = s.step + 1, !.made = 0,
                        !.action = action]
      BY <2>1, <2>2, <3>0 DEF Productive1
    <3>2. /\ n \in StudentStates /\ n.pc = "doing" /\ n.mode = "productive"
          /\ n.step = s.step + 1 /\ n.made = 0 /\ n.slot = s.slot /\ n.first = s.first
          /\ n.watched = s.watched /\ n.second = s.second /\ n.passed = s.passed
          /\ n.offset = s.offset /\ n.asked = s.asked
      <4>1. PICK k \in Nat, l \in Nat : k = s.step + 1 /\ l = 0
        BY <1>5
      <4>2. n = [s EXCEPT !.pc = "doing", !.mode = "productive", !.step = k, !.made = l, !.action = action]
        BY <3>1, <4>1
      <4>3. n \in StudentStates
        BY <1>2, <3>0, <4>2 DEF StudentStates, SimStates, Regimes
      <4> QED BY <1>2, <4>1, <4>2, <4>3 DEF StudentStates
    <3>3. (s.step + 1) * WindowsPerStep = s.step * WindowsPerStep + WindowsPerStep
      BY <1>5
    <3>4. s.step * WindowsPerStep \in Nat
      BY <1>5
    <3>5. n.step * WindowsPerStep + n.made = Productives(truth[u]) + 1
      BY <1>5, <1>6, <2>2, <3>2, <3>3, <3>4
    <3>6. Own(n, truth[u], talk[u])
      BY <1>2, <3>2, <3>5 DEF Own, Stays, Progressed, Unrecorded, Spoke, Through
    <3>7. student' = [student EXCEPT ![u] = n]
      BY <1>4, <1>7, <2>1
    <3> QED BY <1>1, <1>2, <1>3, <3>2, <3>6, <3>7, StudentAlone
  <2>3. CASE s.made + 1 # WindowsPerStep
    <3>0. PICK action \in {"submit", "correct_cmd"} :
            action = IF s.step >= StepsToDo THEN "submit" ELSE "correct_cmd"
      OBVIOUS
    <3>1. n = [s EXCEPT !.pc = "doing", !.mode = "productive", !.step = s.step, !.made = s.made + 1,
                        !.action = action]
      BY <2>1, <2>3, <3>0 DEF Productive1
    <3>2. /\ n \in StudentStates /\ n.pc = "doing" /\ n.mode = "productive"
          /\ n.step = s.step /\ n.made = s.made + 1 /\ n.slot = s.slot /\ n.first = s.first
          /\ n.watched = s.watched /\ n.second = s.second /\ n.passed = s.passed
          /\ n.offset = s.offset /\ n.asked = s.asked
      <4>1. PICK k \in Nat, l \in Nat : k = s.step /\ l = s.made + 1
        BY <1>5
      <4>2. n = [s EXCEPT !.pc = "doing", !.mode = "productive", !.step = k, !.made = l, !.action = action]
        BY <3>1, <4>1
      <4>3. n \in StudentStates
        BY <1>2, <3>0, <4>2 DEF StudentStates, SimStates, Regimes
      <4> QED BY <1>2, <4>1, <4>2, <4>3 DEF StudentStates
    <3>4. s.step * WindowsPerStep \in Nat
      BY <1>5
    <3>5. n.step * WindowsPerStep + n.made = Productives(truth[u]) + 1
      BY <1>5, <1>6, <3>2, <3>4
    <3>6. Own(n, truth[u], talk[u])
      BY <1>2, <3>2, <3>5 DEF Own, Stays, Progressed, Unrecorded, Spoke, Through
    <3>7. student' = [student EXCEPT ![u] = n]
      BY <1>4, <1>7, <2>1
    <3> QED BY <1>1, <1>2, <1>3, <3>2, <3>6, <3>7, StudentAlone
  <2> QED BY <2>2, <2>3
<1>8. CASE mode # "productive"
  <2>1. PICK action \in ActionsIn(mode) :
          student' = [student EXCEPT ![u].pc = "doing", ![u].mode = mode, ![u].action = action]
    BY <1>4, <1>8
  <2>2. mode \in Regimes
    BY <1>5 DEF NextModes, PairsOf, Regimes
  <2>3. action \in {"ask_help", "repeat_error", "wrong_cmd", "idle"}
    BY DEF ActionsIn
  <2>4. PICK n : n = [s EXCEPT !.pc = "doing", !.mode = mode, !.action = action]
    OBVIOUS
  <2>5. /\ n \in StudentStates /\ n.pc = "doing" /\ n.mode = mode
        /\ n.step = s.step /\ n.made = s.made /\ n.slot = s.slot /\ n.first = s.first
        /\ n.watched = s.watched /\ n.second = s.second /\ n.passed = s.passed
        /\ n.offset = s.offset /\ n.asked = s.asked
    BY <1>2, <2>2, <2>3, <2>4 DEF StudentStates, SimStates
  <2>6. s.step * WindowsPerStep \in Nat
    BY <1>5
  <2>7. n.step * WindowsPerStep + n.made = Productives(truth[u]) + 0
    BY <1>5, <1>6, <2>5, <2>6
  <2>8. Own(n, truth[u], talk[u])
    BY <1>2, <1>8, <2>5, <2>7 DEF Own, Stays, Progressed, Unrecorded, Spoke, Through
  <2>9. student' = [student EXCEPT ![u] = n]
    BY <1>1, <2>1, <2>4 DEF SimInv, SimTyped
  <2> QED BY <1>1, <1>2, <1>3, <2>5, <2>8, <2>9, StudentAlone
<1> QED BY <1>7, <1>8

\* A command is typed.
LEMMA ConfigureKeeps == ASSUME SimInv, NEW u \in Students, Configure(u) PROVE SimInv'
PROOF
<1>1. PICK s : s = student[u]
  OBVIOUS
<1>2. s \in StudentStates /\ Own(s, truth[u], talk[u]) /\ s.pc = "doing"
  BY <1>1, StudentKnown DEF Configure, At
<1>3. UNCHANGED <<used, others, truth, talk>>
  BY DEF Configure
<1>5. PICK n : n = IF Tasks = 0 THEN [s EXCEPT !.pc = "done"]
                   ELSE [s EXCEPT !.pc = "done", !.typed = <<NodeNow(s), s.action = "correct_cmd">>,
                                  !.tasks = IF s.action = "correct_cmd" THEN s.tasks + 1 ELSE s.tasks]
  OBVIOUS
<1>6. student' = [student EXCEPT ![u] = n]
  BY <1>1, <1>5 DEF Configure
<1>7. /\ n \in StudentStates /\ n.pc = "done" /\ n.mode = s.mode
      /\ n.step = s.step /\ n.made = s.made /\ n.slot = s.slot /\ n.first = s.first
      /\ n.watched = s.watched /\ n.second = s.second /\ n.passed = s.passed
      /\ n.offset = s.offset /\ n.asked = s.asked
  <2>1. CASE Tasks = 0
    BY <1>2, <1>5, <2>1 DEF StudentStates, SimStates
  <2>2. CASE Tasks # 0
    <3>0. Tasks \in Nat /\ s.tasks \in Nat
      BY <1>2, SimAssumption DEF StudentStates
    <3>1. NodeNow(s) \in Nat
      BY <2>2, <3>0 DEF NodeNow
    <3>2. (s.action = "correct_cmd") \in BOOLEAN
      OBVIOUS
    <3>3. PICK typed : typed = <<NodeNow(s), s.action = "correct_cmd">>
      OBVIOUS
    <3>4. typed \in Nat \X BOOLEAN
      BY <3>1, <3>2, <3>3
    <3>5. PICK tasks \in Nat : tasks = IF s.action = "correct_cmd" THEN s.tasks + 1 ELSE s.tasks
      BY <3>0
    <3>6. n = [s EXCEPT !.pc = "done", !.typed = typed, !.tasks = tasks]
      BY <1>5, <2>2, <3>3, <3>5
    <3> QED BY <1>2, <3>4, <3>6 DEF StudentStates, SimStates
  <2> QED BY <2>1, <2>2
<1>8. Own(n, truth[u], talk[u])
  BY <1>2, <1>7 DEF Own, Stays, Progressed, Unrecorded, Spoke, Through
<1> QED BY <1>1, <1>2, <1>3, <1>6, <1>7, <1>8, StudentAlone

\* A request for help is saved.
LEMMA AskHelpKeeps == ASSUME SimInv, NEW u \in Students, AskHelp(u) PROVE SimInv'
PROOF
<1>1. PICK s : s = student[u]
  OBVIOUS
<1>2. s \in StudentStates /\ Own(s, truth[u], talk[u]) /\ s.pc = "doing" /\ s.asked \in Nat
  BY <1>1, StudentKnown DEF AskHelp, At, StudentStates
<1>3. UNCHANGED <<used, others, truth>>
  BY DEF AskHelp
<1>4. PICK n : n = [s EXCEPT !.pc = "asked", !.asked = s.asked + 1]
  OBVIOUS
<1>5. student' = [student EXCEPT ![u] = n]
  BY <1>1, <1>4 DEF AskHelp, SimInv, SimTyped
<1>6. PICK q : q = Question(s)
  OBVIOUS
<1>7. PICK t : t = talk[u]
  OBVIOUS
<1>8. PICK a : a = Append(t, q)
  OBVIOUS
<1>9. talk' = [talk EXCEPT ![u] = a]
  BY <1>1, <1>6, <1>7, <1>8 DEF AskHelp
<1>10. /\ a \in Seq(ToSet(a)) /\ Len(t) \in Nat /\ DOMAIN t = 1 .. Len(t)
       /\ DOMAIN a = 1 .. (Len(t) + 1) /\ Len(a) = Len(t) + 1 /\ a[Len(t) + 1] = q
       /\ \A i \in 1 .. Len(t) : a[i] = t[i]
  BY <1>7, <1>8, StudentKnown, RowAdded
<1>11. /\ n \in StudentStates /\ n.pc = "asked" /\ n.mode = s.mode
       /\ n.step = s.step /\ n.made = s.made /\ n.slot = s.slot /\ n.first = s.first
       /\ n.watched = s.watched /\ n.second = s.second /\ n.passed = s.passed
       /\ n.offset = s.offset /\ n.asked = s.asked + 1
  <2>1. PICK k \in Nat : k = s.asked + 1
    BY <1>2
  <2>2. n = [s EXCEPT !.pc = "asked", !.asked = k]
    BY <1>4, <2>1
  <2> QED BY <1>2, <2>1, <2>2 DEF StudentStates, SimStates
<1>12. Len(t) = 2 * s.asked /\ Spoke(s, t)
  BY <1>2, <1>7 DEF Own, Spoke, Through
<1>13. /\ q.role = "user" /\ q.attempt = s.asked
       /\ q.phrase = PhraseAt(s.offset, q.attempt, q.tried)
  BY <1>6 DEF Question, Phrase, PhraseAt
<1>14. Spoke(n, a)
  <2>1. ASSUME NEW i \in DOMAIN a
        PROVE  /\ a[i].role = IF i % 2 = 1 THEN "user" ELSE "assistant"
               /\ i % 2 = 1 =>
                    /\ a[i].attempt \in Nat /\ i = 2 * a[i].attempt + 1
                    /\ a[i].phrase = PhraseAt(n.offset, a[i].attempt, a[i].tried)
    <3>1. CASE i = Len(t) + 1
      <4>1. i % 2 = 1
        BY <3>1, <1>2, <1>12
      <4> QED BY <3>1, <4>1, <1>2, <1>10, <1>11, <1>12, <1>13
    <3>2. CASE i # Len(t) + 1
      <4>1. i \in DOMAIN t /\ a[i] = t[i]
        BY <3>2, <1>10
      <4> QED BY <4>1, <1>11, <1>12 DEF Spoke
    <3> QED BY <3>1, <3>2
  <2>2. Len(a) + 1 = 2 * n.asked
    BY <1>2, <1>10, <1>11, <1>12
  <2> QED BY <2>1, <2>2, <1>11 DEF Spoke
<1>15. Own(n, truth[u], a)
  BY <1>2, <1>11, <1>14 DEF Own, Stays, Progressed, Unrecorded
<1> QED BY <1>1, <1>2, <1>3, <1>5, <1>9, <1>10, <1>11, <1>15, StudentKnown, StudentMoved

\* The answer is saved, or the turn fails.
LEMMA ReplyKeeps == ASSUME SimInv, NEW u \in Students, TutorReplies(u) PROVE SimInv'
PROOF
<1>1. PICK s : s = student[u]
  OBVIOUS
<1>2. s \in StudentStates /\ Own(s, truth[u], talk[u]) /\ s.pc = "asked" /\ s.asked \in Nat
  BY <1>1, StudentKnown DEF TutorReplies, At, StudentStates
<1>3. UNCHANGED <<used, others, truth>>
  BY DEF TutorReplies
<1>4. CASE Fails(u) /\ UNCHANGED talk
  <2>1. PICK n : n = Over(s, "failed")
    OBVIOUS
  <2>2. n \in StudentStates /\ Own(n, truth[u], talk[u]) /\ n.slot = s.slot
    BY <1>2, <2>1, Gone, OverIs DEF Through
  <2>3. student' = [student EXCEPT ![u] = n]
    BY <1>1, <1>4, <2>1 DEF Fails, Ends
  <2> QED BY <1>1, <1>2, <1>3, <1>4, <2>2, <2>3, StudentKnown, StudentMoved
<1>5. ASSUME student' = [student EXCEPT ![u].pc = "done"], NEW q, q.role = "assistant",
             talk' = [talk EXCEPT ![u] = Append(talk[u], q)]
      PROVE  SimInv'
  <2>1. PICK n : n = [s EXCEPT !.pc = "done"]
    OBVIOUS
  <2>2. student' = [student EXCEPT ![u] = n]
    BY <1>1, <1>5, <2>1 DEF SimInv, SimTyped
  <2>3. PICK t : t = talk[u]
    OBVIOUS
  <2>4. PICK a : a = Append(t, q)
    OBVIOUS
  <2>5. talk' = [talk EXCEPT ![u] = a]
    BY <1>5, <2>3, <2>4
  <2>6. /\ a \in Seq(ToSet(a)) /\ Len(t) \in Nat /\ DOMAIN t = 1 .. Len(t)
        /\ DOMAIN a = 1 .. (Len(t) + 1) /\ Len(a) = Len(t) + 1 /\ a[Len(t) + 1] = q
        /\ \A i \in 1 .. Len(t) : a[i] = t[i]
    BY <2>3, <2>4, StudentKnown, RowAdded
  <2>7. /\ n \in StudentStates /\ n.pc = "done" /\ n.mode = s.mode
        /\ n.step = s.step /\ n.made = s.made /\ n.slot = s.slot /\ n.first = s.first
        /\ n.watched = s.watched /\ n.second = s.second /\ n.passed = s.passed
        /\ n.offset = s.offset /\ n.asked = s.asked
    BY <1>2, <2>1 DEF StudentStates, SimStates
  <2>8. Len(t) + 1 = 2 * s.asked /\ Spoke(s, t)
    BY <1>2, <2>3 DEF Own, Spoke, Through
  <2>9. Spoke(n, a)
    <3>1. ASSUME NEW i \in DOMAIN a
          PROVE  /\ a[i].role = IF i % 2 = 1 THEN "user" ELSE "assistant"
                 /\ i % 2 = 1 =>
                      /\ a[i].attempt \in Nat /\ i = 2 * a[i].attempt + 1
                      /\ a[i].phrase = PhraseAt(n.offset, a[i].attempt, a[i].tried)
      <4>1. CASE i = Len(t) + 1
        <5>1. i % 2 = 0
          BY <4>1, <1>2, <2>8
        <5> QED BY <4>1, <5>1, <1>5, <2>6
      <4>2. CASE i # Len(t) + 1
        <5>1. i \in DOMAIN t /\ a[i] = t[i]
          BY <4>2, <2>6
        <5> QED BY <5>1, <2>7, <2>8 DEF Spoke
      <4> QED BY <4>1, <4>2
    <3>2. Len(a) = 2 * n.asked
      BY <2>6, <2>7, <2>8
    <3> QED BY <3>1, <3>2, <2>7 DEF Spoke, Through
  <2>10. Own(n, truth[u], a)
    BY <1>2, <2>7, <2>9 DEF Own, Stays, Progressed, Unrecorded
  <2> QED BY <1>1, <1>2, <1>3, <2>2, <2>5, <2>6, <2>7, <2>10, StudentKnown, StudentMoved
<1> QED
  <2>1. CASE /\ student' = [student EXCEPT ![u].pc = "done"]
             /\ talk' = [talk EXCEPT ![u] = Append(@, [role |-> "assistant", stage |-> Min({Last(@).attempt, 3})])]
    <3>1. PICK q : q = [role |-> "assistant", stage |-> Min({Last(talk[u]).attempt, 3})]
      OBVIOUS
    <3>2. talk' = [talk EXCEPT ![u] = Append(talk[u], q)]
      BY <2>1, <3>1
    <3>3. q.role = "assistant"
      BY <3>1
    <3> QED BY <1>5, <2>1, <3>2, <3>3
  <2> QED BY <1>4, <2>1 DEF TutorReplies

\* The regime of the window is recorded, or the write fails.
LEMMA RecordKeeps == ASSUME SimInv, NEW u \in Students, RecordTruth(u) PROVE SimInv'
PROOF
<1>1. PICK s : s = student[u]
  OBVIOUS
<1>2. s \in StudentStates /\ Own(s, truth[u], talk[u]) /\ s.pc \in {"doing", "done"}
  BY <1>1, StudentKnown DEF RecordTruth, At
<1>3. UNCHANGED <<used, others, talk>>
  BY DEF RecordTruth
<1>4. CASE Fails(u) /\ UNCHANGED truth
  <2>1. PICK n : n = Over(s, "failed")
    OBVIOUS
  <2>2. n \in StudentStates /\ Own(n, truth[u], talk[u]) /\ n.slot = s.slot
    BY <1>2, <2>1, Gone, OverIs DEF Through
  <2>3. student' = [student EXCEPT ![u] = n]
    BY <1>1, <1>4, <2>1 DEF Fails, Ends
  <2> QED BY <1>1, <1>2, <1>3, <1>4, <2>2, <2>3, StudentAlone
<1>5. CASE /\ truth' = [truth EXCEPT ![u] = Append(truth[u], student[u].mode)]
           /\ student' = [student EXCEPT ![u].pc = "acting", ![u].action = "none"]
  <2>1. PICK n : n = [s EXCEPT !.pc = "acting", !.action = "none"]
    OBVIOUS
  <2>2. student' = [student EXCEPT ![u] = n]
    BY <1>1, <1>5, <2>1 DEF SimInv, SimTyped
  <2>3. PICK r : r = Append(truth[u], s.mode)
    OBVIOUS
  <2>4. truth' = [truth EXCEPT ![u] = r]
    BY <1>1, <1>5, <2>3
  <2>5. s.mode \in Regimes /\ truth[u] \in Seq(Regimes)
    BY <1>2, StudentKnown DEF StudentStates
  <2>6. r \in Seq(Regimes) /\ Productives(r) = Productives(truth[u]) + Unrecorded(s)
    BY <2>3, <2>5, RegimeAdded DEF Unrecorded
  <2>7. /\ n \in StudentStates /\ n.pc = "acting"
        /\ n.step = s.step /\ n.made = s.made /\ n.slot = s.slot /\ n.first = s.first
        /\ n.watched = s.watched /\ n.second = s.second /\ n.passed = s.passed
        /\ n.offset = s.offset /\ n.asked = s.asked
    BY <1>2, <2>1 DEF StudentStates, SimStates
  <2>8. Own(n, r, talk[u])
    <3>1. Stays(n)
      BY <1>2, <2>7 DEF Own, Stays
    <3>2. Progressed(n, r)
      BY <1>2, <2>6, <2>7 DEF Own, Progressed
    <3>3. Spoke(n, talk[u])
      BY <1>2, <2>7 DEF Own, Spoke, Through
    <3> QED BY <3>1, <3>2, <3>3 DEF Own
  <2>9. talk' = [talk EXCEPT ![u] = talk[u]]
    BY <1>3, StudentKnown
  <2> QED BY <1>1, <1>2, <1>3, <2>2, <2>4, <2>6, <2>7, <2>8, <2>9, StudentKnown, StudentMoved
<1> QED BY <1>4, <1>5 DEF RecordTruth

\* The progress on the first lab is written.
LEMMA WriteKeeps == ASSUME SimInv, NEW u \in Students, WriteFirst(u) PROVE SimInv'
PROOF
<1>1. PICK s : s = student[u]
  OBVIOUS
<1>2. s \in StudentStates /\ Own(s, truth[u], talk[u]) /\ s.pc = "acting"
  BY <1>1, StudentKnown DEF WriteFirst, At
<1>3. UNCHANGED <<used, others, truth, talk>>
  BY DEF WriteFirst
<1>4. PICK completed \in BOOLEAN :
        student' = [student EXCEPT ![u].pc = "ending", ![u].progress = completed]
  BY DEF WriteFirst
<1>5. PICK n : n = [s EXCEPT !.pc = "ending", !.progress = completed]
  OBVIOUS
<1>6. student' = [student EXCEPT ![u] = n]
  BY <1>1, <1>4, <1>5 DEF SimInv, SimTyped
<1>7. /\ n \in StudentStates /\ n.pc = "ending" /\ n.progress \in BOOLEAN
      /\ n.slot = s.slot /\ n.first = s.first
      /\ n.watched = s.watched /\ n.second = s.second /\ n.passed = s.passed
      /\ n.offset = s.offset /\ n.asked = s.asked
  BY <1>2, <1>5 DEF StudentStates, SimStates
<1>8. Own(n, truth[u], talk[u])
  BY <1>2, <1>7 DEF Own, Stays, Progressed, Spoke, Through
<1> QED BY <1>1, <1>2, <1>3, <1>6, <1>7, <1>8, StudentAlone

\* The first lab ends, and gives its slot back.
LEMMA EndFirstKeeps == ASSUME SimInv, NEW u \in Students, EndFirst(u) PROVE SimInv'
PROOF
<1>1. PICK s : s = student[u]
  OBVIOUS
<1>2. s \in StudentStates /\ Own(s, truth[u], talk[u]) /\ s.pc = "ending" /\ s.slot
  BY <1>1, StudentKnown DEF EndFirst, At, Own, Stays
<1>3. used' = Given("first") /\ UNCHANGED <<others, truth, talk>>
  BY DEF EndFirst
<1>4. s.progress \in BOOLEAN
  BY <1>2 DEF Own, Stays
<1>5. PICK m : m = [s EXCEPT !.watched = FALSE, !.first = "ended", !.slot = FALSE,
                             !.passed["first"] = s.progress]
  OBVIOUS
<1>6. PICK passed : passed = [s.passed EXCEPT !["first"] = s.progress]
  OBVIOUS
<1>7. passed \in [SimLabs -> BOOLEAN \cup {None}] /\ passed["first"] = s.progress
  BY <1>2, <1>4, <1>6 DEF StudentStates, SimLabs
<1>8. m = [s EXCEPT !.watched = FALSE, !.first = "ended", !.slot = FALSE, !.passed = passed]
  BY <1>2, <1>5, <1>6 DEF StudentStates
<1>9. /\ m \in StudentStates /\ m.pc = s.pc /\ ~m.watched /\ m.first = "ended" /\ ~m.slot
      /\ m.passed = passed /\ m.second = s.second /\ m.offset = s.offset /\ m.asked = s.asked
  BY <1>2, <1>7, <1>8 DEF StudentStates, Rows3
<1>10. Ends(u, m, IF s.progress /\ HasPair THEN "second" ELSE "reported")
  BY <1>1, <1>5 DEF EndFirst
<1>11. PICK n : n = IF s.progress /\ HasPair THEN [m EXCEPT !.pc = "second"] ELSE Over(m, "reported")
  OBVIOUS
<1>12. student' = [student EXCEPT ![u] = n]
  BY <1>10, <1>11 DEF Ends
<1>13. s.second = "none" /\ Spoke(s, talk[u])
  BY <1>2 DEF Own, Stays
<1>14. n \in StudentStates /\ ~n.slot /\ Own(n, truth[u], talk[u])
  <2>1. CASE s.progress /\ HasPair
    <3>1. /\ n \in StudentStates /\ n.pc = "second" /\ ~n.watched /\ n.first = "ended" /\ ~n.slot
          /\ n.passed["first"] = TRUE /\ n.second = "none" /\ n.offset = s.offset /\ n.asked = s.asked
      <4>1. n = [m EXCEPT !.pc = "second"]
        BY <2>1, <1>11
      <4>2. s.progress = TRUE
        BY <2>1, <1>4
      <4> QED BY <4>1, <4>2, <1>7, <1>9, <1>13 DEF StudentStates, SimStates
    <3>2. Stays(n)
      BY <2>1, <3>1 DEF Stays
    <3>3. Progressed(n, truth[u])
      BY <3>1 DEF Progressed
    <3>4. Spoke(n, talk[u])
      BY <1>2, <1>13, <3>1 DEF Spoke, Through
    <3> QED BY <3>1, <3>2, <3>3, <3>4 DEF Own
  <2>2. CASE ~(s.progress /\ HasPair)
    <3>1. n = Over(m, "reported")
      BY <2>2, <1>11
    <3>2. /\ n \in StudentStates /\ n.pc = "reported" /\ n.slot = m.slot /\ n.watched = m.watched
          /\ n.first = "ended" /\ n.second = "none" /\ n.offset = s.offset
      BY <3>1, <1>9, <1>13, OverIs DEF Through
    <3>3. Stays(n)
      BY <3>2, <1>9 DEF Stays
    <3>4. Progressed(n, truth[u])
      BY <3>2 DEF Progressed
    <3>5. Spoke(n, talk[u])
      BY <1>13, <3>2 DEF Spoke, Through
    <3> QED BY <1>9, <3>2, <3>3, <3>4, <3>5 DEF Own
  <2> QED BY <2>1, <2>2
<1>15. /\ used' \in [Counters -> Nat]
       /\ used'["first"] = IF used["first"] > 0 THEN used["first"] - 1 ELSE used["first"]
  BY <1>3, StudentKnown, SlotCounted DEF SimLabs
<1>16. truth' = [truth EXCEPT ![u] = truth[u]] /\ talk' = [talk EXCEPT ![u] = talk[u]] /\ others' = others
  BY <1>3, StudentKnown
<1> QED BY <1>1, <1>2, <1>12, <1>14, <1>15, <1>16, StudentKnown, StudentMoved

\* The second lab is opened.
LEMMA OpenKeeps == ASSUME SimInv, NEW u \in Students, OpenSecond(u) PROVE SimInv'
PROOF
<1>1. PICK s : s = student[u]
  OBVIOUS
<1>2. s \in StudentStates /\ Own(s, truth[u], talk[u]) /\ s.pc = "second"
  BY <1>1, StudentKnown DEF OpenSecond, At
<1>3. UNCHANGED <<used, others, truth, talk>>
  BY DEF OpenSecond
<1>4. PICK completed \in BOOLEAN, pc \in {"closing", "failed"} :
        Ends(u, [s EXCEPT !.second = "open", !.progress = completed], pc)
  BY <1>1 DEF OpenSecond
<1>5. PICK m : m = [s EXCEPT !.second = "open", !.progress = completed]
  OBVIOUS
<1>6. /\ m \in StudentStates /\ m.second = "open" /\ m.pc = s.pc /\ m.slot = s.slot
      /\ m.first = s.first /\ m.watched = s.watched /\ m.passed = s.passed
      /\ m.offset = s.offset /\ m.asked = s.asked
  BY <1>2, <1>5 DEF StudentStates, Rows3
<1>7. PICK n : n = IF pc = "failed" THEN Over(m, "failed") ELSE [m EXCEPT !.pc = "closing"]
  OBVIOUS
<1>8. student' = [student EXCEPT ![u] = n]
  BY <1>4, <1>5, <1>7 DEF Ends
<1>9. /\ n \in StudentStates /\ n.pc \in {"closing", "failed"} /\ n.second = "open"
      /\ n.slot = s.slot /\ n.first = s.first /\ n.watched = s.watched /\ n.passed = s.passed
      /\ n.offset = s.offset /\ (n.pc = "closing" => n.asked = s.asked)
  <2>1. CASE pc = "failed"
    BY <1>6, <1>7, <2>1, OverIs DEF Through
  <2>2. CASE pc # "failed"
    <3>1. n = [m EXCEPT !.pc = "closing"]
      BY <1>7, <2>2
    <3> QED BY <1>6, <3>1 DEF StudentStates, SimStates
  <2> QED BY <2>1, <2>2
<1>10. Own(n, truth[u], talk[u])
  BY <1>2, <1>9 DEF Own, Stays, Progressed, Spoke, Through
<1> QED BY <1>1, <1>2, <1>3, <1>8, <1>9, <1>10, StudentAlone

\* It ends as any session does.
LEMMA EndSecondKeeps == ASSUME SimInv, NEW u \in Students, EndSecond(u) PROVE SimInv'
PROOF
<1>1. PICK s : s = student[u]
  OBVIOUS
<1>2. s \in StudentStates /\ Own(s, truth[u], talk[u]) /\ s.pc = "closing"
  BY <1>1, StudentKnown DEF EndSecond, At
<1>3. used' = Given("second") /\ UNCHANGED <<others, truth, talk>>
  BY DEF EndSecond
<1>4. PICK passed : passed = [s.passed EXCEPT !["second"] = s.progress]
  OBVIOUS
<1>5. passed \in [SimLabs -> BOOLEAN \cup {None}] /\ passed["first"] = s.passed["first"]
  BY <1>2, <1>4 DEF StudentStates, SimLabs
<1>6. PICK m : m = [s EXCEPT !.second = "ended", !.passed = passed]
  OBVIOUS
<1>7. m = [s EXCEPT !.second = "ended", !.passed["second"] = s.progress]
  BY <1>2, <1>4, <1>6 DEF StudentStates
<1>8. /\ m \in StudentStates /\ m.second = "ended" /\ m.passed = passed /\ m.slot = s.slot
      /\ m.first = s.first /\ m.watched = s.watched /\ m.offset = s.offset
  BY <1>2, <1>5, <1>6 DEF StudentStates, Rows3
<1>9. PICK n : n = Over(m, "reported")
  OBVIOUS
<1>10. student' = [student EXCEPT ![u] = n]
  BY <1>1, <1>7, <1>9 DEF EndSecond, Ends
<1>11. /\ n \in StudentStates /\ n.pc = "reported" /\ n.second = "ended"
       /\ n.passed["first"] = s.passed["first"] /\ n.slot = s.slot
       /\ n.first = s.first /\ n.watched = s.watched /\ n.offset = s.offset
  BY <1>5, <1>8, <1>9, OverIs DEF Through
<1>12. s.second # "none" => HasPair /\ s.first = "ended" /\ s.passed["first"] = TRUE
  BY <1>2 DEF Own, Stays
<1>13. s.second # "none"
  BY <1>2 DEF Own, Stays
<1>14. Own(n, truth[u], talk[u])
  BY <1>2, <1>11, <1>12, <1>13 DEF Own, Stays, Progressed, Spoke, Through
<1>15. used' \in [Counters -> Nat] /\ used'["first"] = used["first"]
  BY <1>3, StudentKnown, SlotCounted DEF SimLabs
<1>16. truth' = [truth EXCEPT ![u] = truth[u]] /\ talk' = [talk EXCEPT ![u] = talk[u]] /\ others' = others
  BY <1>3, StudentKnown
<1> QED BY <1>1, <1>2, <1>10, <1>11, <1>14, <1>15, <1>16, StudentKnown, StudentMoved

\* The monitors that are left are stopped.
LEMMA StopCohortKeeps == ASSUME SimInv, StopCohort PROVE SimInv'
PROOF
<1>0. SimTyped
  BY DEF SimInv
<1>1. student' = [u \in Students |-> [student[u] EXCEPT !.watched = FALSE]]
      /\ UNCHANGED <<used, others, truth, talk>>
  BY DEF StopCohort
<1>2. ASSUME NEW u \in Students
      PROVE  /\ student'[u] \in StudentStates /\ student'[u].pc = student[u].pc
             /\ student'[u].slot = student[u].slot /\ Own(student'[u], truth[u], talk[u])
  <2>1. PICK s : s = student[u]
    OBVIOUS
  <2>2. s \in StudentStates /\ Own(s, truth[u], talk[u]) /\ s.pc \in Through
    BY <2>1, StudentKnown DEF StopCohort, Through
  <2>3. PICK n : n = [s EXCEPT !.watched = FALSE]
    OBVIOUS
  <2>4. /\ n \in StudentStates /\ n.pc = s.pc /\ n.slot = s.slot /\ n.first = s.first /\ ~n.watched
        /\ n.second = s.second /\ n.passed = s.passed /\ n.offset = s.offset
    BY <2>2, <2>3 DEF StudentStates
  <2>5. Own(n, truth[u], talk[u])
    BY <2>2, <2>4 DEF Own, Stays, Progressed, Spoke, Through
  <2>6. student'[u] = n
    BY <1>1, <2>1, <2>3
  <2> QED BY <2>1, <2>4, <2>5, <2>6
<1>3. Inside' = Inside /\ Holding' = Holding
  BY <1>2 DEF Inside, Holding
<1>4. SimTyped'
  BY <1>0, <1>1, <1>2 DEF SimTyped
<1> QED BY <1>1, <1>2, <1>3, <1>4 DEF SimInv

\* Real learners come and go.
LEMMA OthersKeep ==
  ASSUME SimInv, NEW lab \in SimLabs, OtherStarts(lab) \/ OtherEnds(lab) PROVE SimInv'
PROOF
<1>0. SimTyped /\ lab \in {"first", "second"}
  BY DEF SimInv, SimLabs
<1>1. UNCHANGED <<student, truth, talk>>
  BY DEF OtherStarts, OtherEnds
<1>2. others["first"] \in Nat /\ others[lab] \in Nat /\ used \in [Counters -> Nat]
      /\ Cardinality(Holding) \in Nat /\ used["first"] = Cardinality(Holding) + others["first"]
  <2>1. Holding \subseteq Students /\ IsFiniteSet(Students)
    BY SimAssumption DEF Holding
  <2>2. Cardinality(Holding) \in Nat
    BY <2>1, FS_Subset, FS_CardinalityType
  <2> QED BY <1>0, <2>2 DEF SimInv, SimTyped, SimLabs
<1>3. /\ used' \in [Counters -> Nat] /\ others' \in [SimLabs -> Nat]
      /\ used'["first"] = Cardinality(Holding) + others'["first"]
  <2>1. CASE OtherStarts(lab)
    <3>1. used' = Taken1(lab) /\ others' = [others EXCEPT ![lab] = others[lab] + 1]
      BY <2>1 DEF OtherStarts
    <3>2. others[lab] + 1 \in Nat
      BY <1>2
    <3>3. others' \in [SimLabs -> Nat]
          /\ others'["first"] = IF lab = "first" THEN others["first"] + 1 ELSE others["first"]
      BY <1>0, <3>1, <3>2 DEF SimTyped, SimLabs
    <3>4. used' \in [Counters -> Nat]
          /\ used'["first"] = IF lab = "first" THEN used["first"] + 1 ELSE used["first"]
      BY <1>2, <3>1, SlotCounted
    <3> QED BY <1>2, <3>3, <3>4
  <2>2. CASE OtherEnds(lab)
    <3>1. used' = Given(lab) /\ others' = [others EXCEPT ![lab] = others[lab] - 1] /\ others[lab] > 0
      BY <2>2 DEF OtherEnds
    <3>2. others[lab] - 1 \in Nat
      BY <1>2, <3>1
    <3>3. others' \in [SimLabs -> Nat]
          /\ others'["first"] = IF lab = "first" THEN others["first"] - 1 ELSE others["first"]
      BY <1>0, <3>1, <3>2 DEF SimTyped, SimLabs
    <3>4. used' \in [Counters -> Nat]
          /\ used'["first"] = IF lab = "first" /\ used["first"] > 0
                              THEN used["first"] - 1 ELSE used["first"]
      BY <1>2, <3>1, SlotCounted
    <3>5. lab = "first" => used["first"] > 0
      BY <1>2, <3>1
    <3> QED BY <1>2, <3>3, <3>4, <3>5
  <2> QED BY <2>1, <2>2
<1>4. SimTyped'
  BY <1>0, <1>1, <1>3 DEF SimTyped
<1>5. Inside' = Inside /\ Holding' = Holding
  BY <1>1 DEF Inside, Holding
<1> QED BY <1>1, <1>3, <1>4, <1>5 DEF SimInv

\* At the start nobody has anything.
LEMMA SimStarts == SimInit => SimInv
PROOF
<1> SUFFICES ASSUME SimInit PROVE SimInv
  OBVIOUS
<1>1. ASSUME NEW u \in Students
      PROVE  /\ student[u] \in StudentStates /\ student[u].pc = "out" /\ ~student[u].slot
             /\ Own(student[u], truth[u], talk[u])
  <2>1. PICK systematic \in BOOLEAN, offset \in Offsets : student[u] = NewStudent(systematic, offset)
    BY DEF SimInit
  <2>2. PICK s : s = student[u]
    OBVIOUS
  <2>3. /\ s \in StudentStates /\ s.pc = "out" /\ ~s.slot /\ s.first = "none" /\ s.second = "none"
        /\ s.step = 0 /\ s.made = 0 /\ s.asked = 0
    <3>1. NewStudent(systematic, offset) \in StudentStates
      BY NewIs
    <3>2. PICK n : n = NewStudent(systematic, offset)
      OBVIOUS
    <3>3. /\ n.pc = "out" /\ ~n.slot /\ n.first = "none" /\ n.second = "none"
          /\ n.step = 0 /\ n.made = 0 /\ n.asked = 0
      BY <3>2 DEF NewStudent
    <3> QED BY <2>1, <2>2, <3>1, <3>2, <3>3
  <2>4. truth[u] = <<>> /\ talk[u] = <<>> /\ DOMAIN <<>> = {} /\ Len(<<>>) = 0
    BY EmptySeq DEF SimInit
  <2>5. Own(s, <<>>, <<>>)
    BY <2>3, <2>4 DEF Own, Stays, Progressed, Spoke, Through
  <2> QED BY <2>2, <2>3, <2>4, <2>5
<1>2. SimTyped
  <2>1. student \in [Students -> StudentStates]
    BY <1>1 DEF SimInit
  <2>2. \A S : <<>> \in Seq(S)
    BY EmptySeq
  <2>3. truth \in [Students -> Seq(Regimes)]
    BY <2>2 DEF SimInit
  <2>4. talk = [u \in Students |-> talk[u]] /\ \A u \in Students : talk[u] \in Seq(ToSet(talk[u]))
    <3>1. talk = [u \in Students |-> <<>>]
      BY DEF SimInit
    <3>2. talk = [u \in Students |-> talk[u]]
      BY <3>1
    <3>3. ASSUME NEW u \in Students PROVE talk[u] \in Seq(ToSet(talk[u]))
      <4>1. talk[u] = <<>>
        BY <3>1
      <4> QED BY <4>1, <2>2
    <3> QED BY <3>2, <3>3
  <2>5. used \in [Counters -> Nat] /\ others \in [SimLabs -> Nat]
    BY DEF SimInit, Counters
  <2> QED BY <2>1, <2>3, <2>4, <2>5 DEF SimTyped
<1>3. Inside = {} /\ Holding = {}
  BY <1>1 DEF Inside, Holding
<1>4. Cardinality({}) = 0 /\ Concurrency \in Nat
  BY FS_EmptySet, SimAssumption
<1>5. used["first"] = 0 /\ others["first"] = 0
  BY DEF SimInit, SimLabs
<1> QED BY <1>1, <1>2, <1>3, <1>4, <1>5 DEF SimInv

\* One action at a time.
LEMMA SimStep == SimInv /\ [SimNext]_simVars => SimInv'
PROOF
<1> SUFFICES ASSUME SimInv, [SimNext]_simVars PROVE SimInv'
  OBVIOUS
<1>1. ASSUME NEW u \in Students,
             \/ EnterCohort(u) \/ AskSlot(u) \/ LaunchFirst(u) \/ Attach(u) \/ NextWindow(u)
             \/ Configure(u) \/ AskHelp(u) \/ TutorReplies(u) \/ RecordTruth(u) \/ WriteFirst(u)
             \/ EndFirst(u) \/ OpenSecond(u) \/ EndSecond(u)
      PROVE  SimInv'
  BY <1>1, EnterKeeps, AskSlotKeeps, LaunchKeeps, AttachKeeps, WindowKeeps, ConfigureKeeps,
     AskHelpKeeps, ReplyKeeps, RecordKeeps, WriteKeeps, EndFirstKeeps, OpenKeeps, EndSecondKeeps
<1>2. CASE StopCohort
  BY <1>2, StopCohortKeeps
<1>3. ASSUME NEW lab \in SimLabs, OtherStarts(lab) \/ OtherEnds(lab) PROVE SimInv'
  BY <1>3, OthersKeep
<1>4. CASE UNCHANGED simVars
  BY <1>4 DEF simVars, SimInv, SimTyped, Inside, Holding
<1> QED BY <1>1, <1>2, <1>3, <1>4 DEF SimNext

\* Two requests in a row have phrases that follow each other.
LEMMA PhrasesDiffer ==
  ASSUME NEW o \in Nat, NEW a \in Nat, NEW x, NEW y, y # None
  PROVE  PhraseAt(o, a, x) # PhraseAt(o, a + 1, y)
PROOF
<1>1. PICK p \in 0 .. 4 : p = (o + a) % 5
  OBVIOUS
<1>2. (o + (a + 1)) % 5 = IF p = 4 THEN 0 ELSE p + 1
  BY <1>1
<1>3. PhraseAt(o, a + 1, y) = IF p = 4 THEN 0 ELSE p + 1
  BY <1>2 DEF PhraseAt, Phrases
<1>4. PhraseAt(o, a, x) \in {p, IF p = 1 THEN 0 ELSE p}
  BY <1>1 DEF PhraseAt, Phrases
<1> QED BY <1>3, <1>4

\* A simulated cohort leaves the stack as it found it and tells the truth about
\* itself (simulation/run.py).
THEOREM CohortAlwaysSound == SimSpec => []SimSound
PROOF
<1>1. SimInv => SimSound
  <2> SUFFICES ASSUME SimInv PROVE SimSound
    OBVIOUS
  <2>1. ASSUME NEW u \in Students
        PROVE LET s == student[u]
                  rows == talk[u]
              IN /\ s.slot => s.first = "open" \/ At(u, "launching")
                 /\ s.first = "open" /\ ~At(u, "failed") => s.slot /\ (s.watched \/ At(u, "attaching"))
                 /\ s.second # "none" => HasPair /\ s.first = "ended" /\ s.passed["first"]
                 /\ At(u, "reported") =>
                      /\ s.first = "ended" /\ s.second # "open" /\ ~s.watched
                      /\ \A i \in DOMAIN rows : rows[i].role = IF i % 2 = 1 THEN "user" ELSE "assistant"
                 /\ At(u, "acting") => s.step * WindowsPerStep + s.made = ProductiveWindows(u)
                 /\ \A i, j \in DOMAIN rows :
                      InARow(rows, i, j) /\ <<rows[i].phrase, rows[i].node>> = <<rows[j].phrase, rows[j].node>>
                        => rows[j].tried = None
    <3>1. PICK s : s = student[u]
      OBVIOUS
    <3>2. PICK rows : rows = talk[u]
      OBVIOUS
    <3>3. s \in StudentStates /\ Stays(s) /\ Progressed(s, truth[u]) /\ Spoke(s, rows)
      BY <3>1, <3>2, StudentKnown DEF Own
    <3>4. s.pc \in SimStates
      BY <3>3 DEF StudentStates
    <3>5. /\ s.slot => s.first = "open" \/ At(u, "launching")
          /\ s.first = "open" /\ ~At(u, "failed") => s.slot /\ (s.watched \/ At(u, "attaching"))
      BY <3>1, <3>3, <3>4 DEF Stays, At, SimStates
    <3>6. s.second # "none" => HasPair /\ s.first = "ended" /\ s.passed["first"]
      BY <3>3 DEF Stays
    <3>7. At(u, "reported") => s.first = "ended" /\ s.second # "open" /\ ~s.watched
      BY <3>1, <3>3 DEF Stays, At
    <3>8. At(u, "acting") => s.step * WindowsPerStep + s.made = ProductiveWindows(u)
      BY <3>1, <3>3 DEF Progressed, At, Productives, ProductiveWindows
    <3>9. \A i \in DOMAIN rows : rows[i].role = IF i % 2 = 1 THEN "user" ELSE "assistant"
      BY <3>3 DEF Spoke
    <3>10. ASSUME NEW i \in DOMAIN rows, NEW j \in DOMAIN rows, InARow(rows, i, j),
                  rows[i].phrase = rows[j].phrase, rows[j].tried # None
           PROVE  FALSE
      <4>1. DOMAIN rows = 1 .. Len(rows) /\ Len(rows) \in Nat
        BY <3>2, StudentKnown, LenProperties
      <4>2. i % 2 = 1 /\ j % 2 = 1 /\ i < j
        BY <3>9, <3>10 DEF InARow, IsRequest
      <4>3. j = i + 2
        <5>1. CASE j > i + 2
          <6>1. i + 2 \in DOMAIN rows /\ i + 2 \in i + 1 .. j - 1 /\ (i + 2) % 2 = 1
            BY <5>1, <4>1, <4>2
          <6>2. ~IsRequest(rows[i + 2])
            BY <6>1, <3>10 DEF InARow
          <6> QED BY <6>1, <6>2, <3>9 DEF IsRequest
        <5> QED BY <5>1, <4>1, <4>2
      <4>4. PICK a \in Nat, b \in Nat : a = rows[i].attempt /\ b = rows[j].attempt
        BY <3>3, <4>2 DEF Spoke
      <4>5. i = 2 * a + 1 /\ j = 2 * b + 1
        BY <3>3, <4>2, <4>4 DEF Spoke
      <4>6. b = a + 1
        BY <4>3, <4>5
      <4>7. /\ rows[i].phrase = PhraseAt(s.offset, a, rows[i].tried)
            /\ rows[j].phrase = PhraseAt(s.offset, a + 1, rows[j].tried)
        BY <3>3, <4>2, <4>4, <4>6 DEF Spoke
      <4>8. s.offset \in Nat
        BY <3>3, SimAssumption DEF StudentStates
      <4>9. PhraseAt(s.offset, a, rows[i].tried) # PhraseAt(s.offset, a + 1, rows[j].tried)
        BY <4>8, <3>10, PhrasesDiffer
      <4> QED BY <3>10, <4>7, <4>9
    <3> QED BY <3>1, <3>2, <3>5, <3>6, <3>7, <3>8, <3>9, <3>10
  <2>2. used.first = Cardinality(Holding) + others["first"] /\ Cardinality(Inside) <= Concurrency
    BY DEF SimInv
  <2> QED BY <2>1, <2>2 DEF SimSound
<1> QED BY <1>1, SimStarts, SimStep, PTL DEF SimSpec
=============================================================================
