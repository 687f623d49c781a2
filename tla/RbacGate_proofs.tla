--------------------------- MODULE RbacGate_proofs ---------------------------
(***************************************************************************)
(* The RBAC gate implements the exclusive section for any number of        *)
(* writers and replicas, and its local lock holds under every peril.       *)
(***************************************************************************)
EXTENDS RbacGate, TLAPS

Past == {"inside", "leaving", "deleting"}

\* A writer that steps out is no longer past the lock, and the line moves up.
LEMMA OutMoves ==
  ASSUME GateTypeOK, NEW w \in Writers, HoldsLocal(w), Out(w)
  PROVE  /\ gate'[w] = "out" /\ gate' \in [Writers -> GatePcs]
         /\ token' \in [Writers -> BOOLEAN] /\ line' \in [Replicas -> Seq(Writers)]
         /\ \A v \in Writers : v # w => gate'[v] = gate[v] /\ token'[v] = token[v]
         /\ \A r \in Replicas : r # ReplicaOf[w] => line'[r] = line[r]
<1>1. /\ gate'[w] = "out" /\ gate' \in [Writers -> GatePcs]
      /\ token' \in [Writers -> BOOLEAN]
      /\ \A v \in Writers : v # w => gate'[v] = gate[v] /\ token'[v] = token[v]
  BY DEF GateTypeOK, GatePcs, Out
<1>2. line[ReplicaOf[w]] \in Seq(Writers) /\ line[ReplicaOf[w]] # <<>>
  BY GateAssumption DEF GateTypeOK, HoldsLocal
<1>3. Tail(line[ReplicaOf[w]]) \in Seq(Writers)
  BY <1>2
<1>4. /\ line' \in [Replicas -> Seq(Writers)]
      /\ \A r \in Replicas : r # ReplicaOf[w] => line'[r] = line[r]
  BY <1>3 DEF GateTypeOK, Out, LeaveLine
<1> QED  BY <1>1, <1>4

\* At first nobody is at the gate.
LEMMA GateInitInv == GateInit => GateInv
BY DEF GateInit, GateInv, GateTypeOK, GatePcs, HoldersSound, KeySound

\* Each step keeps the types.
LEMMA GateTypeStep ==
  ASSUME GateTypeOK, HoldersSound, [GateNext]_gateVars
  PROVE  GateTypeOK'
<1> USE DEF GateTypeOK, GatePcs
<1>1. ASSUME NEW w \in Writers, Enter(w) PROVE GateTypeOK'
  <2>1. line[ReplicaOf[w]] \in Seq(Writers)
    BY GateAssumption
  <2>2. Append(line[ReplicaOf[w]], w) \in Seq(Writers)
    BY <2>1
  <2> QED  BY <1>1, <2>2 DEF Enter
<1>2. ASSUME NEW w \in Writers, AcquireKey(w) \/ GoWithout(w) PROVE GateTypeOK'
  BY <1>2 DEF AcquireKey, GoWithout
<1>3. ASSUME NEW w \in Writers, Exit(w) \/ ReadKey(w) \/ DeleteKey(w) PROVE GateTypeOK'
  <2>1. HoldsLocal(w)
    BY <1>3 DEF Exit, ReadKey, DeleteKey, HoldersSound
  <2>2. CASE Out(w)
    <3>1. key' \in Writers \cup {NoToken}
      BY <1>3 DEF Exit, ReadKey, DeleteKey
    <3> QED  BY <2>1, <2>2, <3>1, OutMoves
  <2>3. CASE /\ gate' \in {[gate EXCEPT ![w] = "leaving"], [gate EXCEPT ![w] = "deleting"]}
             /\ UNCHANGED <<line, token, key>>
    BY <2>3
  <2> QED  BY <1>3, <2>2, <2>3 DEF Exit, ReadKey, DeleteKey
<1>4. CASE KeyExpires
  BY <1>4 DEF KeyExpires
<1>5. ASSUME NEW r \in Replicas, GateCrash(r) PROVE GateTypeOK'
  <2>1. <<>> \in Seq(Writers)
    OBVIOUS
  <2> QED  BY <1>5, <2>1 DEF GateCrash
<1>6. CASE UNCHANGED gateVars
  BY <1>6 DEF gateVars
<1> QED  BY <1>1, <1>2, <1>3, <1>4, <1>5, <1>6 DEF GateNext, GateStep

\* Who is past the local lock holds it: joining the line does not move its head,
\* and the only writer that moves it is the head.
LEMMA HoldersStep ==
  ASSUME GateTypeOK, HoldersSound, [GateNext]_gateVars
  PROVE  HoldersSound'
<1> USE DEF GateTypeOK, HoldersSound, HoldsLocal
<1>1. ASSUME NEW w \in Writers, Enter(w) PROVE HoldersSound'
  <2>1. \A v \in Writers : gate'[v] \in Past => gate[v] \in Past
    BY <1>1 DEF Enter, Past
  <2>2. \A r \in Replicas : line[r] # <<>> => line'[r] # <<>> /\ Head(line'[r]) = Head(line[r])
    <3>1. ASSUME NEW s \in Seq(Writers), s # <<>>
          PROVE  Append(s, w) # <<>> /\ Head(Append(s, w)) = Head(s)
      BY <3>1
    <3> QED  BY <1>1, <3>1 DEF Enter
  <2> QED  BY <2>1, <2>2, GateAssumption DEF Past
<1>2. ASSUME NEW w \in Writers, AcquireKey(w) \/ GoWithout(w) PROVE HoldersSound'
  BY <1>2 DEF AcquireKey, GoWithout, Admissible
<1>3. ASSUME NEW w \in Writers, Exit(w) \/ ReadKey(w) \/ DeleteKey(w) PROVE HoldersSound'
  <2>1. gate[w] \in Past /\ HoldsLocal(w)
    BY <1>3 DEF Exit, ReadKey, DeleteKey, Past
  <2>2. CASE Out(w)
    <3> SUFFICES ASSUME NEW v \in Writers, gate'[v] \in Past PROVE HoldsLocal(v)'
      BY DEF Past
    <3>1. v # w /\ gate[v] \in Past
      BY <2>1, <2>2, OutMoves DEF Past
    <3>2. HoldsLocal(v)
      BY <3>1 DEF Past
    <3>3. ReplicaOf[v] # ReplicaOf[w]
      BY <2>1, <3>1, <3>2
    <3>4. line'[ReplicaOf[v]] = line[ReplicaOf[v]]
      BY <2>1, <2>2, <3>3, OutMoves, GateAssumption
    <3> QED  BY <3>2, <3>4
  <2>3. CASE /\ gate' \in {[gate EXCEPT ![w] = "leaving"], [gate EXCEPT ![w] = "deleting"]}
             /\ UNCHANGED line
    BY <2>1, <2>3 DEF Past
  <2> QED  BY <1>3, <2>2, <2>3 DEF Exit, ReadKey, DeleteKey
<1>4. CASE KeyExpires
  BY <1>4 DEF KeyExpires
<1>5. ASSUME NEW r \in Replicas, GateCrash(r) PROVE HoldersSound'
  BY <1>5, GateAssumption DEF GateCrash
<1>6. CASE UNCHANGED gateVars
  BY <1>6 DEF gateVars
<1> QED  BY <1>1, <1>2, <1>3, <1>4, <1>5, <1>6 DEF GateNext, GateStep

\* While the key can be trusted, who is past the lock has it: it is set when it is
\* free, deleted by its owner and expires without one.
LEMMA KeyStep ==
  ASSUME GateTypeOK, HoldersSound, KeySound, [GateNext]_gateVars
  PROVE  KeySound'
<1> SUFFICES ASSUME GatePerils \subseteq {"crash"}
             PROVE  \A w \in Writers : gate'[w] \in Past => key' = w /\ token'[w]
  BY DEF KeySound, Past
<1>1. \A w \in Writers : gate[w] \in Past => key = w /\ token[w]
  BY DEF KeySound, Past
<1> USE DEF GateTypeOK, Past
<1>2. ASSUME NEW w \in Writers, Enter(w)
      PROVE  \A v \in Writers : gate'[v] \in Past => key' = v /\ token'[v]
  BY <1>1, <1>2 DEF Enter
<1>3. ASSUME NEW w \in Writers, AcquireKey(w)
      PROVE  \A v \in Writers : gate'[v] \in Past => key' = v /\ token'[v]
  BY <1>1, <1>3, GateAssumption DEF AcquireKey, KeyIsFree
<1>4. ASSUME NEW w \in Writers, GoWithout(w) PROVE FALSE
  BY <1>4 DEF GoWithout
<1>5. ASSUME NEW w \in Writers, Exit(w) \/ ReadKey(w) \/ DeleteKey(w)
      PROVE  \A v \in Writers : gate'[v] \in Past => key' = v /\ token'[v]
  <2>1. gate[w] \in Past /\ HoldsLocal(w) /\ key = w
    BY <1>1, <1>5 DEF Exit, ReadKey, DeleteKey, HoldersSound
  <2>2. CASE Out(w)
    BY <1>1, <2>1, <2>2, OutMoves
  <2>3. CASE /\ gate' \in {[gate EXCEPT ![w] = "leaving"], [gate EXCEPT ![w] = "deleting"]}
             /\ UNCHANGED <<key, token>>
    BY <1>1, <2>1, <2>3
  <2> QED  BY <1>5, <2>2, <2>3 DEF Exit, ReadKey, DeleteKey
<1>6. CASE KeyExpires
  BY <1>1, <1>6 DEF KeyExpires, Owned
<1>7. ASSUME NEW r \in Replicas, GateCrash(r)
      PROVE  \A v \in Writers : gate'[v] \in Past => key' = v /\ token'[v]
  BY <1>1, <1>7 DEF GateCrash
<1>8. CASE UNCHANGED gateVars
  BY <1>1, <1>8 DEF gateVars
<1> QED  BY <1>2, <1>3, <1>4, <1>5, <1>6, <1>7, <1>8 DEF GateNext, GateStep

\* Every step keeps the invariant.
LEMMA GateNextInv == GateInv /\ [GateNext]_gateVars => GateInv'
BY GateTypeStep, HoldersStep, KeyStep DEF GateInv

\* The invariant of the gate, under every peril.
THEOREM GateSafe == GateSpec => []GateInv
BY GateInitInv, GateNextInv, PTL DEF GateSpec

\* Within one replica the writers pass one at a time, whatever Redis, the clock
\* and crashes do: two writers past the local lock would both be its holder.
THEOREM OnePerReplica == GateSpec => []ReplicaExclusive
<1>1. GateInv => ReplicaExclusive
  BY DEF GateInv, HoldersSound, HoldsLocal, ReplicaExclusive
<1> QED  BY <1>1, GateSafe, PTL

\* A step of the gate is a step of the exclusive section or leaves it alone.
LEMMA GateStepIsSection ==
  ASSUME GatePerils \subseteq {"crash"}, GateInv, [GateNext]_gateVars
  PROVE  [Section!ExclusiveNext]_Inside
<1> USE DEF GateInv, GateTypeOK, Inside
<1>1. \A v, w \in Writers : v \in Inside /\ gate[w] \in Past => v = w
  BY DEF KeySound, Past
<1>2. ASSUME NEW w \in Writers, Enter(w) PROVE Inside' = Inside
  BY <1>2 DEF Enter
<1>3. ASSUME NEW w \in Writers, AcquireKey(w) PROVE Section!Admit(w)
  <2>1. Inside = {}
    BY <1>3, GateAssumption DEF AcquireKey, KeyIsFree, KeySound
  <2>2. Inside' = {w}
    BY <1>3, <2>1 DEF AcquireKey
  <2> QED  BY <2>1, <2>2 DEF Section!Admit
<1>4. ASSUME NEW w \in Writers, GoWithout(w) PROVE FALSE
  BY <1>4 DEF GoWithout
<1>5. ASSUME NEW w \in Writers, Exit(w) PROVE Section!Depart(w)
  <2>1. w \in Inside
    BY <1>5 DEF Exit
  <2>2. Inside' = Inside \ {w}
    BY <1>5 DEF Exit, Out
  <2> QED  BY <2>1, <2>2 DEF Section!Depart
<1>6. ASSUME NEW w \in Writers, ReadKey(w) \/ DeleteKey(w) PROVE Inside' = Inside
  BY <1>6 DEF ReadKey, DeleteKey, Out
<1>7. CASE KeyExpires \/ UNCHANGED gateVars
  BY <1>7 DEF KeyExpires, gateVars
<1>8. ASSUME NEW r \in Replicas, GateCrash(r)
      PROVE  Inside' = Inside \/ \E w \in Writers : Section!Depart(w)
  <2>1. CASE \E w \in Writers : w \in Inside /\ ReplicaOf[w] = r
    <3>1. PICK w \in Writers : w \in Inside /\ ReplicaOf[w] = r
      BY <2>1
    <3>2. Inside = {w} /\ Inside' = {}
      BY <1>1, <1>8, <3>1 DEF GateCrash, Past
    <3> QED  BY <3>1, <3>2 DEF Section!Depart
  <2>2. CASE ~\E w \in Writers : w \in Inside /\ ReplicaOf[w] = r
    BY <1>8, <2>2 DEF GateCrash
  <2> QED  BY <2>1, <2>2
<1> QED
  BY <1>2, <1>3, <1>4, <1>5, <1>6, <1>7, <1>8 DEF GateNext, GateStep, Section!ExclusiveNext

\* While Redis answers and nobody outlasts a limit, the gate implements the
\* exclusive section across all replicas, replicas that crash included.
THEOREM GateImplementsSection ==
  ASSUME GatePerils \subseteq {"crash"}
  PROVE  GateSpec => OneAtATime
<1>1. GateInit => Section!ExclusiveInit
  BY DEF GateInit, Section!ExclusiveInit, Inside
<1>2. GateInv /\ [GateNext]_gateVars => [Section!ExclusiveNext]_Inside
  BY GateStepIsSection
<1> QED  BY <1>1, <1>2, GateSafe, PTL DEF GateSpec, OneAtATime, Section!ExclusiveSpec
=============================================================================
