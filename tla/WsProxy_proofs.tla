--------------------------- MODULE WsProxy_proofs ---------------------------
(***************************************************************************)
(* A project is forwarded by one replica at most, for any number of        *)
(* projects, replicas, handlers and restarts, under every peril; and what  *)
(* the learners' consoles capture is accounted for to the last item and    *)
(* byte, with everything typed at a password prompt masked, and the        *)
(* commands read off a console do not depend on how its output was cut.    *)
(***************************************************************************)
EXTENDS WsProxy, ConsoleTap, ConsoleRelay, FiniteSetTheorems, SequenceTheorems, WellFoundedInduction, TLAPS

\* A key names a start of a replica, and the empty key none.
LEMMA KeysDiffer ==
  ASSUME TypeOK, NEW r \in Replicas
  PROVE  /\ Instance(r) \in Replicas \X Lives
         /\ Instance(r) # NoLock
         /\ \A s \in Replicas : Instance(s) = Instance(r) => s = r
<1>1. life[r] \in Lives
  BY DEF TypeOK
<1> QED  BY <1>1 DEF Instance, NoLock

\* The SET succeeds: the key was free, so nobody forwarded the project.
LEMMA ForwardKeepsKeys ==
  ASSUME TypeOK, KeyedForwarders, NEW r \in Replicas, NEW p \in Projects,
         Free(p), Forward(r, p), lock' = [lock EXCEPT ![p] = Instance(r)],
         UNCHANGED <<life, faults>>
  PROVE  KeyedForwarders'
<1> SUFFICES ASSUME "lapse" \notin faults', NEW s \in Replicas, NEW q \in forwarding'[s]
             PROVE  lock'[q] = Instance(s)'
  BY DEF KeyedForwarders
<1>1. q \in Projects /\ Instance(s)' = Instance(s)
  BY DEF TypeOK, Forward, Instance
<1>2. CASE q = p
  <2>1. ~\E t \in Replicas : p \in forwarding[t]
    BY KeysDiffer DEF KeyedForwarders, Free
  <2>2. s = r
    BY <1>2, <2>1 DEF Forward, TypeOK
  <2> QED  BY <1>1, <1>2, <2>2 DEF TypeOK
<1>3. CASE q # p
  <2>1. q \in forwarding[s]
    BY <1>3 DEF Forward, TypeOK
  <2> QED  BY <1>1, <1>3, <2>1 DEF KeyedForwarders, TypeOK
<1> QED  BY <1>2, <1>3

\* A key that goes under no forwarder, or is the first lapse.
LEMMA UnlockKeepsKeys ==
  ASSUME TypeOK, KeyedForwarders, NEW p \in Projects, NEW amiss \in BOOLEAN,
         Unlock(p, amiss), InUse(p) => amiss,
         UNCHANGED <<life, forwarding>>
  PROVE  KeyedForwarders' /\ lock' \in [Projects -> (Replicas \X Lives) \cup {NoLock}]
         /\ faults' \subseteq FaultNames
<1>1. lock' \in [Projects -> (Replicas \X Lives) \cup {NoLock}] /\ faults' \subseteq FaultNames
  BY DEF TypeOK, Unlock, FaultNames
<1> SUFFICES ASSUME "lapse" \notin faults', NEW s \in Replicas, NEW q \in forwarding'[s]
             PROVE  lock'[q] = Instance(s)'
  BY <1>1 DEF KeyedForwarders
<1>2. ~InUse(p) /\ "lapse" \notin faults
  BY DEF Unlock
<1>3. q \in forwarding[s] /\ q \in Projects /\ lock[q] = Instance(s)
  BY <1>2 DEF TypeOK, KeyedForwarders
<1>4. q # p
  BY <1>2, <1>3 DEF InUse, Forwarders
<1> QED  BY <1>3, <1>4 DEF Unlock, Instance, TypeOK

\* Fewer forwarders under the same keys.
LEMMA FewerKeepKeys ==
  ASSUME TypeOK, KeyedForwarders,
         forwarding' \in [Replicas -> SUBSET Projects],
         \A r \in Replicas : forwarding'[r] \subseteq forwarding[r],
         faults \subseteq faults', UNCHANGED <<life, lock>>
  PROVE  KeyedForwarders'
BY DEF KeyedForwarders, Instance

\* A replica goes: its forwarders and its handlers with it, and only its own keys.
LEMMA GoneSound ==
  ASSUME ProxyInv, NEW r \in up, life[r] < MaxStops, Gone(r),
         lock' = lock \/ lock' = HandedBack(r),
         faults \subseteq faults', faults' \subseteq FaultNames, UNCHANGED <<phase, life>>
  PROVE  ProxyInv'
<1> USE DEF ProxyInv
<1>0. r \in Replicas /\ IdleCall.pc = "idle" /\ IdleCall \in
        [pc : {"idle", "set", "task", "release", "close"}, at : Replicas \cup {None},
         project : Projects \cup {None}, next : Projects \cup {None}]
  BY DEF TypeOK, IdleCall
<1>1. TypeOK'
  <2>1. lock' \in [Projects -> (Replicas \X Lives) \cup {NoLock}]
    BY DEF TypeOK, HandedBack
  <2>2. /\ up' \subseteq Replicas
        /\ attach' \in [Replicas -> SUBSET Projects]
        /\ tasks' \in [Replicas -> SUBSET Projects]
        /\ forwarding' \in [Replicas -> SUBSET Projects]
    BY DEF TypeOK, Gone
  <2>3. call' \in [Callers -> [pc : {"idle", "set", "task", "release", "close"},
                               at : Replicas \cup {None}, project : Projects \cup {None},
                               next : Projects \cup {None}]]
    BY <1>0 DEF TypeOK, Gone
  <2> QED  BY <2>1, <2>2, <2>3 DEF TypeOK
<1>2. DownIsEmpty'
  BY <1>0 DEF DownIsEmpty, Gone, TypeOK
<1>3. HandlersUp'
  BY <1>0 DEF HandlersUp, Gone
<1>4. KeyedForwarders'
  <2> SUFFICES ASSUME "lapse" \notin faults', NEW s \in Replicas, NEW q \in forwarding'[s]
               PROVE  lock'[q] = Instance(s)'
    BY DEF KeyedForwarders
  <2>1. s # r /\ q \in forwarding[s] /\ q \in Projects
    BY <1>0 DEF Gone, TypeOK
  <2>2. lock[q] = Instance(s) /\ lock[q] # Instance(r)
    BY <1>0, <2>1, KeysDiffer DEF KeyedForwarders
  <2> QED  BY <2>1, <2>2 DEF HandedBack, Instance
<1>5. ForwardersTended'
  <2> SUFFICES ASSUME NEW s \in Replicas, NEW q \in forwarding'[s]
               PROVE  q \in tasks'[s] \/ \E c \in Callers : Awaits(c, s, q)'
    BY DEF ForwardersTended
  <2>1. s # r /\ q \in forwarding[s] /\ tasks'[s] = tasks[s]
    BY <1>0 DEF Gone, TypeOK
  <2> QED  BY <2>1 DEF ForwardersTended, Awaits, CallAt, Gone
<1> QED  BY <1>1, <1>2, <1>3, <1>4, <1>5
\* A forwarder and its task come together.
LEMMA ForwardTended ==
  ASSUME TypeOK, ForwardersTended, NEW r \in Replicas, NEW p \in Projects, Forward(r, p),
         \A c \in Callers : CallAt(c, "task") => call'[c] = call[c]
  PROVE  ForwardersTended'
<1> SUFFICES ASSUME NEW s \in Replicas, NEW q \in forwarding'[s]
             PROVE  q \in tasks'[s] \/ \E c \in Callers : Awaits(c, s, q)'
  BY DEF ForwardersTended
<1>1. CASE q \in forwarding[s]
  <2>1. tasks[s] \subseteq tasks'[s]
    BY DEF Forward, TypeOK
  <2> QED  BY <1>1, <2>1 DEF ForwardersTended, Awaits, CallAt
<1>2. CASE q \notin forwarding[s]
  BY <1>2 DEF Forward, TypeOK
<1> QED  BY <1>1, <1>2

\* The forwarders and their tasks stay, and so does whoever awaits one.
LEMMA StillTended ==
  ASSUME TypeOK, ForwardersTended, UNCHANGED <<tasks, forwarding>>,
         \A c \in Callers : CallAt(c, "task") => call'[c] = call[c]
  PROVE  ForwardersTended'
BY DEF ForwardersTended, Awaits, CallAt
-----------------------------------------------------------------------------
\* At first there is no forwarder.
LEMMA ProxyInitInv == Init => ProxyInv
<1> SUFFICES ASSUME Init PROVE ProxyInv
  OBVIOUS
<1>1. TypeOK
  BY ProxyAssumption DEF Init, TypeOK, IdleCall, Lives
<1>2. DownIsEmpty /\ HandlersUp /\ ForwardersTended /\ KeyedForwarders
  BY DEF Init, DownIsEmpty, HandlersUp, ForwardersTended, KeyedForwarders, IdleCall
<1> QED  BY <1>1, <1>2 DEF ProxyInv

CallTypes == [pc : {"idle", "set", "task", "release", "close"}, at : Replicas \cup {None},
              project : Projects \cup {None}, next : Projects \cup {None}]

\* The steps of a handler.
LEMMA HandlerSound ==
  ASSUME ProxyInv, NEW c \in Callers, CallStep(c)
  PROVE  ProxyInv'
<1> USE DEF ProxyInv
<1> DEFINE r == call[c].at
           p == call[c].project
<1>1. r \in up /\ r \in Replicas /\ p \in Projects /\ call[c] \in CallTypes
  BY DEF CallStep, Set, TaskEnds, Release, CloseRow, CallAt, HandlersUp, TypeOK, CallTypes
<1>2. IdleCall \in CallTypes /\ IdleCall.pc = "idle"
  BY DEF IdleCall, CallTypes
<1>3. CASE Set(c)
  <2>1. call' = [call EXCEPT ![c] = IdleCall] /\ UNCHANGED <<phase, life, up, attach>>
    BY <1>3 DEF Set, CallEnds
  <2>2. call' \in [Callers -> CallTypes] /\ HandlersUp'
    BY <1>2, <2>1 DEF TypeOK, CallTypes, HandlersUp
  <2>3. CASE /\ Free(p) /\ lock' = [lock EXCEPT ![p] = Instance(r)]
             /\ Forward(r, p) /\ UNCHANGED faults
    <3>1. KeyedForwarders'
      BY <1>1, <2>1, <2>3, ForwardKeepsKeys
    <3>2. lock' \in [Projects -> (Replicas \X Lives) \cup {NoLock}]
      BY <1>1, <2>3, KeysDiffer DEF TypeOK
    <3>3. /\ tasks' \in [Replicas -> SUBSET Projects] /\ forwarding' \in [Replicas -> SUBSET Projects]
          /\ DownIsEmpty'
      BY <1>1, <2>1, <2>3 DEF TypeOK, Forward, DownIsEmpty
    <3>4. ForwardersTended'
      BY <1>1, <1>3, <2>1, <2>3, ForwardTended DEF Set, CallAt, TypeOK
    <3> QED  BY <2>1, <2>2, <2>3, <3>1, <3>2, <3>3, <3>4 DEF TypeOK, CallTypes
  <2>4. CASE UNCHANGED <<lock, tasks, forwarding>> /\ faults' \in {faults, faults \cup {"redis"}}
    <3>1. KeyedForwarders'
      BY <2>1, <2>4, FewerKeepKeys DEF TypeOK
    <3>2. ForwardersTended'
      BY <1>3, <2>1, <2>4, StillTended DEF Set, CallAt, TypeOK
    <3> QED  BY <2>1, <2>2, <2>4, <3>1, <3>2 DEF TypeOK, CallTypes, DownIsEmpty, FaultNames
  <2> QED  BY <1>3, <2>3, <2>4 DEF Set, SetFails
<1>4. CASE TaskEnds(c)
  <2>1. call' \in [Callers -> CallTypes] /\ HandlersUp'
    BY <1>1, <1>4 DEF TaskEnds, CallTo, TypeOK, CallTypes, HandlersUp
  <2>2. /\ forwarding' \in [Replicas -> SUBSET Projects]
        /\ \A s \in Replicas : forwarding'[s] \subseteq forwarding[s]
    BY <1>1, <1>4 DEF TaskEnds, TypeOK
  <2>3. KeyedForwarders'
    BY <1>4, <2>2, FewerKeepKeys DEF TaskEnds
  <2>4. ForwardersTended'
    <3> SUFFICES ASSUME NEW s \in Replicas, NEW q \in forwarding'[s]
                 PROVE  q \in tasks'[s] \/ \E d \in Callers : Awaits(d, s, q)'
      BY DEF ForwardersTended
    <3>1. q \in forwarding[s] /\ ~(s = r /\ q = p)
      BY <1>1, <1>4 DEF TaskEnds, TypeOK
    <3>2. q \in tasks[s] \/ \E d \in Callers \ {c} : Awaits(d, s, q)
      BY <3>1 DEF ForwardersTended, Awaits
    <3> QED  BY <1>4, <3>2 DEF TaskEnds, CallTo, Awaits, CallAt, TypeOK
  <2> QED  BY <1>4, <2>1, <2>2, <2>3, <2>4 DEF TaskEnds, TypeOK, CallTypes, DownIsEmpty
<1>5. CASE Release(c)
  <2>1. call' \in [Callers -> CallTypes] /\ HandlersUp'
    BY <1>1, <1>5 DEF Release, CallAt, CallTo, TypeOK, CallTypes, HandlersUp
  <2>2. UNCHANGED <<phase, life, up, attach, tasks, forwarding>>
    BY <1>5 DEF Release
  <2>3. /\ KeyedForwarders' /\ faults' \subseteq FaultNames
        /\ lock' \in [Projects -> (Replicas \X Lives) \cup {NoLock}]
    <3>1. CASE Ours(c) /\ Unlock(p, Shared(c))
      <4>1. ASSUME InUse(p) PROVE Shared(c)
        <5>1. PICK s \in Forwarders(p) : lock[p] = Instance(s)
          BY <4>1 DEF InUse
        <5>2. s = r /\ p \in forwarding[r]
          BY <1>1, <3>1, <5>1, KeysDiffer DEF Ours, Me, Forwarders
        <5>3. ~Awaits(c, r, p)
          BY <1>5 DEF Release, CallAt, Awaits
        <5> QED  BY <1>1, <5>2, <5>3 DEF ForwardersTended, Shared
      <4>2. Shared(c) \in BOOLEAN
        BY DEF Shared
      <4> QED  BY <1>1, <2>2, <3>1, <4>1, <4>2, UnlockKeepsKeys
    <3>2. CASE UNCHANGED <<lock, faults>>
      BY <2>2, <3>2, FewerKeepKeys DEF TypeOK
    <3> QED  BY <1>5, <3>1, <3>2 DEF Release
  <2>4. ForwardersTended'
    BY <1>5, <2>2, StillTended DEF Release, CallAt, CallTo, TypeOK
  <2> QED  BY <2>1, <2>2, <2>3, <2>4 DEF TypeOK, CallTypes, DownIsEmpty
<1>6. CASE CloseRow(c)
  <2>1. call' \in [Callers -> CallTypes] /\ HandlersUp'
    BY <1>2, <1>6 DEF CloseRow, CallEnds, TypeOK, CallTypes, HandlersUp
  <2>2. KeyedForwarders'
    BY <1>6, FewerKeepKeys DEF CloseRow, TypeOK
  <2>3. ForwardersTended'
    BY <1>6, StillTended DEF CloseRow, CallAt, CallEnds, TypeOK
  <2> QED  BY <1>6, <2>1, <2>2, <2>3 DEF CloseRow, TypeOK, CallTypes, DownIsEmpty
<1> QED  BY <1>3, <1>4, <1>5, <1>6 DEF CallStep

\* A handler begins, which changes no forwarder and no key.
LEMMA BeginSound ==
  ASSUME ProxyInv, NEW c \in Callers, NEW r \in Serving, NEW p \in Projects,
         call' = [call EXCEPT ![c] = call'[c]], call'[c] \in CallTypes,
         CallAt(c, "idle"), call'[c].at = r, call'[c].project = p,
         phase' \in [Projects -> {"unused", "open", "closed"}],
         tasks' \in [Replicas -> SUBSET Projects],
         \A s \in Replicas : \A q \in tasks[s] :
           q \in tasks'[s] \/ (s = r /\ q = p /\ call'[c].pc = "task"),
         UNCHANGED <<life, up, attach, lock, forwarding, faults>>
  PROVE  ProxyInv'
<1> USE DEF ProxyInv
<1>1. r \in up
  BY DEF Serving
<1>2. TypeOK'
  BY DEF TypeOK, CallTypes
<1>3. DownIsEmpty' /\ HandlersUp'
  BY <1>1 DEF DownIsEmpty, HandlersUp, TypeOK
<1>4. KeyedForwarders'
  BY FewerKeepKeys DEF TypeOK
<1>5. ForwardersTended'
  <2> SUFFICES ASSUME NEW s \in Replicas, NEW q \in forwarding[s]
               PROVE  q \in tasks'[s] \/ \E d \in Callers : Awaits(d, s, q)'
    BY DEF ForwardersTended
  <2>1. CASE q \in tasks[s]
    BY <2>1 DEF Awaits, CallAt
  <2>2. CASE q \notin tasks[s]
    <3>1. PICK d \in Callers : Awaits(d, s, q)
      BY <2>2 DEF ForwardersTended
    <3>2. d # c
      BY <3>1 DEF Awaits, CallAt
    <3>3. call'[d] = call[d]
      BY <3>2 DEF TypeOK
    <3> QED  BY <3>1, <3>3 DEF Awaits, CallAt
  <2> QED  BY <2>1, <2>2
<1> QED  BY <1>2, <1>3, <1>4, <1>5

\* Every step keeps the invariant.
LEMMA ProxyStep == ProxyInv /\ [Next]_vars => ProxyInv'
<1> SUFFICES ASSUME ProxyInv, [Next]_vars PROVE ProxyInv'
  OBVIOUS
<1> USE DEF ProxyInv
<1>1. ASSUME NEW c \in Callers, CallStep(c) PROVE ProxyInv'
  BY <1>1, HandlerSound
<1>2. ASSUME NEW c \in Callers, NEW r \in Replicas, NEW p \in Projects, Create(c, r, p)
      PROVE  ProxyInv'
  <2>1. call'[c] = [pc |-> "set", at |-> r, project |-> p, next |-> None]
        /\ call' = [call EXCEPT ![c] = call'[c]]
    BY <1>2 DEF Create, TypeOK
  <2>2. call'[c] \in CallTypes /\ phase' \in [Projects -> {"unused", "open", "closed"}]
    BY <1>2, <2>1 DEF Create, TypeOK, CallTypes
  <2> QED  BY <1>2, <2>1, <2>2, BeginSound DEF Create, TypeOK
<1>3. ASSUME NEW c \in Callers, NEW r \in Replicas, NEW p \in Projects, Delete(c, r, p)
      PROVE  ProxyInv'
  <2>1. /\ call'[c] = [pc |-> IF p \in tasks[r] THEN "task" ELSE "release",
                       at |-> r, project |-> p, next |-> None]
        /\ call' = [call EXCEPT ![c] = call'[c]]
        /\ tasks' \in [Replicas -> SUBSET Projects]
        /\ \A s \in Replicas : \A q \in tasks[s] :
             q \in tasks'[s] \/ (s = r /\ q = p /\ call'[c].pc = "task")
    BY <1>3 DEF Delete, Stop, TypeOK
  <2>2. call'[c] \in CallTypes
    BY <2>1 DEF CallTypes
  <2> QED  BY <1>3, <2>1, <2>2, BeginSound DEF Delete, TypeOK
<1>4. ASSUME NEW c \in Callers, NEW r \in Replicas, NEW p \in Projects, NEW new \in Projects,
             Reset(c, r, p, new)
      PROVE  ProxyInv'
  <2>1. /\ call'[c] = [pc |-> IF p \in tasks[r] THEN "task" ELSE "release",
                       at |-> r, project |-> p, next |-> new]
        /\ call' = [call EXCEPT ![c] = call'[c]]
        /\ tasks' \in [Replicas -> SUBSET Projects]
        /\ \A s \in Replicas : \A q \in tasks[s] :
             q \in tasks'[s] \/ (s = r /\ q = p /\ call'[c].pc = "task")
    BY <1>4 DEF Reset, Stop, TypeOK
  <2>2. call'[c] \in CallTypes
    BY <2>1 DEF CallTypes
  <2>3. phase' \in [Projects -> {"unused", "open", "closed"}]
    BY <1>4 DEF Reset, TypeOK
  <2> QED  BY <1>4, <2>1, <2>2, <2>3, BeginSound DEF Reset
<1>5. ASSUME NEW p \in Projects, Expire(p) PROVE ProxyInv'
  <2>1. KeyedForwarders' /\ lock' \in [Projects -> (Replicas \X Lives) \cup {NoLock}]
        /\ faults' \subseteq FaultNames
    <3>1. InUse(p) \in BOOLEAN
      BY DEF InUse
    <3> QED  BY <1>5, <3>1, UnlockKeepsKeys DEF Expire
  <2>2. ForwardersTended'
    BY <1>5, StillTended DEF Expire
  <2> QED  BY <1>5, <2>1, <2>2 DEF Expire, TypeOK, DownIsEmpty, HandlersUp
<1>6. ASSUME NEW r \in Replicas, Shutdown(r) PROVE ProxyInv'
  BY <1>6, GoneSound DEF Shutdown, Serving, TypeOK
<1>7. ASSUME NEW r \in Replicas, Crash(r) PROVE ProxyInv'
  BY <1>7, GoneSound DEF Crash, TypeOK, FaultNames
<1>8. ASSUME NEW r \in Replicas, Boot(r) PROVE ProxyInv'
  <2>1. life[r] \in Nat /\ life[r] < MaxStops /\ forwarding[r] = {}
    BY <1>8 DEF Boot, DownIsEmpty, TypeOK, Lives
  <2>2. /\ life' \in [Replicas -> Lives]
        /\ \A s \in Replicas : s # r => life'[s] = life[s]
    BY <1>8, <2>1, ProxyAssumption DEF Boot, TypeOK, Lives
  <2>3. TypeOK'
    BY <1>8, <2>2 DEF Boot, TypeOK, Open
  <2>4. DownIsEmpty' /\ HandlersUp'
    BY <1>8, <2>2 DEF Boot, DownIsEmpty, HandlersUp
  <2>5. KeyedForwarders'
    BY <1>8, <2>1, <2>2 DEF Boot, KeyedForwarders, Instance
  <2>6. ForwardersTended'
    BY <1>8, StillTended DEF Boot
  <2> QED  BY <2>3, <2>4, <2>5, <2>6
<1>9. ASSUME NEW r \in Replicas, NEW p \in Projects, Attach(r, p) PROVE ProxyInv'
  <2>1. r \in up /\ attach' \in [Replicas -> SUBSET Projects] /\ UNCHANGED <<phase, life, up, call>>
    BY <1>9 DEF Attach, TypeOK
  <2>2. CASE /\ Free(p) /\ lock' = [lock EXCEPT ![p] = Instance(r)]
             /\ Forward(r, p) /\ UNCHANGED faults
    <3>1. KeyedForwarders'
      BY <2>1, <2>2, ForwardKeepsKeys
    <3>2. lock' \in [Projects -> (Replicas \X Lives) \cup {NoLock}]
      BY <2>2, KeysDiffer DEF TypeOK
    <3>3. /\ tasks' \in [Replicas -> SUBSET Projects] /\ forwarding' \in [Replicas -> SUBSET Projects]
          /\ DownIsEmpty'
      BY <2>1, <2>2 DEF TypeOK, Forward, DownIsEmpty
    <3>4. ForwardersTended'
      BY <2>1, <2>2, ForwardTended
    <3> QED  BY <2>1, <2>2, <3>1, <3>2, <3>3, <3>4 DEF TypeOK, HandlersUp
  <2>3. CASE UNCHANGED <<lock, tasks, forwarding>> /\ faults' \in {faults, faults \cup {"redis"}}
    <3>1. KeyedForwarders'
      BY <2>1, <2>3, FewerKeepKeys DEF TypeOK
    <3>2. ForwardersTended'
      BY <2>1, <2>3, StillTended
    <3> QED  BY <2>1, <2>3, <3>1, <3>2 DEF TypeOK, DownIsEmpty, HandlersUp, FaultNames
  <2> QED  BY <1>9, <2>2, <2>3 DEF Attach, SetFails
<1>10. ASSUME NEW r \in Replicas, NEW p \in Projects, Lost(r, p) PROVE ProxyInv'
  <2>1. /\ forwarding' \in [Replicas -> SUBSET Projects] /\ tasks' \in [Replicas -> SUBSET Projects]
        /\ \A s \in Replicas : forwarding'[s] \subseteq forwarding[s]
    BY <1>10 DEF Lost, TypeOK
  <2>2. KeyedForwarders'
    BY <1>10, <2>1, FewerKeepKeys DEF Lost
  <2>3. ForwardersTended'
    <3> SUFFICES ASSUME NEW s \in Replicas, NEW q \in forwarding'[s]
                 PROVE  q \in tasks'[s] \/ \E c \in Callers : Awaits(c, s, q)'
      BY DEF ForwardersTended
    <3>1. q \in forwarding[s] /\ (q \in tasks[s] => q \in tasks'[s])
      BY <1>10 DEF Lost, TypeOK
    <3> QED  BY <1>10, <3>1 DEF Lost, ForwardersTended, Awaits, CallAt
  <2> QED  BY <1>10, <2>1, <2>2, <2>3 DEF Lost, TypeOK, DownIsEmpty, HandlersUp
<1>11. CASE UNCHANGED vars
  BY <1>11 DEF vars, TypeOK, DownIsEmpty, HandlersUp, ForwardersTended, Awaits, CallAt,
               KeyedForwarders, Instance
<1> QED  BY <1>1, <1>2, <1>3, <1>4, <1>5, <1>6, <1>7, <1>8, <1>9, <1>10, <1>11 DEF Next
-----------------------------------------------------------------------------
\* Every forwarder has its replica's key, as long as none has lapsed under one.
THEOREM ForwardersKeyed == Spec => []ProxyInv
<1> QED  BY ProxyInitInv, ProxyStep, PTL DEF Spec

\* A project is forwarded by one replica at most.
THEOREM NoDuplicates == Spec => []OneForwarder
<1>1. ProxyInv => OneForwarder
  <2> SUFFICES ASSUME ProxyInv, "lapse" \notin faults, NEW p \in Projects,
                      NEW r1 \in Forwarders(p), NEW r2 \in Forwarders(p)
               PROVE  r1 = r2
    BY DEF OneForwarder
  <2>1. r1 \in Replicas /\ r2 \in Replicas /\ Instance(r1) = lock[p] /\ Instance(r2) = lock[p]
    BY DEF ProxyInv, KeyedForwarders, Forwarders
  <2> QED  BY <2>1, KeysDiffer DEF ProxyInv
<1> QED  BY <1>1, ForwardersKeyed, PTL
-----------------------------------------------------------------------------
(* Nothing is forgotten while nothing goes wrong *)

ForwardedBy(r, p) == p \in forwarding[r]
InHand(c, p) == p = call[c].project \/ p = call[c].next

\* A handler has one project in hand; a reset closes the old one first.
CallsShaped ==
  \A c \in Callers :
    /\ call[c].pc = "idle" => call[c].project = None
    /\ call[c].pc \in {"idle", "set", "close"} => call[c].next = None
    /\ call[c].next # None => phase[call[c].project] = "closed"

\* A project that is not made yet is nobody's.
Untouched ==
  \A p \in Projects : phase[p] = "unused" =>
    /\ lock[p] = NoLock
    /\ \A r \in Replicas : p \notin attach[r]
    /\ \A c \in Callers : ~InHand(c, p)

\* A task forwards, and a key that is set is that of a forwarder, or its project
\* is about to be closed.
TasksForward == \A r \in Replicas : tasks[r] \subseteq forwarding[r]
Closing(p) == \E c \in Callers : call[c].pc \in {"task", "release", "close"} /\ call[c].project = p
KeysUsed ==
  \A p \in Projects : phase[p] = "open" /\ lock[p] # NoLock =>
    Closing(p) \/ \E r \in Replicas : ForwardedBy(r, p)

\* An active project is forwarded, or somebody has it in hand, or a replica will
\* attach it, now or when it starts again.
Attended ==
  \A p \in Projects : phase[p] = "open" =>
    \/ \E c \in Callers : InHand(c, p)
    \/ \E r \in Replicas : ForwardedBy(r, p) \/ r \notin up \/ p \in attach[r]

\* A forwarder that is awaited has one handler that awaits it, and no task.
AwaitedOnce ==
  \A c \in Callers : CallAt(c, "task") =>
    /\ ForwardedBy(call[c].at, call[c].project)
    /\ call[c].project \notin tasks[call[c].at]
    /\ \A d \in Callers : Awaits(d, call[c].at, call[c].project) => d = c

AttendedInv ==
  /\ ProxyInv /\ CallsShaped /\ Untouched
  /\ faults = {} => TasksForward /\ AwaitedOnce /\ KeysUsed /\ Attended

\* What of the types the steps below need.
Typed ==
  /\ None \notin Projects /\ up \subseteq Replicas
  /\ \A c \in Callers :
       /\ call[c].pc \in {"idle", "set", "task", "release", "close"}
       /\ call[c].project \in Projects \cup {None} /\ call[c].next \in Projects \cup {None}
       /\ call[c].pc # "idle" => call[c].at \in Replicas /\ call[c].project \in Projects
  /\ \A p \in Projects : phase[p] \in {"unused", "open", "closed"}
  /\ \A r \in Replicas :
       attach[r] \subseteq Projects /\ tasks[r] \subseteq Projects /\ forwarding[r] \subseteq Projects

\* A key that is free has no forwarder while nothing is wrong.
LEMMA FreeUnforwarded ==
  ASSUME ProxyInv, faults = {}, NEW p \in Projects, lock[p] = NoLock, NEW r \in Replicas
  PROVE  p \notin forwarding[r]
BY KeysDiffer DEF ProxyInv, KeyedForwarders

\* What a forwarder that starts changes.
LEMMA ForwardAt ==
  ASSUME TypeOK, NEW r \in Replicas, NEW p \in Projects, Forward(r, p),
         lock' = [lock EXCEPT ![p] = Instance(r)]
  PROVE  /\ \A q \in Projects : q # p => lock'[q] = lock[q]
         /\ \A s \in Replicas, q \in Projects :
              /\ q \in forwarding'[s] <=> q \in forwarding[s] \/ (s = r /\ q = p)
              /\ q \in tasks'[s] <=> q \in tasks[s] \/ (s = r /\ q = p)
<1>1. \A q \in Projects : q # p => lock'[q] = lock[q]
  BY DEF TypeOK
<1>2. \A s \in Replicas, q \in Projects :
        /\ q \in forwarding'[s] <=> q \in forwarding[s] \/ (s = r /\ q = p)
        /\ q \in tasks'[s] <=> q \in tasks[s] \/ (s = r /\ q = p)
  BY DEF TypeOK, Forward
<1> QED  BY <1>1, <1>2

\* A project that is made is in the hands of the handler that made it.
LEMMA CreateAttends ==
  ASSUME AttendedInv, NEW c \in Callers, NEW r \in Replicas, NEW p \in Projects, Create(c, r, p), ProxyInv'
  PROVE  AttendedInv'
<1> USE DEF AttendedInv, ProxyInv
<1>1. /\ phase[p] = "unused" /\ phase'[p] = "open"
      /\ \A q \in Projects : q # p => phase'[q] = phase[q]
  BY DEF Create, TypeOK
<1>2. /\ call'[c].pc = "set" /\ call'[c].project = p /\ call'[c].next = None
      /\ call[c].pc = "idle" /\ \A d \in Callers : d # c => call'[d] = call[d]
  BY DEF Create, CallAt, TypeOK
<1>3. UNCHANGED <<up, attach, lock, tasks, forwarding, faults>>
  BY DEF Create
<1>4. Typed /\ Typed'
  BY ProxyAssumption DEF ProxyInv, TypeOK, HandlersUp, Typed
<1>5. CallsShaped'
  BY <1>1, <1>2, <1>3, <1>4 DEF CallsShaped, Untouched, InHand, Typed
<1>6. Untouched'
  BY <1>1, <1>2, <1>3, <1>4 DEF Untouched, CallsShaped, InHand, Typed
<1>7. ASSUME faults' = {} PROVE TasksForward' /\ AwaitedOnce' /\ KeysUsed' /\ Attended'
  <2>1. faults = {} /\ TasksForward /\ AwaitedOnce /\ KeysUsed /\ Attended
    BY <1>7, <1>1, <1>2, <1>3, <1>4
  <2>2. TasksForward'
    BY <1>7, <2>1, <1>1, <1>2, <1>3, <1>4 DEF TasksForward, Typed
  <2>3. AwaitedOnce'
    BY <1>7, <2>1, <1>1, <1>2, <1>3, <1>4 DEF AwaitedOnce, TasksForward, Awaits, CallAt,
      ForwardedBy, Typed
  <2>4. KeysUsed'
    BY <1>7, <2>1, <1>1, <1>2, <1>3, <1>4 DEF KeysUsed, Untouched, CallsShaped, Closing,
      ForwardedBy, TasksForward, Typed
  <2>5. Attended'
    BY <1>7, <2>1, <1>1, <1>2, <1>3, <1>4 DEF Attended, KeysUsed, CallsShaped, Untouched,
      TasksForward, Closing, InHand, ForwardedBy, Typed
  <2> QED  BY <2>2, <2>3, <2>4, <2>5
<1> QED  BY <1>5, <1>6, <1>7

\* A handler that sets the key forwards; one that does not leaves the project to
\* whoever has it.
LEMMA SetAttends ==
  ASSUME AttendedInv, NEW c \in Callers, Set(c), ProxyInv'
  PROVE  AttendedInv'
<1> USE DEF AttendedInv, ProxyInv
<1>1. /\ call[c].pc = "set" /\ call'[c].pc = "idle" /\ call'[c].project = None
      /\ call'[c].next = None /\ \A d \in Callers : d # c => call'[d] = call[d]
  BY DEF Set, CallAt, CallEnds, IdleCall, TypeOK
<1>2. call[c].project \in Projects /\ call[c].at \in Replicas
  BY <1>1 DEF HandlersUp, TypeOK
<1>3. UNCHANGED <<phase, up, attach>> /\ faults \subseteq faults'
  BY DEF Set, SetFails
<1>4. \/ /\ Free(call[c].project) /\ Forward(call[c].at, call[c].project)
         /\ lock' = [lock EXCEPT ![call[c].project] = Instance(call[c].at)]
      \/ /\ ~Free(call[c].project) \/ call[c].project \in tasks[call[c].at]
         /\ UNCHANGED <<lock, tasks, forwarding>>
      \/ faults' # {} /\ UNCHANGED <<lock, tasks, forwarding>>
  BY DEF Set, SetFails
<1>5. \/ /\ lock[call[c].project] = NoLock /\ \A q \in Projects : q # call[c].project => lock'[q] = lock[q]
         /\ \A s \in Replicas, q \in Projects :
              /\ q \in forwarding'[s] <=> q \in forwarding[s] \/ (s = call[c].at /\ q = call[c].project)
              /\ q \in tasks'[s] <=> q \in tasks[s] \/ (s = call[c].at /\ q = call[c].project)
      \/ /\ lock[call[c].project] # NoLock \/ call[c].project \in tasks[call[c].at]
         /\ UNCHANGED <<lock, tasks, forwarding>>
      \/ faults' # {} /\ UNCHANGED <<lock, tasks, forwarding>>
  BY <1>2, <1>4, ForwardAt DEF Free
<1>6. faults = {} /\ lock[call[c].project] = NoLock => \A s \in Replicas : call[c].project \notin forwarding[s]
  BY <1>2, FreeUnforwarded DEF ProxyInv
<1>7. Typed /\ Typed'
  BY ProxyAssumption DEF ProxyInv, TypeOK, HandlersUp, Typed
<1>8. CallsShaped'
  BY <1>1, <1>2, <1>3, <1>5, <1>6, <1>7 DEF CallsShaped, Untouched, InHand, Typed
<1>9. Untouched'
  BY <1>1, <1>2, <1>3, <1>5, <1>6, <1>7 DEF Untouched, CallsShaped, InHand, Typed
<1>10. ASSUME faults' = {} PROVE TasksForward' /\ AwaitedOnce' /\ KeysUsed' /\ Attended'
  <2>1. faults = {} /\ TasksForward /\ AwaitedOnce /\ KeysUsed /\ Attended
    BY <1>10, <1>1, <1>2, <1>3, <1>5, <1>6, <1>7
  <2>2. TasksForward'
    BY <1>10, <2>1, <1>1, <1>2, <1>3, <1>5, <1>6, <1>7 DEF TasksForward, Typed
  <2>3. AwaitedOnce'
    BY <1>10, <2>1, <1>1, <1>2, <1>3, <1>5, <1>6, <1>7 DEF AwaitedOnce, TasksForward, Awaits,
      CallAt, ForwardedBy, Typed
  <2>4. KeysUsed'
    BY <1>10, <2>1, <1>1, <1>2, <1>3, <1>5, <1>6, <1>7 DEF KeysUsed, Untouched, CallsShaped,
      Closing, ForwardedBy, TasksForward, Typed
  <2>5. Attended'
    BY <1>10, <2>1, <1>1, <1>2, <1>3, <1>5, <1>6, <1>7 DEF Attended, KeysUsed, CallsShaped,
      Untouched, TasksForward, Closing, InHand, ForwardedBy, Typed
  <2> QED  BY <2>2, <2>3, <2>4, <2>5
<1> QED  BY <1>8, <1>9, <1>10

\* A startup that finds the key taken finds the project forwarded or given up.
LEMMA AttachAttends ==
  ASSUME AttendedInv, NEW r \in Replicas, NEW p \in Projects, Attach(r, p), ProxyInv'
  PROVE  AttendedInv'
<1> USE DEF AttendedInv, ProxyInv
<1>1. /\ p \in attach[r] /\ \A s \in Replicas, q \in Projects :
        q \in attach'[s] <=> q \in attach[s] /\ ~(s = r /\ q = p)
  BY DEF Attach, TypeOK
<1>2. phase[p] # "unused" /\ UNCHANGED <<phase, up, call>> /\ faults \subseteq faults'
  BY DEF Attach, SetFails, Untouched
<1>3. \/ Free(p) /\ Forward(r, p) /\ lock' = [lock EXCEPT ![p] = Instance(r)]
      \/ ~Free(p) /\ UNCHANGED <<lock, tasks, forwarding>>
      \/ faults' # {} /\ UNCHANGED <<lock, tasks, forwarding>>
  BY DEF Attach, SetFails
<1>4. \/ /\ lock[p] = NoLock /\ \A q \in Projects : q # p => lock'[q] = lock[q]
         /\ \A s \in Replicas, q \in Projects :
              /\ q \in forwarding'[s] <=> q \in forwarding[s] \/ (s = r /\ q = p)
              /\ q \in tasks'[s] <=> q \in tasks[s] \/ (s = r /\ q = p)
      \/ lock[p] # NoLock /\ UNCHANGED <<lock, tasks, forwarding>>
      \/ faults' # {} /\ UNCHANGED <<lock, tasks, forwarding>>
  BY <1>3, ForwardAt DEF Free
<1>5. faults = {} /\ lock[p] = NoLock => \A s \in Replicas : p \notin forwarding[s]
  BY FreeUnforwarded DEF ProxyInv
<1>6. Typed /\ Typed'
  BY ProxyAssumption DEF ProxyInv, TypeOK, HandlersUp, Typed
<1>7. CallsShaped'
  BY <1>1, <1>2, <1>4, <1>5, <1>6 DEF CallsShaped, Untouched, InHand, Typed
<1>8. Untouched'
  BY <1>1, <1>2, <1>4, <1>5, <1>6 DEF Untouched, CallsShaped, InHand, Typed
<1>9. ASSUME faults' = {} PROVE TasksForward' /\ AwaitedOnce' /\ KeysUsed' /\ Attended'
  <2>1. faults = {} /\ TasksForward /\ AwaitedOnce /\ KeysUsed /\ Attended
    BY <1>9, <1>1, <1>2, <1>4, <1>5, <1>6
  <2>2. TasksForward'
    BY <1>9, <2>1, <1>1, <1>2, <1>4, <1>5, <1>6 DEF TasksForward, Typed
  <2>3. AwaitedOnce'
    BY <1>9, <2>1, <1>1, <1>2, <1>4, <1>5, <1>6 DEF AwaitedOnce, TasksForward, Awaits, CallAt,
      ForwardedBy, Typed
  <2>4. KeysUsed'
    BY <1>9, <2>1, <1>1, <1>2, <1>4, <1>5, <1>6 DEF KeysUsed, Untouched, CallsShaped, Closing,
      ForwardedBy, TasksForward, Typed
  <2>5. Attended'
    BY <1>9, <2>1, <1>1, <1>2, <1>4, <1>5, <1>6 DEF Attended, KeysUsed, CallsShaped,
      Untouched, TasksForward, Closing, InHand, ForwardedBy, Typed
  <2> QED  BY <2>2, <2>3, <2>4, <2>5
<1> QED  BY <1>7, <1>8, <1>9

\* A deletion takes the project in hand until it is closed.
LEMMA DeleteAttends ==
  ASSUME AttendedInv, NEW c \in Callers, NEW r \in Replicas, NEW p \in Projects, Delete(c, r, p), ProxyInv'
  PROVE  AttendedInv'
<1> USE DEF AttendedInv, ProxyInv
<1>1. /\ phase[p] = "open" /\ call[c].pc = "idle"
      /\ call'[c].pc \in {"task", "release"} /\ call'[c].project = p /\ call'[c].next = None
      /\ (call'[c].pc = "task" => p \in tasks[r] /\ p \notin tasks'[r] /\ call'[c].at = r)
      /\ \A d \in Callers : d # c => call'[d] = call[d]
      /\ \A s \in Replicas : tasks'[s] \subseteq tasks[s]
  BY DEF Delete, Stop, CallAt, TypeOK
<1>2. UNCHANGED <<phase, up, attach, lock, forwarding, faults>>
  BY DEF Delete
<1>3. Typed /\ Typed'
  BY ProxyAssumption DEF ProxyInv, TypeOK, HandlersUp, Typed
<1>4. CallsShaped'
  BY <1>1, <1>2, <1>3 DEF CallsShaped, Untouched, InHand, Typed
<1>5. Untouched'
  BY <1>1, <1>2, <1>3 DEF Untouched, CallsShaped, InHand, Typed
<1>6. ASSUME faults' = {} PROVE TasksForward' /\ AwaitedOnce' /\ KeysUsed' /\ Attended'
  <2>1. faults = {} /\ TasksForward /\ AwaitedOnce /\ KeysUsed /\ Attended
    BY <1>6, <1>1, <1>2, <1>3
  <2>2. TasksForward'
    BY <1>6, <2>1, <1>1, <1>2, <1>3 DEF TasksForward, Typed
  <2>3. AwaitedOnce'
    BY <1>6, <2>1, <1>1, <1>2, <1>3 DEF AwaitedOnce, TasksForward, Awaits, CallAt,
      ForwardedBy, Typed
  <2>4. KeysUsed'
    BY <1>6, <2>1, <1>1, <1>2, <1>3 DEF KeysUsed, Untouched, CallsShaped, Closing,
      ForwardedBy, TasksForward, Typed
  <2>5. Attended'
    BY <1>6, <2>1, <1>1, <1>2, <1>3 DEF Attended, KeysUsed, CallsShaped, Untouched,
      TasksForward, Closing, InHand, ForwardedBy, Typed
  <2> QED  BY <2>2, <2>3, <2>4, <2>5
<1> QED  BY <1>4, <1>5, <1>6

\* A reset closes the old project and takes the new one in hand.
LEMMA ResetAttends ==
  ASSUME AttendedInv, NEW c \in Callers, NEW r \in Replicas, NEW p \in Projects, NEW new \in Projects, Reset(c, r, p, new), ProxyInv'
  PROVE  AttendedInv'
<1> USE DEF AttendedInv, ProxyInv
<1>1. /\ call[c].pc = "idle" /\ call'[c].pc \in {"task", "release"}
      /\ call'[c].project = p /\ call'[c].next = new
      /\ (call'[c].pc = "task" => p \in tasks[r] /\ p \notin tasks'[r] /\ call'[c].at = r)
      /\ \A d \in Callers : d # c => call'[d] = call[d]
      /\ \A s \in Replicas : tasks'[s] \subseteq tasks[s]
  BY DEF Reset, Stop, CallAt, TypeOK
<1>2. /\ phase[p] = "open" /\ phase[new] = "unused" /\ phase'[p] = "closed" /\ phase'[new] = "open"
      /\ \A q \in Projects : q \notin {p, new} => phase'[q] = phase[q]
  BY DEF Reset, TypeOK
<1>3. UNCHANGED <<up, attach, lock, forwarding, faults>>
  BY DEF Reset
<1>4. Typed /\ Typed'
  BY ProxyAssumption DEF ProxyInv, TypeOK, HandlersUp, Typed
<1>5. CallsShaped'
  BY <1>1, <1>2, <1>3, <1>4 DEF CallsShaped, Untouched, InHand, Typed
<1>6. Untouched'
  BY <1>1, <1>2, <1>3, <1>4 DEF Untouched, CallsShaped, InHand, Typed
<1>7. ASSUME faults' = {} PROVE TasksForward' /\ AwaitedOnce' /\ KeysUsed' /\ Attended'
  <2>1. faults = {} /\ TasksForward /\ AwaitedOnce /\ KeysUsed /\ Attended
    BY <1>7, <1>1, <1>2, <1>3, <1>4
  <2>2. TasksForward'
    BY <1>7, <2>1, <1>1, <1>2, <1>3, <1>4 DEF TasksForward, Typed
  <2>3. AwaitedOnce'
    BY <1>7, <2>1, <1>1, <1>2, <1>3, <1>4 DEF AwaitedOnce, TasksForward, Awaits, CallAt,
      ForwardedBy, Typed
  <2>4. KeysUsed'
    BY <1>7, <2>1, <1>1, <1>2, <1>3, <1>4 DEF KeysUsed, Untouched, CallsShaped, Closing,
      ForwardedBy, TasksForward, Typed
  <2>5. Attended'
    BY <1>7, <2>1, <1>1, <1>2, <1>3, <1>4 DEF Attended, KeysUsed, CallsShaped, Untouched,
      TasksForward, Closing, InHand, ForwardedBy, Typed
  <2> QED  BY <2>2, <2>3, <2>4, <2>5
<1> QED  BY <1>5, <1>6, <1>7

\* The forwarder has ended, and the handler goes on to the key.
LEMMA TaskEndsAttends ==
  ASSUME AttendedInv, NEW c \in Callers, TaskEnds(c), ProxyInv'
  PROVE  AttendedInv'
<1> USE DEF AttendedInv, ProxyInv
<1>1. /\ call[c].pc = "task" /\ call'[c].pc = "release"
      /\ call'[c].project = call[c].project /\ call'[c].next = call[c].next
      /\ \A d \in Callers : d # c => call'[d] = call[d]
  BY DEF TaskEnds, CallAt, CallTo, TypeOK
<1>2. call[c].project \in Projects /\ call[c].at \in Replicas
  BY <1>1 DEF HandlersUp, TypeOK
<1>3. \A s \in Replicas, q \in Projects :
        q \in forwarding'[s] <=> q \in forwarding[s] /\ ~(s = call[c].at /\ q = call[c].project)
  BY <1>2 DEF TaskEnds, TypeOK
<1>4. UNCHANGED <<phase, up, attach, lock, tasks, faults>>
  BY DEF TaskEnds
<1>5. Typed /\ Typed'
  BY ProxyAssumption DEF ProxyInv, TypeOK, HandlersUp, Typed
<1>6. CallsShaped'
  BY <1>1, <1>2, <1>3, <1>4, <1>5 DEF CallsShaped, Untouched, InHand, Typed
<1>7. Untouched'
  BY <1>1, <1>2, <1>3, <1>4, <1>5 DEF Untouched, CallsShaped, InHand, Typed
<1>8. ASSUME faults' = {} PROVE TasksForward' /\ AwaitedOnce' /\ KeysUsed' /\ Attended'
  <2>1. faults = {} /\ TasksForward /\ AwaitedOnce /\ KeysUsed /\ Attended
    BY <1>8, <1>1, <1>2, <1>3, <1>4, <1>5
  <2>2. TasksForward'
    <3>1. call[c].project \notin tasks[call[c].at]
      BY <2>1, <1>1 DEF AwaitedOnce, CallAt
    <3>2. \A s \in Replicas : \A q \in tasks[s] : q \in Projects /\ q \in forwarding[s] /\ q \in forwarding'[s]
      BY <2>1, <3>1, <1>3, <1>5 DEF TasksForward, Typed
    <3> QED  BY <3>2, <1>4 DEF TasksForward
  <2>3. AwaitedOnce'
    BY <1>8, <2>1, <1>1, <1>2, <1>3, <1>4, <1>5 DEF AwaitedOnce, TasksForward, Awaits, CallAt,
      ForwardedBy, Typed
  <2>4. KeysUsed'
    BY <1>8, <2>1, <1>1, <1>2, <1>3, <1>4, <1>5 DEF KeysUsed, Untouched, CallsShaped, Closing,
      ForwardedBy, TasksForward, Typed
  <2>5. Attended'
    BY <1>8, <2>1, <1>1, <1>2, <1>3, <1>4, <1>5 DEF Attended, KeysUsed, CallsShaped,
      Untouched, TasksForward, Closing, InHand, ForwardedBy, Typed
  <2> QED  BY <2>2, <2>3, <2>4, <2>5
<1> QED  BY <1>6, <1>7, <1>8

\* The key goes, or stays with a project that is closed.
LEMMA ReleaseAttends ==
  ASSUME AttendedInv, NEW c \in Callers, Release(c), ProxyInv'
  PROVE  AttendedInv'
<1> USE DEF AttendedInv, ProxyInv
<1>1. call[c].pc = "release" /\ \A d \in Callers : d # c => call'[d] = call[d]
  BY DEF Release, CallAt, CallTo, TypeOK
<1>2. \/ /\ call[c].next = None /\ call'[c].pc = "close"
         /\ call'[c].project = call[c].project /\ call'[c].next = None
      \/ /\ call[c].next # None /\ call'[c].pc = "set"
         /\ call'[c].project = call[c].next /\ call'[c].next = None
  BY DEF Release, CallTo, TypeOK
<1>3. \A q \in Projects : lock'[q] \in {lock[q], NoLock}
  BY DEF Release, Unlock, TypeOK
<1>4. UNCHANGED <<phase, up, attach, tasks, forwarding>> /\ faults \subseteq faults'
  BY DEF Release, Unlock
<1>5. Typed /\ Typed'
  BY ProxyAssumption DEF ProxyInv, TypeOK, HandlersUp, Typed
<1>6. CallsShaped'
  BY <1>1, <1>2, <1>3, <1>4, <1>5 DEF CallsShaped, Untouched, InHand, Typed
<1>7. Untouched'
  BY <1>1, <1>2, <1>3, <1>4, <1>5 DEF Untouched, CallsShaped, InHand, Typed
<1>8. ASSUME faults' = {} PROVE TasksForward' /\ AwaitedOnce' /\ KeysUsed' /\ Attended'
  <2>1. faults = {} /\ TasksForward /\ AwaitedOnce /\ KeysUsed /\ Attended
    BY <1>8, <1>1, <1>2, <1>3, <1>4, <1>5
  <2>2. TasksForward'
    BY <1>8, <2>1, <1>1, <1>2, <1>3, <1>4, <1>5 DEF TasksForward, Typed
  <2>3. AwaitedOnce'
    BY <1>8, <2>1, <1>1, <1>2, <1>3, <1>4, <1>5 DEF AwaitedOnce, TasksForward, Awaits, CallAt,
      ForwardedBy, Typed
  <2>4. KeysUsed'
    BY <1>8, <2>1, <1>1, <1>2, <1>3, <1>4, <1>5 DEF KeysUsed, Untouched, CallsShaped, Closing,
      ForwardedBy, TasksForward, Typed
  <2>5. Attended'
    BY <1>8, <2>1, <1>1, <1>2, <1>3, <1>4, <1>5 DEF Attended, KeysUsed, CallsShaped,
      Untouched, TasksForward, Closing, InHand, ForwardedBy, Typed
  <2> QED  BY <2>2, <2>3, <2>4, <2>5
<1> QED  BY <1>6, <1>7, <1>8

\* The row is closed as the handler ends.
LEMMA CloseRowAttends ==
  ASSUME AttendedInv, NEW c \in Callers, CloseRow(c), ProxyInv'
  PROVE  AttendedInv'
<1> USE DEF AttendedInv, ProxyInv
<1>1. /\ call[c].pc = "close" /\ call'[c].pc = "idle" /\ call'[c].project = None
      /\ call'[c].next = None /\ \A d \in Callers : d # c => call'[d] = call[d]
  BY DEF CloseRow, CallAt, CallEnds, IdleCall, TypeOK
<1>2. call[c].project \in Projects
  BY <1>1 DEF HandlersUp, TypeOK
<1>3. phase'[call[c].project] = "closed" /\ \A q \in Projects : q # call[c].project => phase'[q] = phase[q]
  BY <1>2 DEF CloseRow, TypeOK
<1>4. UNCHANGED <<up, attach, lock, tasks, forwarding, faults>>
  BY DEF CloseRow
<1>5. Typed /\ Typed'
  BY ProxyAssumption DEF ProxyInv, TypeOK, HandlersUp, Typed
<1>6. CallsShaped'
  BY <1>1, <1>2, <1>3, <1>4, <1>5 DEF CallsShaped, Untouched, InHand, Typed
<1>7. Untouched'
  BY <1>1, <1>2, <1>3, <1>4, <1>5 DEF Untouched, CallsShaped, InHand, Typed
<1>8. ASSUME faults' = {} PROVE TasksForward' /\ AwaitedOnce' /\ KeysUsed' /\ Attended'
  <2>1. faults = {} /\ TasksForward /\ AwaitedOnce /\ KeysUsed /\ Attended
    BY <1>8, <1>1, <1>2, <1>3, <1>4, <1>5
  <2>2. TasksForward'
    BY <1>8, <2>1, <1>1, <1>2, <1>3, <1>4, <1>5 DEF TasksForward, Typed
  <2>3. AwaitedOnce'
    BY <1>8, <2>1, <1>1, <1>2, <1>3, <1>4, <1>5 DEF AwaitedOnce, TasksForward, Awaits, CallAt,
      ForwardedBy, Typed
  <2>4. KeysUsed'
    BY <1>8, <2>1, <1>1, <1>2, <1>3, <1>4, <1>5 DEF KeysUsed, Untouched, CallsShaped, Closing,
      ForwardedBy, TasksForward, Typed
  <2>5. Attended'
    BY <1>8, <2>1, <1>1, <1>2, <1>3, <1>4, <1>5 DEF Attended, KeysUsed, CallsShaped,
      Untouched, TasksForward, Closing, InHand, ForwardedBy, Typed
  <2> QED  BY <2>2, <2>3, <2>4, <2>5
<1> QED  BY <1>6, <1>7, <1>8

\* A key that lapses under a forwarder is a fault; any other is nobody's.
LEMMA ExpireAttends ==
  ASSUME AttendedInv, NEW p \in Projects, Expire(p), ProxyInv'
  PROVE  AttendedInv'
<1> USE DEF AttendedInv, ProxyInv
<1>1. \A q \in Projects : lock'[q] \in {lock[q], NoLock}
  BY DEF Expire, Unlock, TypeOK
<1>2. UNCHANGED <<phase, up, attach, tasks, forwarding, call>> /\ faults \subseteq faults'
  BY DEF Expire, Unlock
<1>3. Typed /\ Typed'
  BY ProxyAssumption DEF ProxyInv, TypeOK, HandlersUp, Typed
<1>4. CallsShaped'
  BY <1>1, <1>2, <1>3 DEF CallsShaped, Untouched, InHand, Typed
<1>5. Untouched'
  BY <1>1, <1>2, <1>3 DEF Untouched, CallsShaped, InHand, Typed
<1>6. ASSUME faults' = {} PROVE TasksForward' /\ AwaitedOnce' /\ KeysUsed' /\ Attended'
  <2>1. faults = {} /\ TasksForward /\ AwaitedOnce /\ KeysUsed /\ Attended
    BY <1>6, <1>1, <1>2, <1>3
  <2>2. TasksForward'
    BY <1>6, <2>1, <1>1, <1>2, <1>3 DEF TasksForward, Typed
  <2>3. AwaitedOnce'
    BY <1>6, <2>1, <1>1, <1>2, <1>3 DEF AwaitedOnce, TasksForward, Awaits, CallAt,
      ForwardedBy, Typed
  <2>4. KeysUsed'
    BY <1>6, <2>1, <1>1, <1>2, <1>3 DEF KeysUsed, Untouched, CallsShaped, Closing,
      ForwardedBy, TasksForward, Typed
  <2>5. Attended'
    BY <1>6, <2>1, <1>1, <1>2, <1>3 DEF Attended, KeysUsed, CallsShaped, Untouched,
      TasksForward, Closing, InHand, ForwardedBy, Typed
  <2> QED  BY <2>2, <2>3, <2>4, <2>5
<1> QED  BY <1>4, <1>5, <1>6

\* While nothing is wrong no heartbeat finds its key gone.
LEMMA LostAttends ==
  ASSUME AttendedInv, NEW r \in Replicas, NEW p \in Projects, Lost(r, p), ProxyInv'
  PROVE  AttendedInv'
<1> USE DEF AttendedInv
<1>1. p \in tasks[r] /\ lock[p] # Instance(r) /\ UNCHANGED <<phase, up, attach, lock, call, faults>>
  BY DEF Lost
<1>2. faults = {} => FALSE
  BY <1>1 DEF ProxyInv, KeyedForwarders, TasksForward
<1>3. Typed /\ Typed'
  BY ProxyAssumption DEF ProxyInv, TypeOK, HandlersUp, Typed
<1>4. CallsShaped'
  BY <1>1, <1>2, <1>3 DEF CallsShaped, Untouched, InHand, Typed
<1>5. Untouched'
  BY <1>1, <1>2, <1>3 DEF Untouched, CallsShaped, InHand, Typed
<1>6. ASSUME faults' = {} PROVE TasksForward' /\ AwaitedOnce' /\ KeysUsed' /\ Attended'
  <2>1. faults = {} /\ TasksForward /\ AwaitedOnce /\ KeysUsed /\ Attended
    BY <1>6, <1>1, <1>2, <1>3
  <2>2. TasksForward'
    BY <1>6, <2>1, <1>1, <1>2, <1>3 DEF TasksForward, Typed
  <2>3. AwaitedOnce'
    BY <1>6, <2>1, <1>1, <1>2, <1>3 DEF AwaitedOnce, TasksForward, Awaits, CallAt,
      ForwardedBy, Typed
  <2>4. KeysUsed'
    BY <1>6, <2>1, <1>1, <1>2, <1>3 DEF KeysUsed, Untouched, CallsShaped, Closing,
      ForwardedBy, TasksForward, Typed
  <2>5. Attended'
    BY <1>6, <2>1, <1>1, <1>2, <1>3 DEF Attended, KeysUsed, CallsShaped, Untouched,
      TasksForward, Closing, InHand, ForwardedBy, Typed
  <2> QED  BY <2>2, <2>3, <2>4, <2>5
<1> QED  BY <1>4, <1>5, <1>6

\* A replica that shuts down has no handlers, and gives back all its keys.
LEMMA ShutdownAttends ==
  ASSUME AttendedInv, NEW r \in Replicas, Shutdown(r), ProxyInv'
  PROVE  AttendedInv'
<1> USE DEF AttendedInv, ProxyInv
<1>1. \A d \in Callers : call'[d] = call[d] /\ call[d].at # r
  BY DEF Shutdown, Gone, TypeOK
<1>2. \A s \in Replicas, q \in Projects :
        /\ q \in forwarding'[s] <=> q \in forwarding[s] /\ s # r
        /\ q \in tasks'[s] <=> q \in tasks[s] /\ s # r
        /\ q \in attach'[s] <=> q \in attach[s] /\ s # r
  BY DEF Shutdown, Gone, TypeOK
<1>3. r \notin up' /\ \A s \in Replicas : s \notin up => s \notin up'
  BY DEF Shutdown, Gone
<1>4. \A q \in Projects :
        /\ lock'[q] \in {lock[q], NoLock}
        /\ q \in tasks[r] /\ lock[q] = Instance(r) => lock'[q] = NoLock
  BY DEF Shutdown, HandedBack, TypeOK
<1>5. \A q \in Projects : q \in forwarding[r] => q \in tasks[r]
  BY <1>1 DEF ForwardersTended, Awaits
<1>6. faults = {} => \A q \in Projects : q \in forwarding[r] => lock'[q] = NoLock
  BY <1>4, <1>5 DEF KeyedForwarders
<1>7. UNCHANGED <<phase, faults>>
  BY DEF Shutdown
<1>8. Typed /\ Typed'
  BY ProxyAssumption DEF ProxyInv, TypeOK, HandlersUp, Typed
<1>9. CallsShaped'
  BY <1>1, <1>2, <1>3, <1>4, <1>5, <1>6, <1>7, <1>8 DEF CallsShaped, Untouched, InHand, Typed
<1>10. Untouched'
  BY <1>1, <1>2, <1>3, <1>4, <1>5, <1>6, <1>7, <1>8 DEF Untouched, CallsShaped, InHand, Typed
<1>11. ASSUME faults' = {} PROVE TasksForward' /\ AwaitedOnce' /\ KeysUsed' /\ Attended'
  <2>1. faults = {} /\ TasksForward /\ AwaitedOnce /\ KeysUsed /\ Attended
    BY <1>11, <1>1, <1>2, <1>3, <1>4, <1>5, <1>6, <1>7, <1>8
  <2>2. TasksForward'
    BY <1>11, <2>1, <1>1, <1>2, <1>3, <1>4, <1>5, <1>6, <1>7, <1>8 DEF TasksForward, Typed
  <2>3. AwaitedOnce'
    BY <1>11, <2>1, <1>1, <1>2, <1>3, <1>4, <1>5, <1>6, <1>7, <1>8 DEF AwaitedOnce,
      TasksForward, Awaits, CallAt, ForwardedBy, Typed
  <2>4. KeysUsed'
    BY <1>11, <2>1, <1>1, <1>2, <1>3, <1>4, <1>5, <1>6, <1>7, <1>8 DEF KeysUsed, Untouched,
      CallsShaped, Closing, ForwardedBy, TasksForward, Typed
  <2>5. Attended'
    BY <1>11, <2>1, <1>1, <1>2, <1>3, <1>4, <1>5, <1>6, <1>7, <1>8 DEF Attended, KeysUsed,
      CallsShaped, Untouched, TasksForward, Closing, InHand, ForwardedBy, Typed
  <2> QED  BY <2>2, <2>3, <2>4, <2>5
<1> QED  BY <1>9, <1>10, <1>11

\* After a crash nothing more is promised of the forwarders.
LEMMA CrashAttends ==
  ASSUME AttendedInv, NEW r \in Replicas, Crash(r), ProxyInv'
  PROVE  AttendedInv'
<1> USE DEF AttendedInv, ProxyInv
<1>1. \A d \in Callers : call'[d] = call[d] \/ call'[d] = IdleCall
  BY DEF Crash, Gone, TypeOK
<1>2. \A s \in Replicas, q \in Projects : q \in attach'[s] => q \in attach[s]
  BY DEF Crash, Gone, TypeOK
<1>3. faults' # {} /\ UNCHANGED <<phase, lock>>
  BY DEF Crash
<1>4. \A d \in Callers : call'[d] # call[d] =>
           call'[d].pc = "idle" /\ call'[d].project = None /\ call'[d].next = None
  BY <1>1 DEF IdleCall
<1>5. Typed /\ Typed'
  BY ProxyAssumption DEF ProxyInv, TypeOK, HandlersUp, Typed
<1>6. CallsShaped'
  BY <1>1, <1>2, <1>3, <1>4, <1>5 DEF CallsShaped, Untouched, InHand, Typed
<1>7. Untouched'
  BY <1>1, <1>2, <1>3, <1>4, <1>5 DEF Untouched, CallsShaped, InHand, Typed
<1>8. ASSUME faults' = {} PROVE TasksForward' /\ AwaitedOnce' /\ KeysUsed' /\ Attended'
  <2>1. faults = {} /\ TasksForward /\ AwaitedOnce /\ KeysUsed /\ Attended
    BY <1>8, <1>1, <1>2, <1>3, <1>4, <1>5
  <2>2. TasksForward'
    BY <1>8, <2>1, <1>1, <1>2, <1>3, <1>4, <1>5 DEF TasksForward, Typed
  <2>3. AwaitedOnce'
    BY <1>8, <2>1, <1>1, <1>2, <1>3, <1>4, <1>5 DEF AwaitedOnce, TasksForward, Awaits, CallAt,
      ForwardedBy, Typed
  <2>4. KeysUsed'
    BY <1>8, <2>1, <1>1, <1>2, <1>3, <1>4, <1>5 DEF KeysUsed, Untouched, CallsShaped, Closing,
      ForwardedBy, TasksForward, Typed
  <2>5. Attended'
    BY <1>8, <2>1, <1>1, <1>2, <1>3, <1>4, <1>5 DEF Attended, KeysUsed, CallsShaped,
      Untouched, TasksForward, Closing, InHand, ForwardedBy, Typed
  <2> QED  BY <2>2, <2>3, <2>4, <2>5
<1> QED  BY <1>6, <1>7, <1>8

\* A replica that starts attaches every active project.
LEMMA BootAttends ==
  ASSUME AttendedInv, NEW r \in Replicas, Boot(r), ProxyInv'
  PROVE  AttendedInv'
<1> USE DEF AttendedInv, ProxyInv
<1>1. r \in up' /\ \A s \in Replicas : s # r => (s \in up <=> s \in up')
  BY DEF Boot
<1>2. \A s \in Replicas, q \in Projects :
        q \in attach'[s] <=> (s = r /\ phase[q] = "open") \/ (s # r /\ q \in attach[s])
  BY DEF Boot, Open, TypeOK
<1>3. UNCHANGED <<phase, lock, tasks, forwarding, call, faults>>
  BY DEF Boot
<1>4. Typed /\ Typed'
  BY ProxyAssumption DEF ProxyInv, TypeOK, HandlersUp, Typed
<1>5. CallsShaped'
  BY <1>1, <1>2, <1>3, <1>4 DEF CallsShaped, Untouched, InHand, Typed
<1>6. Untouched'
  BY <1>1, <1>2, <1>3, <1>4 DEF Untouched, CallsShaped, InHand, Typed
<1>7. ASSUME faults' = {} PROVE TasksForward' /\ AwaitedOnce' /\ KeysUsed' /\ Attended'
  <2>1. faults = {} /\ TasksForward /\ AwaitedOnce /\ KeysUsed /\ Attended
    BY <1>7, <1>1, <1>2, <1>3, <1>4
  <2>2. TasksForward'
    BY <1>7, <2>1, <1>1, <1>2, <1>3, <1>4 DEF TasksForward, Typed
  <2>3. AwaitedOnce'
    BY <1>7, <2>1, <1>1, <1>2, <1>3, <1>4 DEF AwaitedOnce, TasksForward, Awaits, CallAt,
      ForwardedBy, Typed
  <2>4. KeysUsed'
    BY <1>7, <2>1, <1>1, <1>2, <1>3, <1>4 DEF KeysUsed, Untouched, CallsShaped, Closing,
      ForwardedBy, TasksForward, Typed
  <2>5. Attended'
    BY <1>7, <2>1, <1>1, <1>2, <1>3, <1>4 DEF Attended, KeysUsed, CallsShaped, Untouched,
      TasksForward, Closing, InHand, ForwardedBy, Typed
  <2> QED  BY <2>2, <2>3, <2>4, <2>5
<1> QED  BY <1>5, <1>6, <1>7

\* Whatever a step does, a project is not forgotten.
LEMMA AttendedStep == AttendedInv /\ [Next]_vars => AttendedInv'
<1> SUFFICES ASSUME AttendedInv, [Next]_vars PROVE AttendedInv'
  OBVIOUS
<1>1. ProxyInv'
  BY ProxyStep DEF AttendedInv
<1>2. ASSUME NEW c \in Callers, CallStep(c) PROVE AttendedInv'
  BY <1>1, <1>2, SetAttends, TaskEndsAttends, ReleaseAttends, CloseRowAttends DEF CallStep
<1>3. ASSUME NEW c \in Callers, NEW r \in Replicas, NEW p \in Projects,
             \/ Create(c, r, p) \/ Delete(c, r, p)
             \/ \E new \in Projects : Reset(c, r, p, new)
      PROVE  AttendedInv'
  BY <1>1, <1>3, CreateAttends, DeleteAttends, ResetAttends
<1>4. ASSUME NEW p \in Projects, Expire(p) PROVE AttendedInv'
  BY <1>1, <1>4, ExpireAttends
<1>5. ASSUME NEW r \in Replicas, Shutdown(r) \/ Crash(r) \/ Boot(r) PROVE AttendedInv'
  BY <1>1, <1>5, ShutdownAttends, CrashAttends, BootAttends
<1>6. ASSUME NEW r \in Replicas, NEW p \in Projects, Attach(r, p) \/ Lost(r, p)
      PROVE  AttendedInv'
  BY <1>1, <1>6, AttachAttends, LostAttends
<1>7. CASE UNCHANGED vars
  BY <1>1, <1>7 DEF vars, AttendedInv, CallsShaped, Untouched, InHand, TasksForward, AwaitedOnce,
    CallAt, Awaits, ForwardedBy, KeysUsed, Closing, Attended
<1> QED  BY <1>2, <1>3, <1>4, <1>5, <1>6, <1>7 DEF Next

\* Every active project is forwarded while nothing goes wrong, once no handler has
\* it in hand and every replica is up and through its startup (start_project,
\* stop_project, the startup's attach_all).
THEOREM EveryProjectForwarded == Spec => []Forwarded
<1>1. Init => AttendedInv
  <2> SUFFICES ASSUME Init PROVE AttendedInv
    OBVIOUS
  <2>1. ProxyInv /\ \A c \in Callers : call[c] = IdleCall
    BY ProxyInitInv DEF Init
  <2>2. CallsShaped
    BY <2>1 DEF CallsShaped, IdleCall
  <2>3. Untouched
    BY <2>1, ProxyAssumption DEF Init, Untouched, InHand, IdleCall
  <2>4. TasksForward /\ AwaitedOnce /\ KeysUsed /\ Attended
    BY <2>1 DEF Init, TasksForward, AwaitedOnce, CallAt, IdleCall, KeysUsed, Attended
  <2> QED  BY <2>1, <2>2, <2>3, <2>4 DEF AttendedInv
<1>2. AttendedInv => Forwarded
  BY DEF AttendedInv, ProxyInv, TypeOK, Forwarded, Attended, Serving, Open, Busy, InHand, Forwarders,
    ForwardedBy
<1> QED  BY <1>1, <1>2, AttendedStep, PTL DEF Spec
-----------------------------------------------------------------------------
(* Minima, functions built step by step, sequences and their sums *)

\* Every set of numbers has a least one.
LEMMA Smallest ==
  ASSUME NEW S, S \subseteq Nat, S # {} PROVE \E x \in S : \A y \in S : x <= y
<1>1. PICK x \in S : \A y \in S : ~(<<y, x>> \in OpToRel(<, Nat))
  BY NatLessThanWellFounded, WFMin
<1>2. \A y \in S : ~(y < x) BY <1>1 DEF OpToRel
<1> QED BY <1>2

\* A sequence with one element more.
LEMMA OneMore ==
  ASSUME NEW S, NEW s \in Seq(S), NEW e \in S
  PROVE  /\ Append(s, e) \in Seq(S) /\ Append(s, e) # <<>>
         /\ Len(s) \in Nat /\ DOMAIN s = 1 .. Len(s)
         /\ Len(Append(s, e)) = Len(s) + 1 /\ DOMAIN Append(s, e) = 1 .. (Len(s) + 1)
         /\ \A i \in 1 .. Len(s) : Append(s, e)[i] = s[i]
         /\ Append(s, e)[Len(s) + 1] = e
         /\ Range(Append(s, e)) = Range(s) \cup {e}
<1>1. /\ Append(s, e) \in Seq(S) /\ Append(s, e) # <<>>
      /\ Len(s) \in Nat /\ DOMAIN s = 1 .. Len(s)
      /\ Len(Append(s, e)) = Len(s) + 1 /\ DOMAIN Append(s, e) = 1 .. (Len(s) + 1)
      /\ \A i \in 1 .. Len(s) : Append(s, e)[i] = s[i]
      /\ Append(s, e)[Len(s) + 1] = e
  BY AppendProperties, LenProperties
<1>2. Range(Append(s, e)) = Range(s) \cup {e} BY <1>1 DEF Range
<1> QED BY <1>1, <1>2

\* What holds at zero and goes from each number to the next holds up to N.
LEMMA StepByStep ==
  ASSUME NEW N \in Nat, NEW P, 0 \in P, \A n \in 1 .. N : n - 1 \in P => n \in P
  PROVE  0 .. N \subseteq P
<1> SUFFICES ASSUME (0 .. N) \ P # {} PROVE FALSE OBVIOUS
<1> DEFINE B == (0 .. N) \ P
<1>0. B \subseteq Nat /\ B # {} OBVIOUS
<1> HIDE DEF B
<1>1. PICK n \in B : \A m \in B : n <= m BY <1>0, Smallest
<1> USE DEF B
<1>2. n \in 1 .. N /\ n - 1 \in 0 .. N /\ ~(n <= n - 1) BY <1>1
<1>3. n - 1 \in P BY <1>1, <1>2
<1> QED BY <1>1, <1>2, <1>3

\* What can go on within S from each number to the next can be carried on up to N.
GoesOn(R, S, N) == \A k \in 1 .. N, x \in S : \E y \in S : <<k, x, y>> \in R
CarriedOn(R, S, base, N) ==
  \E f \in [0 .. N -> S] : f[0] = base /\ \A k \in 1 .. N : <<k, f[k - 1], f[k]>> \in R
LEMMA Iterates ==
  ASSUME NEW N \in Nat, NEW S, NEW base \in S, NEW R, GoesOn(R, S, N) PROVE CarriedOn(R, S, base, N)
<1> DEFINE Upto(n, f) == f[0] = base /\ \A k \in 1 .. n : <<k, f[k - 1], f[k]>> \in R
           P == {n \in 0 .. N : \E f \in [0 .. n -> S] : Upto(n, f)}
<1>1. 0 \in P
  <2>1. PICK f : f = [k \in 0 .. 0 |-> base] OBVIOUS
  <2>2. f \in [0 .. 0 -> S] /\ f[0] = base /\ \A k \in 1 .. 0 : FALSE BY <2>1
  <2>3. Upto(0, f) BY <2>2
  <2> QED BY <2>2, <2>3
<1>2. ASSUME NEW n \in 1 .. N, n - 1 \in P PROVE n \in P
  <2>1. PICK f \in [0 .. (n - 1) -> S] : Upto(n - 1, f) BY <1>2
  <2>2. PICK y \in S : <<n, f[n - 1], y>> \in R
    <3>1. n - 1 \in 0 .. (n - 1) BY <1>2
    <3>2. f[n - 1] \in S BY <2>1, <3>1
    <3> QED BY <3>2 DEF GoesOn
  <2>3. PICK g : g = [k \in 0 .. n |-> IF k = n THEN y ELSE f[k]] OBVIOUS
  <2>4. g \in [0 .. n -> S]
    <3>1. \A k \in 0 .. n : k # n => k \in 0 .. (n - 1) OBVIOUS
    <3> QED BY <2>1, <2>2, <2>3, <3>1
  <2>5. g[n] = y /\ \A k \in 0 .. (n - 1) : g[k] = f[k] BY <2>3
  <2>6. ASSUME NEW k \in 1 .. n PROVE <<k, g[k - 1], g[k]>> \in R
    <3>1. k - 1 \in 0 .. (n - 1) /\ g[k - 1] = f[k - 1] BY <2>5
    <3>2. CASE k = n BY <2>2, <2>5, <3>1, <3>2
    <3>3. CASE k # n
      <4>1. k \in 1 .. (n - 1) /\ k \in 0 .. (n - 1) BY <3>3
      <4>2. g[k] = f[k] /\ <<k, f[k - 1], f[k]>> \in R BY <2>1, <2>5, <4>1
      <4> QED BY <3>1, <4>2
    <3> QED BY <3>2, <3>3
  <2>7. g[0] = base
    <3>1. 0 \in 0 .. (n - 1) OBVIOUS
    <3> QED BY <2>1, <2>5, <3>1
  <2>8. Upto(n, g) BY <2>6, <2>7
  <2> HIDE DEF Upto
  <2> QED BY <2>4, <2>8
<1>3. 0 .. N \subseteq P
  <2> HIDE DEF P
  <2> QED BY <1>1, <1>2, StepByStep
<1>4. N \in P BY <1>3
<1> QED BY <1>4 DEF CarriedOn

\* Two sequences side by side.
LEMMA Joined ==
  ASSUME NEW S, NEW s \in Seq(S), NEW t \in Seq(S)
  PROVE  /\ s \o t \in Seq(S) /\ Len(s) \in Nat /\ Len(t) \in Nat
         /\ DOMAIN s = 1 .. Len(s) /\ DOMAIN t = 1 .. Len(t) /\ DOMAIN (s \o t) = 1 .. (Len(s) + Len(t))
         /\ \A i \in 1 .. Len(s) : (s \o t)[i] = s[i]
         /\ \A i \in 1 .. Len(t) : (s \o t)[Len(s) + i] = t[i]
         /\ \A i \in DOMAIN (s \o t) : i \in 1 .. Len(s) \/ (i - Len(s) \in 1 .. Len(t) /\ i = Len(s) + (i - Len(s)))
         /\ Range(s \o t) = Range(s) \cup Range(t)
<1>1. Len(s) \in Nat /\ Len(t) \in Nat /\ DOMAIN s = 1 .. Len(s) /\ DOMAIN t = 1 .. Len(t) BY LenProperties
<1>2. PICK u, m, n : u = s \o t /\ m = Len(s) /\ n = Len(t) OBVIOUS
<1>3. /\ u \in Seq(S) /\ Len(u) = m + n
      /\ \A i \in 1 .. m + n : u[i] = IF i <= m THEN s[i] ELSE t[i - m]
  BY <1>2, ConcatProperties
<1>4. DOMAIN u = 1 .. (m + n) BY <1>3, LenProperties
<1>5. \A i \in 1 .. m : u[i] = s[i]
  <2>1. \A i \in 1 .. m : i \in 1 .. m + n /\ i <= m BY <1>1, <1>2
  <2> QED BY <1>3, <2>1
<1>6. \A i \in 1 .. n : u[m + i] = t[i]
  <2>1. \A i \in 1 .. n : m + i \in 1 .. m + n /\ ~(m + i <= m) /\ (m + i) - m = i BY <1>1, <1>2
  <2> QED BY <1>3, <2>1
<1>7. \A i \in 1 .. (m + n) : i \in 1 .. m \/ (i - m \in 1 .. n /\ i = m + (i - m)) BY <1>1, <1>2
<1>8. Range(u) = Range(s) \cup Range(t) BY <1>2, RangeConcatenation
<1> QED BY <1>1, <1>2, <1>3, <1>4, <1>5, <1>6, <1>7, <1>8


\* A sequence in two pieces.
LEMMA InTwo ==
  ASSUME NEW S, NEW s \in Seq(S), NEW m \in 0 .. Len(s)
  PROVE  LET p == SubSeq(s, 1, m)
             q == SubSeq(s, m + 1, Len(s))
         IN /\ Len(s) \in Nat /\ DOMAIN s = 1 .. Len(s)
            /\ p \in Seq(S) /\ Len(p) = m /\ DOMAIN p = 1 .. m /\ \A i \in 1 .. m : p[i] = s[i]
            /\ q \in Seq(S) /\ Len(q) = Len(s) - m /\ DOMAIN q = 1 .. (Len(s) - m)
            /\ \A i \in 1 .. (Len(s) - m) : q[i] = s[m + i]
            /\ Range(s) = Range(p) \cup Range(q)
<1>1. PICK p, q, n : p = SubSeq(s, 1, m) /\ q = SubSeq(s, m + 1, Len(s)) /\ n = Len(s) OBVIOUS
<1>2. n \in Nat /\ DOMAIN s = 1 .. n /\ (\A i \in 1 .. n : s[i] \in S) /\ m \in 0 .. n
  BY <1>1, LenProperties, ElementOfSeq
<1>3. p \in Seq(S) /\ Len(p) = m /\ \A i \in 1 .. m : p[i] = s[i]
  <2>1. 1 \in Int /\ m \in Int /\ \A i \in 1 .. m : s[i] \in S BY <1>2
  <2>2. /\ p \in Seq(S) /\ Len(p) = (IF 1 <= m THEN m - 1 + 1 ELSE 0)
        /\ \A i \in 1 .. m - 1 + 1 : p[i] = s[1 + i - 1]
    BY <1>1, <2>1, SubSeqProperties
  <2>3. Len(p) = m BY <1>2, <2>2
  <2>4. \A i \in 1 .. m : i \in 1 .. m - 1 + 1 /\ 1 + i - 1 = i BY <1>2
  <2> QED BY <2>2, <2>3, <2>4
<1>4. q \in Seq(S) /\ Len(q) = n - m /\ \A i \in 1 .. (n - m) : q[i] = s[m + i]
  <2> DEFINE b == m + 1
  <2>1. b \in Int /\ n \in Int /\ \A i \in b .. n : s[i] \in S BY <1>2
  <2>2. q = SubSeq(s, b, n) BY <1>1
  <2> HIDE DEF b
  <2>3. /\ q \in Seq(S) /\ Len(q) = (IF b <= n THEN n - b + 1 ELSE 0)
        /\ \A i \in 1 .. n - b + 1 : q[i] = s[b + i - 1]
    BY <2>1, <2>2, SubSeqProperties
  <2>4. Len(q) = n - m BY <1>2, <2>3 DEF b
  <2>5. \A i \in 1 .. (n - m) : i \in 1 .. n - b + 1 /\ b + i - 1 = m + i BY <1>2 DEF b
  <2> QED BY <2>3, <2>4, <2>5
<1>5. DOMAIN p = 1 .. m /\ DOMAIN q = 1 .. (n - m) BY <1>3, <1>4, LenProperties
<1>6. Range(s) = Range(p) \cup Range(q)
  <2>1. ASSUME NEW i \in 1 .. n PROVE s[i] \in Range(p) \cup Range(q)
    <3>1. CASE i <= m
      <4>1. i \in 1 .. m /\ p[i] = s[i] BY <1>2, <1>3, <3>1
      <4> QED BY <1>5, <4>1 DEF Range
    <3>2. CASE ~(i <= m)
      <4>1. PICK j \in 1 .. (n - m) : i = m + j
        <5>1. i - m \in 1 .. (n - m) /\ i = m + (i - m) BY <1>2, <3>2
        <5> QED BY <5>1
      <4>2. q[j] = s[i] BY <1>4, <4>1
      <4> QED BY <1>5, <4>2 DEF Range
    <3> QED BY <3>1, <3>2
  <2>2. ASSUME NEW i \in 1 .. m PROVE p[i] \in Range(s)
    <3>1. i \in 1 .. n /\ p[i] = s[i] BY <1>2, <1>3
    <3> QED BY <1>2, <3>1 DEF Range
  <2>3. ASSUME NEW i \in 1 .. (n - m) PROVE q[i] \in Range(s)
    <3>1. m + i \in 1 .. n /\ q[i] = s[m + i] BY <1>2, <1>4
    <3> QED BY <1>2, <3>1 DEF Range
  <2> QED BY <1>2, <1>5, <2>1, <2>2, <2>3 DEF Range
<1> QED BY <1>1, <1>2, <1>3, <1>4, <1>5, <1>6

\* A function on the numbers up to N is a sequence of that length.
LEMMA FunctionAsSeq ==
  ASSUME NEW N \in Nat, NEW S, NEW w \in [1 .. N -> S] PROVE w \in Seq(S) /\ Len(w) = N
<1>1. w \in Seq(S) BY SeqDef
<1>2. PICK L \in Nat : L = Len(w) /\ 1 .. L = 1 .. N BY <1>1, LenProperties
<1>3. L = N
  <2>1. CASE L < N
    <3>1. N \in 1 .. N /\ ~(N \in 1 .. L) BY <2>1
    <3> QED BY <1>2, <3>1
  <2>2. CASE N < L
    <3>1. L \in 1 .. L /\ ~(L \in 1 .. N) BY <2>2
    <3> QED BY <1>2, <3>1
  <2> QED BY <2>1, <2>2
<1> QED BY <1>1, <1>2, <1>3

\* A sum is what its steps add up to.
SumsTo(f, q) ==
  /\ q \in Seq(Nat)
  /\ f \in [0 .. Len(q) -> Nat] /\ f[0] = 0 /\ \A k \in 1 .. Len(q) : f[k] = f[k - 1] + q[k]

\* The sum of a sequence is where such a function ends.
LEMMA Sums ==
  ASSUME NEW q \in Seq(Nat) PROVE \E f : SumsTo(f, q) /\ SumOf(q) = f[Len(q)]
<1> DEFINE N == Len(q)
           R == {p \in (1 .. N) \X Nat \X Nat : p[3] = p[2] + q[p[1]]}
           rec(f) == [n \in 0 .. N |-> IF n = 0 THEN 0 ELSE f[n - 1] + q[n]]
           sum == CHOOSE f : f = rec(f)
<1>1. N \in Nat /\ \A n \in 1 .. N : q[n] \in Nat BY LenProperties, ElementOfSeq
<1>2. \A n \in 1 .. N, a, b \in Nat : <<n, a, b>> \in R <=> b = a + q[n] OBVIOUS
<1> HIDE DEF R
<1>3. PICK f \in [0 .. N -> Nat] : f[0] = 0 /\ \A n \in 1 .. N : <<n, f[n - 1], f[n]>> \in R
  <2>1. PICK M, T : M = N /\ T = Nat OBVIOUS
  <2>2. GoesOn(R, T, M)
    <3> SUFFICES ASSUME NEW k \in 1 .. M, NEW x \in T PROVE \E y \in T : <<k, x, y>> \in R BY DEF GoesOn
    <3>1. x + q[k] \in Nat BY <1>1, <2>1
    <3> QED BY <1>2, <2>1, <3>1
  <2>3. CarriedOn(R, T, 0, M) BY <1>1, <2>1, <2>2, Iterates
  <2> QED BY <2>1, <2>3 DEF CarriedOn
<1>4. \A n \in 1 .. N : f[n] = f[n - 1] + q[n]
  <2>1. \A n \in 1 .. N : n - 1 \in 0 .. N /\ n \in 0 .. N BY <1>1
  <2> HIDE DEF N
  <2>2. \A n \in 1 .. N : f[n - 1] \in Nat /\ f[n] \in Nat BY <2>1
  <2> QED BY <1>2, <1>3, <2>2
<1>5. f = rec(f)
  <2>1. \A n \in 0 .. N : f[n] = rec(f)[n]
    <3> SUFFICES ASSUME NEW n \in 0 .. N PROVE f[n] = rec(f)[n] OBVIOUS
    <3>1. CASE n = 0 BY <1>3, <3>1
    <3>2. CASE n # 0
      <4>1. n \in 1 .. N BY <1>1, <3>2
      <4> QED BY <1>4, <3>2, <4>1
    <3> QED BY <3>1, <3>2
  <2> QED BY <2>1
<1>6. sum = rec(sum)
  <2> HIDE DEF rec
  <2> QED BY <1>5
<1>7. SumOf(q) = sum[N] BY DEF SumOf
<1> HIDE DEF sum
<1>8. sum[0] = 0 /\ \A n \in 1 .. N : sum[n] = sum[n - 1] + q[n]
  <2>1. \A n \in 1 .. N : n \in 0 .. N /\ n # 0 OBVIOUS
  <2>2. 0 \in 0 .. N BY <1>1
  <2> QED BY <1>6, <2>1, <2>2
<1>9. 0 .. N \subseteq {n \in 0 .. N : sum[n] = f[n]}
  <2> DEFINE P == {n \in 0 .. N : sum[n] = f[n]}
  <2>1. 0 \in P BY <1>1, <1>3, <1>8
  <2>2. \A n \in 1 .. N : n - 1 \in P => n \in P BY <1>4, <1>8
  <2> HIDE DEF P, N
  <2>3. 0 .. N \subseteq P BY <1>1, <2>1, <2>2, StepByStep
  <2> QED BY <2>3 DEF P
<1>10. sum[N] = f[N] BY <1>1, <1>9
<1>11. SumsTo(f, q) BY <1>3, <1>4 DEF SumsTo
<1> QED BY <1>7, <1>10, <1>11

\* The first n numbers of r stand in q behind its first m.
Within(r, n, q, m) ==
  n \in 0 .. Len(r) /\ m \in Nat /\ m + n <= Len(q) /\ \A k \in 1 .. n : q[m + k] = r[k]

LEMMA SumsAgree ==
  ASSUME NEW q, NEW r, NEW f, NEW g, SumsTo(f, q), SumsTo(g, r), NEW m, NEW n, Within(r, n, q, m)
  PROVE  f[m + n] = f[m] + g[n] /\ f[m] \in Nat /\ g[n] \in Nat
<1>0. n \in 0 .. Len(r) /\ m \in Nat /\ m + n <= Len(q) /\ \A k \in 1 .. n : q[m + k] = r[k] BY DEF Within
<1>1. PICK M, N : M = Len(q) /\ N = Len(r) OBVIOUS
<1>10. q \in Seq(Nat) /\ r \in Seq(Nat) BY DEF SumsTo
<1>2. M \in Nat /\ N \in Nat /\ n \in 0 .. N /\ m \in Nat /\ m + n <= M BY <1>0, <1>1, <1>10, LenProperties
<1>3. /\ f \in [0 .. M -> Nat] /\ \A k \in 1 .. M : f[k] = f[k - 1] + q[k]
      /\ g \in [0 .. N -> Nat] /\ g[0] = 0 /\ \A k \in 1 .. N : g[k] = g[k - 1] + r[k]
  BY <1>1 DEF SumsTo
<1>4. \A k \in 1 .. N : r[k] \in Nat BY <1>1, <1>10, ElementOfSeq
<1> DEFINE P == {k \in 0 .. n : f[m + k] = f[m] + g[k]}
<1>5. f[m] \in Nat /\ g[n] \in Nat
  <2>1. m \in 0 .. M BY <1>2
  <2> QED BY <1>2, <1>3, <2>1
<1>6. 0 \in P
  <2>1. m + 0 = m /\ f[m] + 0 = f[m] /\ 0 \in 0 .. n BY <1>2, <1>5
  <2> QED BY <1>3, <2>1
<1>7. ASSUME NEW k \in 1 .. n, k - 1 \in P PROVE k \in P
  <2>1. f[m + (k - 1)] = f[m] + g[k - 1] BY <1>7
  <2>2. m + k \in 1 .. M /\ (m + k) - 1 = m + (k - 1) /\ k \in 1 .. N /\ k - 1 \in 0 .. N BY <1>2
  <2>3. f[m + k] = f[m + (k - 1)] + q[m + k] /\ q[m + k] = r[k] BY <1>0, <1>3, <2>2
  <2>4. g[k] = g[k - 1] + r[k] /\ g[k - 1] \in Nat /\ r[k] \in Nat BY <1>3, <1>4, <2>2
  <2>5. PICK a, b, c : a = f[m] /\ b = g[k - 1] /\ c = r[k] OBVIOUS
  <2>6. f[m + k] = (a + b) + c /\ g[k] = b + c BY <2>1, <2>3, <2>4, <2>5
  <2>7. a \in Nat /\ b \in Nat /\ c \in Nat BY <1>5, <2>4, <2>5
  <2>8. f[m + k] = a + g[k] BY <2>6, <2>7
  <2> QED BY <2>5, <2>8
<1>8. 0 .. n \subseteq P
  <2> HIDE DEF P
  <2>1. n \in Nat BY <1>2
  <2> QED BY <1>6, <1>7, <2>1, StepByStep
<1>9. n \in P BY <1>2, <1>8
<1> QED BY <1>5, <1>9

\* The sum of a sequence is that of its two pieces.
LEMMA SumCut ==
  ASSUME NEW q \in Seq(Nat), NEW p \in Seq(Nat), NEW r \in Seq(Nat), Len(q) = Len(p) + Len(r),
         \A k \in 1 .. Len(p) : q[k] = p[k], \A k \in 1 .. Len(r) : q[Len(p) + k] = r[k]
  PROVE  SumOf(q) = SumOf(p) + SumOf(r) /\ SumOf(p) \in Nat /\ SumOf(r) \in Nat
<1>1. PICK m, n : m = Len(p) /\ n = Len(r) OBVIOUS
<1>2. m \in Nat /\ n \in Nat /\ Len(q) = m + n BY <1>1, LenProperties
<1>3. PICK f : SumsTo(f, q) /\ SumOf(q) = f[Len(q)] BY Sums
<1>4. PICK g : SumsTo(g, p) /\ SumOf(p) = g[Len(p)] BY Sums
<1>5. PICK h : SumsTo(h, r) /\ SumOf(r) = h[Len(r)] BY Sums
<1>6. Within(p, m, q, 0)
  <2>1. 0 \in Nat /\ m \in 0 .. Len(p) /\ 0 + m <= Len(q) BY <1>1, <1>2
  <2>2. \A k \in 1 .. m : q[0 + k] = p[k]
    <3>1. \A k \in 1 .. m : 0 + k = k OBVIOUS
    <3> QED BY <1>1, <3>1
  <2> QED BY <2>1, <2>2 DEF Within
<1>7. Within(r, n, q, m)
  <2>1. n \in 0 .. Len(r) /\ m + n <= Len(q) BY <1>1, <1>2
  <2>2. \A k \in 1 .. n : q[m + k] = r[k] BY <1>1
  <2> QED BY <1>2, <2>1, <2>2 DEF Within
<1>8. f[0 + m] = f[0] + g[m] /\ g[m] \in Nat
  <2>1. SumsTo(f, q) /\ SumsTo(g, p) BY <1>3, <1>4
  <2> QED BY <1>6, <2>1, SumsAgree
<1>9. f[m + n] = f[m] + h[n] /\ h[n] \in Nat
  <2>1. SumsTo(f, q) /\ SumsTo(h, r) BY <1>3, <1>5
  <2> QED BY <1>7, <2>1, SumsAgree
<1>10. f[0] = 0 /\ 0 + m = m BY <1>2, <1>3 DEF SumsTo
<1>11. f[m] = g[m] BY <1>8, <1>10
<1> QED BY <1>1, <1>2, <1>3, <1>4, <1>5, <1>8, <1>9, <1>11

\* One more is added.
LEMMA SumAppend ==
  ASSUME NEW q \in Seq(Nat), NEW p \in Seq(Nat), Len(q) = Len(p) + 1,
         \A k \in 1 .. Len(p) : q[k] = p[k]
  PROVE  SumOf(q) = SumOf(p) + q[Len(q)] /\ SumOf(p) \in Nat
<1>1. PICK m : m = Len(p) OBVIOUS
<1>2. m \in Nat /\ Len(q) = m + 1 BY <1>1, LenProperties
<1>3. PICK f, g : SumsTo(f, q) /\ SumOf(q) = f[m + 1] /\ SumsTo(g, p) /\ SumOf(p) = g[m]
  BY <1>1, <1>2, Sums
<1>4. f[0 + m] = f[0] + g[m] /\ g[m] \in Nat
  <2>1. 0 \in Nat /\ m \in 0 .. Len(p) /\ 0 + m <= Len(q) BY <1>1, <1>2
  <2>2. \A k \in 1 .. m : q[0 + k] = p[k]
    <3>1. \A k \in 1 .. m : 0 + k = k OBVIOUS
    <3> QED BY <1>1, <3>1
  <2>3. Within(p, m, q, 0) BY <2>1, <2>2 DEF Within
  <2>4. SumsTo(f, q) /\ SumsTo(g, p) BY <1>3
  <2> QED BY <2>3, <2>4, SumsAgree
<1>5. f[0] = 0 /\ f[m + 1] = f[(m + 1) - 1] + q[m + 1]
  <2>1. m + 1 \in 1 .. Len(q) BY <1>2
  <2> QED BY <1>3, <2>1 DEF SumsTo
<1>6. 0 + m = m /\ (m + 1) - 1 = m BY <1>2
<1>7. f[m] = g[m] BY <1>4, <1>5, <1>6
<1> QED BY <1>2, <1>3, <1>4, <1>5, <1>6, <1>7

LEMMA SumIsNat == ASSUME NEW q \in Seq(Nat) PROVE SumOf(q) \in Nat
<1>1. PICK f : SumsTo(f, q) /\ SumOf(q) = f[Len(q)] BY Sums
<1>2. Len(q) \in Nat BY LenProperties
<1> QED BY <1>1, <1>2 DEF SumsTo

LEMMA SumOfNothing == SumOf(<<>>) = 0
<1>1. <<>> \in Seq(Nat) /\ Len(<<>>) = 0 BY EmptySeq
<1>2. PICK f : SumsTo(f, <<>>) /\ SumOf(<<>>) = f[0] BY <1>1, Sums
<1> QED BY <1>2 DEF SumsTo
-----------------------------------------------------------------------------
(* The backlog of the console capture *)

\* The bytes of a sequence of items.
LEMMA ItemsWeigh == ASSUME NEW i \in Items PROVE Size[i] \in Nat
BY FlushAssumption

Weights(s) == [n \in DOMAIN s |-> Size[s[n]]]
LEMMA Weighed ==
  ASSUME NEW s \in Seq(Items)
  PROVE  /\ Weights(s) \in Seq(Nat) /\ Len(Weights(s)) = Len(s) /\ TotalSize(s) = SumOf(Weights(s))
         /\ \A n \in 1 .. Len(s) : Weights(s)[n] = Size[s[n]]
<1>1. PICK N \in Nat : N = Len(s) /\ DOMAIN s = 1 .. N BY LenProperties
<1>2. PICK w : w = Weights(s) OBVIOUS
<1>3. w = [n \in 1 .. N |-> Size[s[n]]] BY <1>1, <1>2 DEF Weights
<1>4. \A n \in 1 .. N : w[n] \in Nat
  <2>1. \A n \in 1 .. N : s[n] \in Items BY <1>1, ElementOfSeq
  <2> QED BY <1>3, <2>1, ItemsWeigh
<1>5. w \in [1 .. N -> Nat] BY <1>3, <1>4
<1>6. w \in Seq(Nat) /\ Len(w) = N BY <1>5, FunctionAsSeq
<1>8. TotalSize(s) = SumOf(w) BY <1>2 DEF TotalSize, Weights
<1> QED BY <1>1, <1>2, <1>3, <1>6, <1>8

\* The members of a kind are as many at most.
LEMMA OfKind ==
  ASSUME NEW s \in Seq(Items), NEW kind
  PROVE  /\ Of(kind, s) \in Seq(Items) /\ Range(Of(kind, s)) = Range(s) \cap kind
         /\ Len(Of(kind, s)) <= Len(s) /\ Len(Of(kind, s)) \in Nat
<1> DEFINE N == Len(s)
           next(n, q) == IF s[n] \in kind THEN Append(q, s[n]) ELSE q
           R == {p \in (1 .. N) \X Seq(Items) \X Seq(Items) : p[3] = next(p[1], p[2])}
           rec(f) == [n \in 0 .. N |-> IF n = 0 THEN <<>>
                                       ELSE IF s[n] \in kind THEN Append(f[n - 1], s[n]) ELSE f[n - 1]]
           those == CHOOSE f : f = rec(f)
<1>1. N \in Nat /\ DOMAIN s = 1 .. N /\ \A n \in 1 .. N : s[n] \in Items BY LenProperties, ElementOfSeq
<1>2. \A n \in 1 .. N, q \in Seq(Items) : next(n, q) \in Seq(Items)
  <2>1. \A n \in 1 .. N, q \in Seq(Items) : Append(q, s[n]) \in Seq(Items) BY <1>1, AppendProperties
  <2> QED BY <2>1
<1>3. those = rec(those)
  <2>1. \A n \in 1 .. N, q, r \in Seq(Items) : <<n, q, r>> \in R <=> r = next(n, q) OBVIOUS
  <2> HIDE DEF R, next
  <2>2. <<>> \in Seq(Items) BY EmptySeq
  <2>3. PICK f \in [0 .. N -> Seq(Items)] : f[0] = <<>> /\ \A n \in 1 .. N : <<n, f[n - 1], f[n]>> \in R
    <3>1. PICK M, T : M = N /\ T = Seq(Items) OBVIOUS
    <3>2. M \in Nat /\ <<>> \in T BY <1>1, <2>2, <3>1
    <3>3. GoesOn(R, T, M) BY <1>2, <2>1, <3>1 DEF GoesOn
    <3>4. CarriedOn(R, T, <<>>, M) BY <3>2, <3>3, Iterates
    <3> QED BY <3>1, <3>4 DEF CarriedOn
  <2>4. \A n \in 1 .. N : f[n] = IF s[n] \in kind THEN Append(f[n - 1], s[n]) ELSE f[n - 1]
    <3>1. \A n \in 1 .. N : n - 1 \in 0 .. N /\ n \in 0 .. N BY <1>1
    <3>2. \A n \in 1 .. N : f[n - 1] \in Seq(Items) /\ f[n] \in Seq(Items) BY <2>3, <3>1
    <3>3. \A n \in 1 .. N : f[n] = next(n, f[n - 1])
      <4> HIDE DEF N
      <4> QED BY <2>1, <2>3, <3>2
    <3> QED BY <3>3 DEF next
  <2>5. f = rec(f)
    <3>1. \A n \in 0 .. N : f[n] = rec(f)[n]
      <4> SUFFICES ASSUME NEW n \in 0 .. N PROVE f[n] = rec(f)[n] OBVIOUS
      <4>1. CASE n = 0 BY <2>3, <4>1
      <4>2. CASE n # 0
        <5>1. n \in 1 .. N BY <1>1, <4>2
        <5> QED BY <2>4, <4>2, <5>1
      <4> QED BY <4>1, <4>2
    <3> QED BY <2>3, <3>1
  <2> HIDE DEF rec
  <2> QED BY <2>5
<1>4. Of(kind, s) = those[N] BY DEF Of
<1> HIDE DEF those
<1>5. /\ those[0] = <<>>
      /\ \A n \in 1 .. N : those[n] = IF s[n] \in kind THEN Append(those[n - 1], s[n]) ELSE those[n - 1]
  <2>1. \A n \in 1 .. N : n \in 0 .. N /\ n # 0 OBVIOUS
  <2>2. 0 \in 0 .. N BY <1>1
  <2> QED BY <1>3, <2>1, <2>2
<1> DEFINE First(n) == {s[i] : i \in 1 .. n}
           Good(n) == /\ those[n] \in Seq(Items) /\ Range(those[n]) = First(n) \cap kind
                      /\ Len(those[n]) \in Nat /\ Len(those[n]) <= n
           P == {n \in 0 .. N : Good(n)}
<1>6. 0 \in P
  <2>1. Range(<<>>) = {} /\ Len(<<>>) = 0 BY EmptySeq DEF Range
  <2>2. First(0) = {} OBVIOUS
  <2>3. those[0] \in Seq(Items) BY <1>5, EmptySeq
  <2>4. Good(0) BY <1>5, <2>1, <2>2, <2>3
  <2> HIDE DEF Good
  <2> QED BY <1>1, <2>4
<1>7. ASSUME NEW n \in 1 .. N, n - 1 \in P PROVE n \in P
  <2>1. PICK old, new : old = those[n - 1] /\ new = those[n] OBVIOUS
  <2>2. Good(n - 1) BY <1>7
  <2>3. /\ old \in Seq(Items) /\ Range(old) = First(n - 1) \cap kind
        /\ Len(old) \in Nat /\ Len(old) <= n - 1
    BY <2>1, <2>2
  <2>4. First(n) = First(n - 1) \cup {s[n]}
    <3>1. \A i \in 1 .. n : i \in 1 .. (n - 1) \/ i = n OBVIOUS
    <3>2. n \in 1 .. n /\ \A i \in 1 .. (n - 1) : i \in 1 .. n OBVIOUS
    <3> QED BY <3>1, <3>2
  <2>5. new \in Seq(Items) /\ Range(new) = First(n) \cap kind /\ Len(new) \in Nat /\ Len(new) <= n
    <3>1. CASE s[n] \notin kind
      <4>1. new = old BY <1>5, <2>1, <3>1
      <4>2. Len(old) <= n BY <2>3
      <4> QED BY <2>3, <2>4, <3>1, <4>1, <4>2
    <3>2. CASE s[n] \in kind
      <4>1. new = Append(old, s[n]) BY <1>5, <2>1, <3>2
      <4>2. s[n] \in Items BY <1>1
      <4>3. new \in Seq(Items) /\ Len(new) = Len(old) + 1 /\ Range(new) = Range(old) \cup {s[n]}
        BY <2>3, <4>1, <4>2, OneMore
      <4>4. Len(new) \in Nat /\ Len(new) <= n BY <2>3, <4>3
      <4> QED BY <2>3, <2>4, <3>2, <4>3, <4>4
    <3> QED BY <3>1, <3>2
  <2>6. Good(n) BY <2>1, <2>5
  <2> HIDE DEF Good
  <2> QED BY <2>6
<1>8. N \in P
  <2> HIDE DEF P, N
  <2>1. 0 .. N \subseteq P BY <1>1, <1>6, <1>7, StepByStep
  <2> QED BY <1>1, <2>1
<1>9. First(N) = Range(s) BY <1>1 DEF Range
<1> QED BY <1>4, <1>8, <1>9

(* The inductive invariant *)

Writing == writer.pc \in {"frames", "commands"}

\* No item is queued twice, and what is queued or in flight was accepted.
Apart ==
  /\ \A m, n \in DOMAIN queue : queue[m] = queue[n] => m = n
  /\ Range(queue) \cup Range(inFlight) \subseteq submitted \ dropped
  /\ Range(queue) \cap Range(inFlight) = {}
  /\ dropped \subseteq submitted

\* An item in flight has a row only where a commit was cut off.
Unkept ==
  /\ \A i \in Range(inFlight) : kept[i] > 0 => i \in doubtful
  /\ \A i \in Items : kept[i] > 0 => i \in submitted \ dropped /\ i \notin Range(queue)
  /\ \A i \in Items : kept[i] > 1 => i \in doubtful

\* The batch is in flight until its part is committed.
Batched ==
  /\ WriterAt("frames") => inFlight = writer.batch
  /\ WriterAt("commands") =>
       /\ Range(inFlight) \cap Commands = Range(writer.batch) \cap Commands
       /\ \A i \in Range(inFlight) : i \in Commands \/ i \in failed

Traced ==
  \A i \in submitted : kept[i] > 0 \/ i \in Range(queue) \cup Range(inFlight) \cup dropped \cup failed

Bounded ==
  /\ bytes = TotalSize(queue) /\ bytes <= MaxBytes /\ Len(queue) <= QueueSize
  /\ Len(inFlight) <= BatchSize
  /\ WriterAt("off") => inFlight = <<>>

FlushTyped ==
  /\ queue \in Seq(Items) /\ inFlight \in Seq(Items)
  /\ writer \in [pc : {"off", "sleep", "collect", "frames", "commands"}, batch : Seq(Items), by : {"loop", "stop"}]
  /\ kept \in [Items -> Nat] /\ submitted \subseteq Items

FlushInv == FlushTyped /\ Apart /\ Unkept /\ Batched /\ Traced /\ Bounded

LEMMA HaltedIs ==
  /\ Halted \in [pc : {"off", "sleep", "collect", "frames", "commands"}, batch : Seq(Items), by : {"loop", "stop"}]
  /\ Halted.pc = "off" /\ Halted.batch = <<>> /\ Halted.by = "loop"
<1>1. <<>> \in Seq(Items) BY EmptySeq
<1> QED BY <1>1 DEF Halted

LEMMA FlushStarts == FlushInit => FlushInv
<1> SUFFICES ASSUME FlushInit PROVE FlushInv OBVIOUS
<1>1. <<>> \in Seq(Items) /\ DOMAIN <<>> = {} /\ Range(<<>>) = {} /\ Len(<<>>) = 0 BY EmptySeq DEF Range
<1>2. /\ queue = <<>> /\ bytes = 0 /\ inFlight = <<>> /\ writer = Halted
      /\ kept = [i \in Items |-> 0] /\ submitted = {} /\ dropped = {}
  BY DEF FlushInit
<1>3. FlushTyped BY <1>1, <1>2, HaltedIs DEF FlushTyped
<1>4. Apart BY <1>1, <1>2 DEF Apart
<1>5. Unkept BY <1>1, <1>2 DEF Unkept
<1>6. Batched BY <1>2, HaltedIs DEF Batched, WriterAt
<1>7. Traced BY <1>2 DEF Traced
<1>8. Bounded
  <2>1. TotalSize(<<>>) = 0
    <3>1. Weights(<<>>) = <<>>
      <4>1. Weights(<<>>) \in Seq(Nat) /\ Len(Weights(<<>>)) = 0 BY <1>1, Weighed
      <4> QED BY <4>1, EmptySeq
    <3>2. TotalSize(<<>>) = SumOf(Weights(<<>>)) BY <1>1, Weighed
    <3> QED BY <3>1, <3>2, SumOfNothing
  <2>2. MaxBytes \in Nat /\ QueueSize \in Nat /\ BatchSize \in Nat BY FlushAssumption
  <2> QED BY <1>1, <1>2, <2>1, <2>2 DEF Bounded
<1> QED BY <1>3, <1>4, <1>5, <1>6, <1>7, <1>8 DEF FlushInv

\* A socket submits, and the newest is dropped when the backlog is full.
LEMMA SubmitPart == ASSUME FlushInv, NEW i \in Items, Submit(i) PROVE FlushInv'
<1>1. /\ FlushTyped /\ Apart /\ Unkept /\ Batched /\ Traced /\ Bounded
      /\ i \notin submitted /\ submitted' = submitted \cup {i}
      /\ UNCHANGED <<inFlight, writer, kept, failed, doubtful>>
  BY DEF FlushInv, Submit
<1>2. /\ kept[i] = 0 /\ i \notin Range(queue) /\ i \notin Range(inFlight)
  BY <1>1 DEF FlushTyped, Apart, Unkept
<1>3. CASE dropped' = dropped \cup {i} /\ UNCHANGED <<queue, bytes>>
  <2>1. FlushTyped' BY <1>1, <1>3 DEF FlushTyped
  <2>2. Apart' BY <1>1, <1>2, <1>3 DEF Apart
  <2>3. Unkept' BY <1>1, <1>2, <1>3 DEF Unkept, FlushTyped
  <2>4. Batched' BY <1>1 DEF Batched, WriterAt
  <2>5. Traced' BY <1>1, <1>3 DEF Traced
  <2>6. Bounded' BY <1>1, <1>3 DEF Bounded, WriterAt
  <2> QED BY <2>1, <2>2, <2>3, <2>4, <2>5, <2>6 DEF FlushInv
<1>4. CASE /\ ~(bytes + Size[i] > MaxBytes) /\ Len(queue) # QueueSize
           /\ queue' = Append(queue, i) /\ bytes' = bytes + Size[i] /\ UNCHANGED dropped
  <2>1. PICK q, n : q = queue' /\ n = Len(queue) OBVIOUS
  <2>2. /\ q \in Seq(Items) /\ n \in Nat /\ DOMAIN queue = 1 .. n /\ Len(q) = n + 1 /\ DOMAIN q = 1 .. (n + 1)
        /\ \A k \in 1 .. n : q[k] = queue[k]
        /\ q[n + 1] = i /\ Range(q) = Range(queue) \cup {i}
    <3>1. queue \in Seq(Items) BY <1>1 DEF FlushTyped
    <3> QED BY <1>4, <2>1, <3>1, OneMore
  <2>3. FlushTyped' BY <1>1, <2>1, <2>2 DEF FlushTyped
  <2>4. Apart'
    <3>1. \A k \in 1 .. n : queue[k] # i BY <1>2, <2>2 DEF Range
    <3>2. \A k, m \in DOMAIN q : q[k] = q[m] => k = m
      <4> SUFFICES ASSUME NEW k \in DOMAIN q, NEW m \in DOMAIN q, q[k] = q[m] PROVE k = m OBVIOUS
      <4>1. k \in 1 .. n \/ k = n + 1 BY <2>2
      <4>2. m \in 1 .. n \/ m = n + 1 BY <2>2
      <4> QED BY <1>1, <2>2, <3>1, <4>1, <4>2 DEF Apart
    <3> QED BY <1>1, <1>2, <1>4, <2>1, <2>2, <3>2 DEF Apart
  <2>5. Unkept'
    <3>1. \A j \in Items : kept[j] > 0 => j # i BY <1>1, <1>2 DEF FlushTyped
    <3> QED BY <1>1, <1>4, <2>1, <2>2, <3>1 DEF Unkept
  <2>6. Batched' BY <1>1 DEF Batched, WriterAt
  <2>7. Traced' BY <1>1, <1>4, <2>1, <2>2 DEF Traced
  <2>8. Bounded'
    <3>1. TotalSize(q) = TotalSize(queue) + Size[i]
      <4>1. queue \in Seq(Items) BY <1>1 DEF FlushTyped
      <4>2. PICK w, v : w = Weights(queue) /\ v = Weights(q) OBVIOUS
      <4>3. /\ w \in Seq(Nat) /\ Len(w) = n /\ TotalSize(queue) = SumOf(w)
            /\ \A k \in 1 .. n : w[k] = Size[queue[k]]
        BY <2>1, <4>1, <4>2, Weighed
      <4>4. /\ v \in Seq(Nat) /\ Len(v) = n + 1 /\ TotalSize(q) = SumOf(v)
            /\ \A k \in 1 .. (n + 1) : v[k] = Size[q[k]]
        BY <2>2, <4>2, Weighed
      <4>5. \A k \in 1 .. n : v[k] = w[k]
        <5>1. \A k \in 1 .. n : k \in 1 .. (n + 1) BY <2>2
        <5> QED BY <2>2, <4>3, <4>4, <5>1
      <4>6. n + 1 \in 1 .. (n + 1) BY <2>2
      <4>7. v[n + 1] = Size[i] BY <2>2, <4>4, <4>6
      <4>8. SumOf(v) = SumOf(w) + v[Len(v)] BY <4>3, <4>4, <4>5, SumAppend
      <4> QED BY <4>3, <4>4, <4>7, <4>8
    <3>2. bytes' = TotalSize(queue') BY <1>1, <1>4, <2>1, <3>1 DEF Bounded
    <3>3. bytes' <= MaxBytes
      <4>1. bytes \in Nat
        <5>1. queue \in Seq(Items) BY <1>1 DEF FlushTyped
        <5>2. PICK w : w = Weights(queue) OBVIOUS
        <5>3. w \in Seq(Nat) /\ TotalSize(queue) = SumOf(w) BY <5>1, <5>2, Weighed
        <5> QED BY <1>1, <5>3, SumIsNat DEF Bounded
      <4>2. Size[i] \in Nat /\ MaxBytes \in Nat BY ItemsWeigh, FlushAssumption
      <4> QED BY <1>4, <4>1, <4>2
    <3>4. Len(queue') <= QueueSize
      <4>1. n <= QueueSize /\ n # QueueSize /\ QueueSize \in Nat BY <1>1, <1>4, <2>1, FlushAssumption DEF Bounded
      <4> QED BY <2>1, <2>2, <4>1
    <3> QED BY <1>1, <3>2, <3>3, <3>4 DEF Bounded, WriterAt
  <2> QED BY <2>3, <2>4, <2>5, <2>6, <2>7, <2>8 DEF FlushInv
<1> QED BY <1>3, <1>4 DEF Submit

WriterStates == [pc : {"off", "sleep", "collect", "frames", "commands"}, batch : Seq(Items), by : {"loop", "stop"}]

\* The writer moves without a batch.
LEMMA WriterMoves ==
  ASSUME FlushInv, UNCHANGED <<queue, bytes, inFlight, kept, submitted, dropped, failed, doubtful>>,
         writer' \in WriterStates, writer'.pc \in {"sleep", "collect"}
  PROVE  FlushInv'
<1>1. FlushTyped /\ Apart /\ Unkept /\ Batched /\ Traced /\ Bounded BY DEF FlushInv
<1>2. FlushTyped' BY <1>1 DEF FlushTyped, WriterStates
<1>3. Apart' BY <1>1 DEF Apart
<1>4. Unkept' BY <1>1 DEF Unkept
<1>5. Batched' BY DEF Batched, WriterAt
<1>6. Traced' BY <1>1 DEF Traced
<1>7. Bounded' BY <1>1 DEF Bounded, WriterAt
<1> QED BY <1>2, <1>3, <1>4, <1>5, <1>6, <1>7 DEF FlushInv

LEMMA StartsPart == ASSUME FlushInv, StartFlusher PROVE FlushInv'
<1>1. writer' = [Halted EXCEPT !.pc = "sleep"] BY DEF StartFlusher
<1>2. writer' \in WriterStates /\ writer'.pc = "sleep" BY <1>1, HaltedIs DEF WriterStates
<1> QED BY <1>2, WriterMoves DEF StartFlusher

LEMMA WakePart == ASSUME FlushInv, Wake PROVE FlushInv'
<1>1. writer' = [writer EXCEPT !.pc = "collect"] /\ writer \in WriterStates
  BY DEF Wake, WriterTo, FlushInv, FlushTyped, WriterStates
<1>2. writer' \in WriterStates /\ writer'.pc = "collect" BY <1>1 DEF WriterStates
<1> QED BY <1>2, WriterMoves DEF Wake

\* The batch is what was interrupted, filled from the head of the queue.
LEMMA CollectPart == ASSUME FlushInv, Collect PROVE FlushInv'
<1>1. FlushTyped /\ Apart /\ Unkept /\ Batched /\ Traced /\ Bounded BY DEF FlushInv
<1>2. PICK s, n, b, a : s = queue /\ n = Len(queue) /\ b = inFlight /\ a = Len(inFlight) OBVIOUS
<1>3. /\ s \in Seq(Items) /\ n \in Nat /\ DOMAIN s = 1 .. n
      /\ b \in Seq(Items) /\ a \in Nat /\ a <= BatchSize /\ BatchSize \in Nat /\ n <= QueueSize /\ QueueSize \in Nat
  BY <1>1, <1>2, LenProperties, FlushAssumption DEF FlushTyped, Bounded
<1>4. PICK m : m = Least(Room, n) OBVIOUS
<1>5. m \in 0 .. n /\ a + m <= BatchSize BY <1>2, <1>3, <1>4 DEF Least, Room
<1>6. PICK p, q : p = SubSeq(s, 1, m) /\ q = SubSeq(s, m + 1, n) OBVIOUS
<1>7. /\ p \in Seq(Items) /\ Len(p) = m /\ DOMAIN p = 1 .. m /\ (\A i \in 1 .. m : p[i] = s[i])
      /\ q \in Seq(Items) /\ Len(q) = n - m /\ DOMAIN q = 1 .. (n - m) /\ (\A i \in 1 .. (n - m) : q[i] = s[m + i])
      /\ Range(s) = Range(p) \cup Range(q)
  <2>1. s \in Seq(Items) /\ n = Len(s) /\ m \in 0 .. Len(s) BY <1>2, <1>3, <1>5
  <2> QED BY <1>6, <2>1, InTwo
<1>8. PICK c : c = b \o p OBVIOUS
<1>9. c \in Seq(Items) /\ Range(c) = Range(b) \cup Range(p) /\ Len(c) = a + m
  <2>1. Len(c) = a + m BY <1>2, <1>3, <1>7, <1>8, ConcatProperties
  <2>2. c \in Seq(Items) /\ Range(c) = Range(b) \cup Range(p) BY <1>3, <1>7, <1>8, Joined
  <2> QED BY <2>1, <2>2
<1>10. Fetched = p BY <1>2, <1>4, <1>6 DEF Fetched
<1>11. /\ WriterAt("collect") /\ queue' = q /\ bytes' = bytes - TotalSize(p) /\ inFlight' = c
       /\ writer' = IF c # <<>> THEN [writer EXCEPT !.pc = "frames", !.batch = c]
                    ELSE [writer EXCEPT !.pc = IF writer.by = "stop" THEN "off" ELSE "sleep", !.batch = <<>>]
       /\ UNCHANGED <<kept, submitted, dropped, failed, doubtful>>
  BY <1>2, <1>6, <1>7, <1>8, <1>10 DEF Collect
<1>12. /\ writer' \in WriterStates
       /\ IF c # <<>> THEN writer'.pc = "frames" /\ writer'.batch = c ELSE writer'.pc \in {"off", "sleep"}
  <2>1. writer \in WriterStates BY <1>1 DEF FlushTyped, WriterStates
  <2>2. <<>> \in Seq(Items) BY EmptySeq
  <2>3. CASE c # <<>> BY <1>9, <1>11, <2>1, <2>3 DEF WriterStates
  <2>4. CASE c = <<>> BY <1>11, <2>1, <2>2, <2>4 DEF WriterStates
  <2> QED BY <2>3, <2>4
<1>13. Range(p) \cap Range(q) = {}
  <2> SUFFICES ASSUME NEW i \in 1 .. m, NEW j \in 1 .. (n - m), p[i] = q[j] PROVE FALSE BY <1>7 DEF Range
  <2>1. i \in 1 .. n /\ m + j \in 1 .. n /\ i # m + j BY <1>3, <1>5
  <2>2. s[i] = s[m + j] BY <1>7
  <2> QED BY <1>1, <1>2, <1>3, <2>1, <2>2 DEF Apart
<1>14. FlushTyped' BY <1>1, <1>7, <1>9, <1>11, <1>12 DEF FlushTyped, WriterStates
<1>15. Apart'
  <2>1. \A i, j \in DOMAIN q : q[i] = q[j] => i = j
    <3> SUFFICES ASSUME NEW i \in 1 .. (n - m), NEW j \in 1 .. (n - m), q[i] = q[j] PROVE i = j BY <1>7
    <3>1. m + i \in 1 .. n /\ m + j \in 1 .. n BY <1>3, <1>5
    <3>2. s[m + i] = s[m + j] BY <1>7
    <3>3. m + i = m + j BY <1>1, <1>2, <1>3, <3>1, <3>2 DEF Apart
    <3> QED BY <1>3, <1>5, <3>3
  <2>2. Range(q) \cup Range(c) \subseteq submitted \ dropped BY <1>1, <1>2, <1>7, <1>9 DEF Apart
  <2>3. Range(q) \cap Range(c) = {} BY <1>1, <1>2, <1>7, <1>9, <1>13 DEF Apart
  <2> QED BY <1>1, <1>11, <2>1, <2>2, <2>3 DEF Apart
<1>16. Unkept'
  <2>1. \A i \in Range(c) : kept[i] > 0 => i \in doubtful
    <3>1. \A i \in Range(p) : i \in Items /\ ~(kept[i] > 0)
      <4>1. \A i \in Range(p) : i \in Range(queue) BY <1>2, <1>7
      <4>2. \A i \in Range(p) : i \in Items BY <1>1, <4>1 DEF Apart, FlushTyped
      <4> QED BY <1>1, <4>1, <4>2 DEF Unkept
    <3> QED BY <1>1, <1>2, <1>9, <3>1 DEF Unkept
  <2>2. Range(q) \subseteq Range(queue) BY <1>2, <1>7
  <2> QED BY <1>1, <1>11, <2>1, <2>2 DEF Unkept
<1>17. Batched' BY <1>11, <1>12 DEF Batched, WriterAt
<1>18. Traced' BY <1>1, <1>2, <1>7, <1>9, <1>11 DEF Traced
<1>19. Bounded'
  <2>1. TotalSize(s) = TotalSize(p) + TotalSize(q) /\ TotalSize(p) \in Nat /\ TotalSize(q) \in Nat
    <3>1. PICK u, v, w : u = Weights(s) /\ v = Weights(p) /\ w = Weights(q) OBVIOUS
    <3>2. /\ u \in Seq(Nat) /\ Len(u) = n /\ TotalSize(s) = SumOf(u) /\ \A k \in 1 .. n : u[k] = Size[s[k]]
      BY <1>2, <1>3, <3>1, Weighed
    <3>3. /\ v \in Seq(Nat) /\ Len(v) = m /\ TotalSize(p) = SumOf(v) /\ \A k \in 1 .. m : v[k] = Size[p[k]]
      BY <1>7, <3>1, Weighed
    <3>4. /\ w \in Seq(Nat) /\ Len(w) = n - m /\ TotalSize(q) = SumOf(w)
          /\ \A k \in 1 .. (n - m) : w[k] = Size[q[k]]
      BY <1>7, <3>1, Weighed
    <3>5. \A k \in 1 .. m : u[k] = v[k]
      <4>1. \A k \in 1 .. m : k \in 1 .. n BY <1>3, <1>5
      <4> QED BY <1>7, <3>2, <3>3, <4>1
    <3>6. \A k \in 1 .. (n - m) : u[m + k] = w[k]
      <4> SUFFICES ASSUME NEW k \in 1 .. (n - m) PROVE u[m + k] = w[k] OBVIOUS
      <4>1. PICK x : x = m + k OBVIOUS
      <4>2. x \in 1 .. n BY <1>3, <1>5, <4>1
      <4>3. q[k] = s[x] /\ w[k] = Size[q[k]] BY <1>7, <3>4, <4>1
      <4>4. u[x] = Size[s[x]] BY <3>2, <4>2
      <4> QED BY <4>1, <4>3, <4>4
    <3>7. Len(u) = Len(v) + Len(w) BY <1>3, <1>5, <3>2, <3>3, <3>4
    <3>8. \A k \in 1 .. Len(v) : u[k] = v[k] BY <3>3, <3>5
    <3>9. \A k \in 1 .. Len(w) : u[Len(v) + k] = w[k] BY <3>3, <3>4, <3>6
    <3>10. SumOf(u) = SumOf(v) + SumOf(w) /\ SumOf(v) \in Nat /\ SumOf(w) \in Nat
      BY <3>2, <3>3, <3>4, <3>7, <3>8, <3>9, SumCut
    <3> QED BY <3>2, <3>3, <3>4, <3>10
  <2>2. bytes' = TotalSize(q) /\ bytes' <= MaxBytes
    <3>1. bytes = TotalSize(p) + TotalSize(q) /\ bytes <= MaxBytes /\ MaxBytes \in Nat
      BY <1>1, <1>2, <2>1, FlushAssumption DEF Bounded
    <3> QED BY <1>11, <2>1, <3>1
  <2>3. Len(queue') <= QueueSize BY <1>3, <1>5, <1>7, <1>11
  <2>4. Len(inFlight') <= BatchSize BY <1>5, <1>9, <1>11
  <2>5. WriterAt("off")' => inFlight' = <<>> BY <1>11, <1>12 DEF WriterAt
  <2> QED BY <1>11, <2>2, <2>3, <2>4, <2>5 DEF Bounded
<1> QED BY <1>14, <1>15, <1>16, <1>17, <1>18, <1>19 DEF FlushInv

\* A commit of what is in flight leaves one row more of each, and two only where the
\* first was cut off.
LEMMA CommitKept ==
  ASSUME FlushInv, NEW kind, kind \cap Range(writer.batch) \subseteq Range(inFlight), kept' = Committed(kind)
  PROVE  /\ kept' \in [Items -> Nat]
         /\ \A i \in Items : kept[i] > 0 => kept'[i] > 0
         /\ \A i \in kind \cap Range(writer.batch) : i \in Items /\ kept'[i] > 0
         /\ \A i \in Items : i \notin kind \cap Range(writer.batch) => kept'[i] = kept[i]
         /\ \A i \in Items : kept'[i] > 0 => i \in submitted \ dropped /\ i \notin Range(queue)
         /\ \A i \in Items : kept'[i] > 1 => i \in doubtful
<1>1. FlushTyped /\ Apart /\ Unkept BY DEF FlushInv
<1>2. PICK done : done = kind \cap Range(writer.batch) OBVIOUS
<1>3. kept' = [i \in Items |-> IF i \in done THEN kept[i] + 1 ELSE kept[i]]
  <2>1. ToSet(writer.batch) = Range(writer.batch) BY DEF ToSet, Range
  <2> QED BY <1>2, <2>1 DEF Committed
<1>4. done \subseteq Range(inFlight) BY <1>2
<1>5. /\ done \subseteq Items
      /\ \A i \in done : i \in submitted \ dropped /\ i \notin Range(queue)
      /\ \A i \in done : kept[i] > 0 => i \in doubtful
  BY <1>1, <1>4 DEF Apart, FlushTyped, Unkept
<1>6. kept \in [Items -> Nat] BY <1>1 DEF FlushTyped
<1>7. ASSUME NEW i \in Items
      PROVE  /\ kept[i] \in Nat /\ kept'[i] \in Nat
             /\ (i \in done /\ kept'[i] = kept[i] + 1) \/ (i \notin done /\ kept'[i] = kept[i])
  BY <1>3, <1>6
<1>8. \A i \in Items : kept'[i] > 1 => i \in doubtful
  <2> SUFFICES ASSUME NEW i \in Items, kept'[i] > 1 PROVE i \in doubtful OBVIOUS
  <2>1. CASE i \in done
    <3>1. kept[i] > 0 BY <1>7, <2>1
    <3> QED BY <1>5, <2>1, <3>1
  <2>2. CASE i \notin done
    <3>1. kept[i] > 1 BY <1>7, <2>2
    <3> QED BY <1>1, <3>1 DEF Unkept
  <2> QED BY <2>1, <2>2
<1>9. \A i \in Items : kept'[i] > 0 => i \in submitted \ dropped /\ i \notin Range(queue)
  <2> SUFFICES ASSUME NEW i \in Items, kept'[i] > 0 PROVE i \in submitted \ dropped /\ i \notin Range(queue) OBVIOUS
  <2>1. CASE i \in done BY <1>5, <2>1
  <2>2. CASE i \notin done
    <3>1. kept[i] > 0 BY <1>7, <2>2
    <3> QED BY <1>1, <3>1 DEF Unkept
  <2> QED BY <2>1, <2>2
<1>10. kept' \in [Items -> Nat] BY <1>3, <1>6
<1>11. \A i \in Items : kept[i] > 0 => kept'[i] > 0 BY <1>7
<1>12. \A i \in done : i \in Items /\ kept'[i] > 0 BY <1>5, <1>7
<1> QED BY <1>2, <1>7, <1>8, <1>9, <1>10, <1>11, <1>12

\* There are none of a kind where there are none in the batch.
LEMMA NoneOf ==
  ASSUME NEW s \in Seq(Items), NEW kind PROVE Of(kind, s) = <<>> <=> kind \cap Range(s) = {}
<1>1. PICK t : t = Of(kind, s) OBVIOUS
<1>2. t \in Seq(Items) /\ Range(t) = Range(s) \cap kind BY <1>1, OfKind
<1>3. DOMAIN t = 1 .. Len(t) /\ Len(t) \in Nat BY <1>2, LenProperties
<1>4. t = <<>> => Range(t) = {} BY EmptySeq DEF Range
<1>5. t # <<>> => Range(t) # {}
  <2> SUFFICES ASSUME t # <<>> PROVE Range(t) # {} OBVIOUS
  <2>1. Len(t) # 0 BY <1>2, EmptySeq
  <2>2. 1 \in DOMAIN t BY <1>3, <2>1
  <2> QED BY <2>2 DEF Range
<1> QED BY <1>1, <1>2, <1>4, <1>5

LEMMA FramesPart == ASSUME FlushInv, WriteFrames PROVE FlushInv'
<1>1. FlushTyped /\ Apart /\ Unkept /\ Batched /\ Traced /\ Bounded BY DEF FlushInv
<1>2. /\ WriterAt("frames") /\ writer' = [writer EXCEPT !.pc = "commands"]
      /\ UNCHANGED <<queue, bytes, submitted, dropped, doubtful>>
  BY DEF WriteFrames, WriterTo
<1>3. PICK b, B : b = writer.batch /\ B = Range(b) OBVIOUS
<1>4. b \in Seq(Items) /\ inFlight = b /\ writer \in WriterStates
  BY <1>1, <1>2, <1>3 DEF FlushTyped, Batched, WriterStates
<1>5. writer' \in WriterStates /\ writer'.pc = "commands" /\ writer'.batch = b
  BY <1>2, <1>3, <1>4 DEF WriterStates
<1>6. B \subseteq Items /\ ToSet(b) = B
  <2>1. B \subseteq Items BY <1>1, <1>3, <1>4 DEF Apart, FlushTyped
  <2> QED BY <1>3, <2>1 DEF ToSet, Range
<1>7. CASE Of(Frames, b) = <<>> /\ UNCHANGED <<kept, inFlight, failed>>
  <2>1. Frames \cap B = {} BY <1>3, <1>4, <1>7, NoneOf
  <2>2. FlushTyped' BY <1>1, <1>2, <1>5, <1>7 DEF FlushTyped, WriterStates
  <2>3. Apart' BY <1>1, <1>2, <1>7 DEF Apart
  <2>4. Unkept' BY <1>1, <1>2, <1>7 DEF Unkept
  <2>5. Batched' BY <1>3, <1>4, <1>5, <1>6, <1>7, <2>1 DEF Batched, WriterAt, Items
  <2>6. Traced' BY <1>1, <1>2, <1>7 DEF Traced
  <2>7. Bounded' BY <1>1, <1>2, <1>5, <1>7 DEF Bounded, WriterAt
  <2> QED BY <2>2, <2>3, <2>4, <2>5, <2>6, <2>7 DEF FlushInv
<1>8. CASE kept' = Committed(Frames) /\ inFlight' = Remaining /\ UNCHANGED failed
  <2>1. PICK r : r = Of(Commands, b) OBVIOUS
  <2>2. /\ r \in Seq(Items) /\ Range(r) = B \cap Commands /\ Len(r) <= Len(b) /\ Len(r) \in Nat /\ inFlight' = r
    BY <1>3, <1>4, <1>8, <2>1, OfKind DEF Remaining
  <2>3. /\ kept' \in [Items -> Nat]
        /\ \A i \in Items : kept[i] > 0 => kept'[i] > 0
        /\ \A i \in Frames \cap B : i \in Items /\ kept'[i] > 0
        /\ \A i \in Items : i \notin Frames \cap B => kept'[i] = kept[i]
        /\ \A i \in Items : kept'[i] > 0 => i \in submitted \ dropped /\ i \notin Range(queue)
        /\ \A i \in Items : kept'[i] > 1 => i \in doubtful
    <3>1. Frames \cap Range(writer.batch) \subseteq Range(inFlight) BY <1>3, <1>4
    <3> QED BY <1>3, <1>8, <3>1, CommitKept
  <2>4. FlushTyped' BY <1>1, <1>2, <1>5, <2>2, <2>3 DEF FlushTyped, WriterStates
  <2>5. Apart' BY <1>1, <1>2, <1>3, <1>4, <2>2 DEF Apart
  <2>6. Unkept'
    <3>1. \A i \in Range(r) : i \in Items /\ i \notin Frames /\ i \in Range(inFlight)
      BY <1>3, <1>4, <1>6, <2>2, FlushAssumption
    <3>2. \A i \in Range(r) : kept'[i] > 0 => i \in doubtful BY <1>1, <2>3, <3>1 DEF Unkept
    <3> QED BY <1>2, <2>2, <2>3, <3>2 DEF Unkept
  <2>7. Batched' BY <1>3, <1>5, <2>2 DEF Batched, WriterAt
  <2>8. Traced'
    <3> SUFFICES ASSUME NEW i \in submitted
                 PROVE  kept'[i] > 0 \/ i \in Range(queue) \cup Range(r) \cup dropped \cup failed
      BY <1>2, <1>8, <2>2 DEF Traced
    <3>1. i \in Items BY <1>1 DEF FlushTyped
    <3>2. CASE i \in B BY <1>6, <2>2, <2>3, <3>2 DEF Items
    <3>3. CASE i \notin B BY <1>1, <1>3, <1>4, <2>3, <3>1, <3>3 DEF Traced
    <3> QED BY <3>2, <3>3
  <2>9. Bounded'
    <3>1. Len(r) <= BatchSize
      <4>1. Len(b) \in Nat /\ Len(b) <= BatchSize /\ BatchSize \in Nat
        BY <1>1, <1>4, LenProperties, FlushAssumption DEF Bounded
      <4> QED BY <2>2, <4>1
    <3> QED BY <1>1, <1>2, <1>5, <2>2, <3>1 DEF Bounded, WriterAt
  <2> QED BY <2>4, <2>5, <2>6, <2>7, <2>8, <2>9 DEF FlushInv
<1>9. CASE failed' = failed \cup (Frames \cap ToSet(b)) /\ UNCHANGED <<kept, inFlight>>
  <2>1. FlushTyped' BY <1>1, <1>2, <1>5, <1>9 DEF FlushTyped, WriterStates
  <2>2. Apart' BY <1>1, <1>2, <1>9 DEF Apart
  <2>3. Unkept' BY <1>1, <1>2, <1>9 DEF Unkept
  <2>4. Batched' BY <1>3, <1>4, <1>5, <1>6, <1>9 DEF Batched, WriterAt, Items
  <2>5. Traced' BY <1>1, <1>2, <1>9 DEF Traced
  <2>6. Bounded' BY <1>1, <1>2, <1>5, <1>9 DEF Bounded, WriterAt
  <2> QED BY <2>1, <2>2, <2>3, <2>4, <2>5, <2>6 DEF FlushInv
<1> QED BY <1>3, <1>7, <1>8, <1>9 DEF WriteFrames

LEMMA CommandsPart == ASSUME FlushInv, WriteCommands PROVE FlushInv'
<1>1. FlushTyped /\ Apart /\ Unkept /\ Batched /\ Traced /\ Bounded BY DEF FlushInv
<1>2. /\ WriterAt("commands") /\ writer' = [writer EXCEPT !.pc = "collect", !.batch = <<>>] /\ inFlight' = <<>>
      /\ UNCHANGED <<queue, bytes, submitted, dropped, doubtful>>
  BY DEF WriteCommands
<1>3. PICK b, B : b = writer.batch /\ B = Range(b) OBVIOUS
<1>4. /\ b \in Seq(Items) /\ writer \in WriterStates
      /\ Range(inFlight) \cap Commands = B \cap Commands
      /\ \A i \in Range(inFlight) : i \in Commands \/ i \in failed
  BY <1>1, <1>2, <1>3 DEF FlushTyped, Batched, WriterStates
<1>5. <<>> \in Seq(Items) /\ Range(<<>>) = {} /\ Len(<<>>) = 0 BY EmptySeq DEF Range
<1>6. writer' \in WriterStates /\ writer'.pc = "collect" BY <1>2, <1>4, <1>5 DEF WriterStates
<1>7. /\ kept' \in [Items -> Nat] /\ failed \subseteq failed'
      /\ \A i \in Items : kept[i] > 0 => kept'[i] > 0
      /\ \A i \in Items : kept'[i] > 0 => i \in submitted \ dropped /\ i \notin Range(queue)
      /\ \A i \in Items : kept'[i] > 1 => i \in doubtful
      /\ \A i \in Commands \cap B : kept'[i] > 0 \/ i \in failed'
  <2>1. CASE Of(Commands, b) = <<>> /\ UNCHANGED <<kept, failed>>
    <3>1. Commands \cap B = {} BY <1>3, <1>4, <2>1, NoneOf
    <3> QED BY <1>1, <2>1, <3>1 DEF FlushTyped, Unkept
  <2>2. CASE kept' = Committed(Commands) /\ UNCHANGED failed
    <3>1. Commands \cap Range(writer.batch) \subseteq Range(inFlight) BY <1>3, <1>4
    <3> QED BY <1>3, <2>2, <3>1, CommitKept
  <2>3. CASE failed' = failed \cup (Commands \cap ToSet(b)) /\ UNCHANGED kept
    <3>1. ToSet(b) = B BY <1>3 DEF ToSet, Range
    <3> QED BY <1>1, <2>3, <3>1 DEF FlushTyped, Unkept
  <2> QED BY <1>3, <2>1, <2>2, <2>3 DEF WriteCommands
<1>8. FlushTyped' BY <1>1, <1>2, <1>5, <1>6, <1>7 DEF FlushTyped, WriterStates
<1>9. Apart' BY <1>1, <1>2, <1>5 DEF Apart
<1>10. Unkept' BY <1>2, <1>5, <1>7 DEF Unkept
<1>11. Batched' BY <1>6 DEF Batched, WriterAt
<1>12. Traced'
  <2> SUFFICES ASSUME NEW i \in submitted
               PROVE  kept'[i] > 0 \/ i \in Range(queue) \cup dropped \cup failed'
    BY <1>2 DEF Traced
  <2>1. i \in Items BY <1>1 DEF FlushTyped
  <2>2. CASE i \in Range(inFlight) BY <1>4, <1>7, <2>2
  <2>3. CASE i \notin Range(inFlight) BY <1>1, <1>7, <2>1, <2>3 DEF Traced
  <2> QED BY <2>2, <2>3
<1>13. Bounded'
  <2>1. BatchSize \in Nat BY FlushAssumption
  <2> QED BY <1>1, <1>2, <1>5, <1>6, <2>1 DEF Bounded, WriterAt
<1> QED BY <1>8, <1>9, <1>10, <1>11, <1>12, <1>13 DEF FlushInv

\* A stop cuts the writer off wherever it waits.
LEMMA StopPart == ASSUME FlushInv, StopFlusher PROVE FlushInv'
<1>1. FlushTyped /\ Apart /\ Unkept /\ Batched /\ Traced /\ Bounded BY DEF FlushInv
<1>2. /\ writer' = [pc |-> "collect", batch |-> <<>>, by |-> "stop"]
      /\ UNCHANGED <<queue, bytes, inFlight, submitted, dropped, failed>>
  BY DEF StopFlusher
<1>3. <<>> \in Seq(Items) BY EmptySeq
<1>4. writer' \in WriterStates /\ writer'.pc = "collect" BY <1>2, <1>3 DEF WriterStates
<1>5. /\ kept' \in [Items -> Nat] /\ doubtful \subseteq doubtful'
      /\ \A i \in Items : kept[i] > 0 => kept'[i] > 0
      /\ \A i \in Items : kept'[i] > 0 => i \in submitted \ dropped /\ i \notin Range(queue)
      /\ \A i \in Items : kept'[i] > 1 => i \in doubtful
      /\ \A i \in Range(inFlight) : kept'[i] > 0 => i \in doubtful'
  <2>1. ASSUME NEW kind, kind \cap Range(writer.batch) \subseteq Range(inFlight), CutOff(kind)
        PROVE  /\ kept' \in [Items -> Nat] /\ doubtful \subseteq doubtful'
               /\ \A i \in Items : kept[i] > 0 => kept'[i] > 0
               /\ \A i \in Items : kept'[i] > 0 => i \in submitted \ dropped /\ i \notin Range(queue)
               /\ \A i \in Items : kept'[i] > 1 => i \in doubtful
               /\ \A i \in Range(inFlight) : kept'[i] > 0 => i \in doubtful'
    <3>1. doubtful' = doubtful \cup (kind \cap Range(writer.batch))
      <4>1. ToSet(writer.batch) = Range(writer.batch) BY DEF ToSet, Range
      <4> QED BY <2>1, <4>1 DEF CutOff
    <3>2. CASE kept' = kept BY <1>1, <3>1, <3>2 DEF FlushTyped, Unkept
    <3>3. CASE kept' = Committed(kind)
      <4>1. /\ kept' \in [Items -> Nat]
            /\ \A i \in Items : kept[i] > 0 => kept'[i] > 0
            /\ \A i \in Items : i \notin kind \cap Range(writer.batch) => kept'[i] = kept[i]
            /\ \A i \in Items : kept'[i] > 0 => i \in submitted \ dropped /\ i \notin Range(queue)
            /\ \A i \in Items : kept'[i] > 1 => i \in doubtful
        BY <2>1, <3>3, CommitKept
      <4>2. \A i \in Range(inFlight) : i \in Items BY <1>1 DEF Apart, FlushTyped
      <4>3. \A i \in Range(inFlight) : kept'[i] > 0 => i \in doubtful' BY <1>1, <3>1, <4>1, <4>2 DEF Unkept
      <4> QED BY <3>1, <4>1, <4>3
    <3> QED BY <2>1, <3>2, <3>3 DEF CutOff
  <2>2. CASE WriterAt("frames") /\ CutOff(Frames) BY <1>1, <2>1, <2>2 DEF Batched
  <2>3. CASE WriterAt("commands") /\ CutOff(Commands)
    <3>1. Commands \cap Range(writer.batch) \subseteq Range(inFlight) BY <1>1, <2>3 DEF Batched
    <3> QED BY <2>1, <2>3, <3>1
  <2>4. CASE UNCHANGED <<kept, doubtful>> BY <1>1, <2>4 DEF FlushTyped, Unkept
  <2> QED BY <2>2, <2>3, <2>4 DEF StopFlusher
<1>6. FlushTyped' BY <1>1, <1>2, <1>4, <1>5 DEF FlushTyped, WriterStates
<1>7. Apart' BY <1>1, <1>2 DEF Apart
<1>8. Unkept' BY <1>2, <1>5 DEF Unkept
<1>9. Batched' BY <1>4 DEF Batched, WriterAt
<1>10. Traced'
  <2>1. \A i \in submitted : i \in Items BY <1>1 DEF FlushTyped
  <2> QED BY <1>1, <1>2, <1>5, <2>1 DEF Traced
<1>11. Bounded' BY <1>1, <1>2, <1>4 DEF Bounded, WriterAt
<1> QED BY <1>6, <1>7, <1>8, <1>9, <1>10, <1>11 DEF FlushInv

\* Every step of the writer and of the sockets keeps the invariant.
LEMMA FlushGoesOn == ASSUME FlushInv, [FlushNext]_flushVars PROVE FlushInv'
<1>1. ASSUME NEW i \in Items, Submit(i) PROVE FlushInv' BY <1>1, SubmitPart
<1>2. CASE UNCHANGED flushVars
  <2>1. UNCHANGED <<queue, bytes, inFlight, writer, kept, submitted, dropped, failed, doubtful>> BY <1>2 DEF flushVars
  <2>2. FlushTyped' BY <2>1 DEF FlushInv, FlushTyped
  <2>3. Apart' BY <2>1 DEF FlushInv, Apart
  <2>4. Unkept' BY <2>1 DEF FlushInv, Unkept
  <2>5. Batched' BY <2>1 DEF FlushInv, Batched, WriterAt
  <2>6. Traced' BY <2>1 DEF FlushInv, Traced
  <2>7. Bounded' BY <2>1 DEF FlushInv, Bounded, WriterAt
  <2> QED BY <2>2, <2>3, <2>4, <2>5, <2>6, <2>7 DEF FlushInv
<1> QED BY <1>1, <1>2, StartsPart, WakePart, CollectPart, FramesPart, CommandsPart, StopPart DEF FlushNext

LEMMA FlushAccounts == FlushInv => BacklogAccounted
<1> SUFFICES ASSUME FlushInv PROVE BacklogAccounted OBVIOUS
<1>1. FlushTyped /\ Unkept /\ Traced /\ Bounded BY DEF FlushInv
<1>2. ToSet(queue) = Range(queue) /\ ToSet(inFlight) = Range(inFlight) BY DEF ToSet, Range
<1>3. FlushTypeOK BY <1>1 DEF FlushTyped, FlushTypeOK
<1> QED BY <1>1, <1>2, <1>3 DEF BacklogAccounted, Unkept, Traced, Bounded
-----------------------------------------------------------------------------
(* What the node reads as a password and what the capture masks *)

Kinds == {"key", "break"}
Bytes == [what : Kinds, secret : BOOLEAN, clear : BOOLEAN]

\* A line that has something on it came to its end within the first n bytes.
Ended(line, n) ==
  \E j, k \in 1 .. n : k < j /\ line[k].what = "key" /\ line[j].what = "break"

\* What was typed at a prompt is still to be masked.
Safe(line, ar, as, em) ==
  /\ \A i \in 1 .. Len(line) : line[i].what = "key" /\ line[i].secret => ar /\ ~Ended(line, i)
  /\ as => ar /\ ~Ended(line, Len(line))
  /\ em => \A k \in 1 .. Len(line) :
             line[k].what = "key" => \E j \in 1 .. Len(line) : k < j /\ line[j].what = "break"

\* The node reads one byte more, and asks for a password then, or has seen no key of the
\* line, only if it may.
Reads(line, b, as, em, next, still, none) ==
  /\ line \in Seq(Bytes) /\ as \in BOOLEAN /\ b \in Kinds
  /\ next = Append(line, [what |-> b, secret |-> as, clear |-> TRUE])
  /\ still => as /\ (b = "break" => em)
  /\ none => b = "break"
LEMMA SafeGrows ==
  ASSUME NEW line, NEW ar, NEW as, NEW em, Safe(line, ar, as, em),
         NEW b, NEW next, NEW still, NEW none, Reads(line, b, as, em, next, still, none)
  PROVE  next \in Seq(Bytes) /\ Safe(next, ar, still, none)
<1>0. /\ line \in Seq(Bytes) /\ as \in BOOLEAN /\ b \in Kinds
      /\ next = Append(line, [what |-> b, secret |-> as, clear |-> TRUE])
      /\ still => as /\ (b = "break" => em)
      /\ none => b = "break"
  BY DEF Reads
<1>1. PICK e, n : e = [what |-> b, secret |-> as, clear |-> TRUE] /\ n = Len(line) OBVIOUS
<1>2. e \in Bytes /\ e.what = b /\ e.secret = as BY <1>0, <1>1 DEF Bytes
<1>3. /\ next \in Seq(Bytes) /\ n \in Nat /\ Len(next) = n + 1
      /\ \A i \in 1 .. n : next[i] = line[i]
      /\ next[n + 1] = e
  BY <1>0, <1>1, <1>2, OneMore
<1>4. /\ \A i \in 1 .. n : line[i].what = "key" /\ line[i].secret => ar /\ ~Ended(line, i)
      /\ as => ar /\ ~Ended(line, n)
      /\ em => \A k \in 1 .. n : line[k].what = "key" => \E j \in 1 .. n : k < j /\ line[j].what = "break"
  BY <1>1 DEF Safe
<1>5. \A i \in 0 .. n : Ended(next, i) => Ended(line, i)
  <2> SUFFICES ASSUME NEW i \in 0 .. n, Ended(next, i) PROVE Ended(line, i) OBVIOUS
  <2>1. PICK j, k \in 1 .. i : k < j /\ next[k].what = "key" /\ next[j].what = "break" BY DEF Ended
  <2>2. j \in 1 .. n /\ k \in 1 .. n BY <1>3
  <2>3. line[k].what = "key" /\ line[j].what = "break" BY <1>3, <2>1, <2>2
  <2> QED BY <2>1, <2>3 DEF Ended
<1>6. ASSUME NEW i \in 1 .. (n + 1), next[i].what = "key" /\ next[i].secret PROVE ar /\ ~Ended(next, i)
  <2>1. CASE i \in 1 .. n
    <3>1. next[i] = line[i] /\ i \in 0 .. n BY <1>3, <2>1
    <3>2. line[i].what = "key" /\ line[i].secret BY <1>6, <3>1
    <3> QED BY <1>4, <1>5, <2>1, <3>1, <3>2
  <2>2. CASE i = n + 1
    <3>1. b = "key" /\ as BY <1>2, <1>3, <1>6, <2>2
    <3>2. ar /\ ~Ended(line, n) BY <1>4, <3>1
    <3>3. ASSUME Ended(next, n + 1) PROVE FALSE
      <4>1. PICK j, k \in 1 .. (n + 1) : k < j /\ next[k].what = "key" /\ next[j].what = "break"
        BY <3>3 DEF Ended
      <4>2. j # n + 1 BY <1>2, <1>3, <3>1, <4>1
      <4>3. j \in 1 .. n /\ k \in 1 .. n BY <1>3, <4>1, <4>2
      <4>4. Ended(next, n) BY <4>1, <4>3 DEF Ended
      <4>5. n \in 0 .. n BY <1>3
      <4> QED BY <1>5, <3>2, <4>4, <4>5
    <3> QED BY <2>2, <3>2, <3>3
  <2> QED BY <1>3, <2>1, <2>2
<1>7. ASSUME as /\ (b = "break" => em) PROVE ar /\ ~Ended(next, n + 1)
  <2>1. ar /\ ~Ended(line, n) BY <1>4, <1>7
  <2>2. ASSUME Ended(next, n + 1) PROVE FALSE
    <3>1. PICK j, k \in 1 .. (n + 1) : k < j /\ next[k].what = "key" /\ next[j].what = "break"
      BY <2>2 DEF Ended
    <3>2. k \in 1 .. n BY <1>3, <3>1
    <3>3. line[k].what = "key" BY <1>3, <3>1, <3>2
    <3>4. CASE j = n + 1
      <4>1. b = "break" BY <1>2, <1>3, <3>1, <3>4
      <4>2. PICK m \in 1 .. n : k < m /\ line[m].what = "break" BY <1>4, <1>7, <3>2, <3>3, <4>1
      <4> QED BY <2>1, <3>2, <3>3, <4>2 DEF Ended
    <3>5. CASE j # n + 1
      <4>1. j \in 1 .. n BY <1>3, <3>5
      <4>2. line[j].what = "break" BY <1>3, <3>1, <4>1
      <4> QED BY <2>1, <3>1, <3>2, <3>3, <4>1, <4>2 DEF Ended
    <3> QED BY <3>4, <3>5
  <2> QED BY <2>1, <2>2
<1>8. ASSUME b = "break", NEW k \in 1 .. (n + 1), next[k].what = "key"
      PROVE  \E j \in 1 .. (n + 1) : k < j /\ next[j].what = "break"
  <2>1. next[n + 1].what = "break" /\ k # n + 1 BY <1>2, <1>3, <1>8
  <2>2. n + 1 \in 1 .. (n + 1) /\ k < n + 1 BY <1>3, <2>1
  <2> QED BY <2>1, <2>2
<1>9. PICK N : N = n + 1 OBVIOUS
<1>10. Len(next) = N BY <1>3, <1>9
<1>11. \A i \in 1 .. N : next[i].what = "key" /\ next[i].secret => ar /\ ~Ended(next, i) BY <1>6, <1>9
<1>12. still => ar /\ ~Ended(next, N) BY <1>0, <1>7, <1>9
<1>13. none => \A k \in 1 .. N : next[k].what = "key" => \E j \in 1 .. N : k < j /\ next[j].what = "break"
  BY <1>0, <1>8, <1>9
<1>14. Safe(next, ar, still, none) BY <1>10, <1>11, <1>12, <1>13 DEF Safe
<1> QED BY <1>3, <1>14

\* The line is cut, and what is left of it goes on as the masking ended.
CutBehind(line, m, rest) ==
  line \in Seq(Bytes) /\ m \in 0 .. Len(line) /\ rest = SubSeq(line, m + 1, Len(line))
MaskedOn(line, m, ar, then) == ar /\ ~Ended(line, m) => then
LEMMA SafeCut ==
  ASSUME NEW line, NEW ar, NEW as, NEW em, Safe(line, ar, as, em),
         NEW m, NEW rest, CutBehind(line, m, rest), NEW then, MaskedOn(line, m, ar, then)
  PROVE  Safe(rest, then, as, em)
<1>0. /\ line \in Seq(Bytes) /\ m \in 0 .. Len(line) /\ rest = SubSeq(line, m + 1, Len(line))
      /\ ar /\ ~Ended(line, m) => then
  BY DEF CutBehind, MaskedOn
<1>1. PICK n : n = Len(line) OBVIOUS
<1>2. /\ n \in Nat /\ m \in 0 .. n /\ rest \in Seq(Bytes) /\ Len(rest) = n - m
      /\ \A i \in 1 .. (n - m) : rest[i] = line[m + i]
  BY <1>0, <1>1, LenProperties, InTwo
<1>3. /\ \A i \in 1 .. n : line[i].what = "key" /\ line[i].secret => ar /\ ~Ended(line, i)
      /\ as => ar /\ ~Ended(line, n)
      /\ em => \A k \in 1 .. n : line[k].what = "key" => \E j \in 1 .. n : k < j /\ line[j].what = "break"
  BY <1>1 DEF Safe
<1>4. \A i \in 0 .. (n - m) : Ended(rest, i) => Ended(line, m + i)
  <2> SUFFICES ASSUME NEW i \in 0 .. (n - m), Ended(rest, i) PROVE Ended(line, m + i) OBVIOUS
  <2>1. PICK j, k \in 1 .. i : k < j /\ rest[k].what = "key" /\ rest[j].what = "break" BY DEF Ended
  <2>2. j \in 1 .. (n - m) /\ k \in 1 .. (n - m) BY <1>2
  <2>3. line[m + k].what = "key" /\ line[m + j].what = "break" BY <1>2, <2>1, <2>2
  <2>4. m + k \in 1 .. (m + i) /\ m + j \in 1 .. (m + i) /\ m + k < m + j BY <1>2, <2>1
  <2>5. PICK x, y : x = m + j /\ y = m + k OBVIOUS
  <2> QED BY <2>3, <2>4, <2>5 DEF Ended
<1>5. \A i \in m .. n : Ended(line, m) => Ended(line, i)
  <2> SUFFICES ASSUME NEW i \in m .. n, Ended(line, m) PROVE Ended(line, i) OBVIOUS
  <2>1. PICK j, k \in 1 .. m : k < j /\ line[k].what = "key" /\ line[j].what = "break" BY DEF Ended
  <2>2. j \in 1 .. i /\ k \in 1 .. i BY <1>2
  <2> QED BY <2>1, <2>2 DEF Ended
<1>6. ASSUME NEW i \in 1 .. (n - m), rest[i].what = "key" /\ rest[i].secret PROVE then /\ ~Ended(rest, i)
  <2>1. m + i \in 1 .. n /\ m + i \in m .. n /\ i \in 0 .. (n - m) BY <1>2
  <2>2. line[m + i].what = "key" /\ line[m + i].secret BY <1>2, <1>6
  <2>3. PICK x : x = m + i OBVIOUS
  <2>4. ar /\ ~Ended(line, x) BY <1>3, <2>1, <2>2, <2>3
  <2> QED BY <1>0, <1>4, <1>5, <2>1, <2>3, <2>4
<1>7. ASSUME as PROVE then /\ ~Ended(rest, n - m)
  <2>1. ar /\ ~Ended(line, n) BY <1>3, <1>7
  <2>2. n - m \in 0 .. (n - m) /\ m + (n - m) = n /\ n \in m .. n BY <1>2
  <2> QED BY <1>0, <1>4, <1>5, <2>1, <2>2
<1>8. ASSUME em, NEW k \in 1 .. (n - m), rest[k].what = "key"
      PROVE  \E j \in 1 .. (n - m) : k < j /\ rest[j].what = "break"
  <2>1. PICK x : x = m + k OBVIOUS
  <2>2. x \in 1 .. n /\ line[x].what = "key" BY <1>2, <1>8, <2>1
  <2>3. PICK j \in 1 .. n : x < j /\ line[j].what = "break" BY <1>3, <1>8, <2>2
  <2>4. PICK y \in 1 .. (n - m) : j = m + y /\ k < y
    <3>1. j - m \in 1 .. (n - m) /\ j = m + (j - m) /\ k < j - m BY <1>2, <2>1, <2>3
    <3> QED BY <3>1
  <2>5. rest[y].what = "break" BY <1>2, <2>3, <2>4
  <2> QED BY <2>4, <2>5
<1> QED BY <1>2, <1>6, <1>7, <1>8 DEF Safe

\* A prompt finds no line break in the buffer.
LEMMA SafePrompt ==
  ASSUME NEW line \in Seq(Bytes), NEW ar \in BOOLEAN, NEW as \in BOOLEAN, NEW em, Safe(line, ar, as, em),
         \A i \in 1 .. Len(line) : line[i].what # "break", NEW p \in BOOLEAN,
         NEW masking, ar \/ p => masking, NEW prompted, prompted => as \/ p
  PROVE  Safe(line, masking, prompted, em)
<1>1. Len(line) \in Nat BY LenProperties
<1>2. \A i \in 0 .. Len(line) : ~Ended(line, i)
  <2> SUFFICES ASSUME NEW i \in 0 .. Len(line), Ended(line, i) PROVE FALSE OBVIOUS
  <2>1. PICK j \in 1 .. i : line[j].what = "break" BY DEF Ended
  <2>2. j \in 1 .. Len(line) BY <1>1
  <2> QED BY <2>1, <2>2
<1>3. Len(line) \in 0 .. Len(line) /\ \A i \in 1 .. Len(line) : i \in 0 .. Len(line) BY <1>1
<1> QED BY <1>2, <1>3 DEF Safe

\* What the node makes of what is typed.
ReaderStates == [asking : BOOLEAN, empty : BOOLEAN, read : Seq(Bytes)]
LEMMA Read ==
  ASSUME NEW data \in Seq(Kinds), asking \in BOOLEAN, lineEmpty \in BOOLEAN, armed \in BOOLEAN,
         buffer \in Seq(Bytes)
  PROVE  LET node == NodeReads(data) IN
         /\ node \in ReaderStates /\ Len(node.read) = Len(data)
         /\ buffer \o node.read \in Seq(Bytes)
         /\ Safe(buffer, armed, asking, lineEmpty)
              => Safe(buffer \o node.read, armed, node.asking, node.empty)
<1> DEFINE Was == Safe(buffer, armed, asking, lineEmpty)
           N == Len(data)
           base == [asking |-> asking, empty |-> lineEmpty, read |-> <<>>]
           R == {p \in (1 .. N) \X ReaderStates \X ReaderStates : p[3] = ReadByte(p[2], data[p[1]])}
           rec(f) == [n \in 0 .. N |-> IF n = 0 THEN base ELSE ReadByte(f[n - 1], data[n])]
           node == CHOOSE f : f = rec(f)
<1>1. N \in Nat /\ \A n \in 1 .. N : data[n] \in Kinds BY LenProperties, ElementOfSeq
<1>2. \A st \in ReaderStates, b \in Kinds : ReadByte(st, b) \in ReaderStates
  <2> SUFFICES ASSUME NEW st \in ReaderStates, NEW b \in Kinds PROVE ReadByte(st, b) \in ReaderStates OBVIOUS
  <2>1. st.asking \in BOOLEAN /\ st.empty \in BOOLEAN /\ st.read \in Seq(Bytes) BY DEF ReaderStates
  <2>2. [what |-> b, secret |-> st.asking, clear |-> TRUE] \in Bytes BY <2>1 DEF Bytes
  <2>3. Append(st.read, [what |-> b, secret |-> st.asking, clear |-> TRUE]) \in Seq(Bytes)
    BY <2>1, <2>2, AppendProperties
  <2>4. (st.asking /\ (b = "break" => st.empty)) \in BOOLEAN /\ (b = "break") \in BOOLEAN BY <2>1
  <2> QED BY <2>3, <2>4 DEF ReadByte, ReaderStates
<1>3. base \in ReaderStates
  <2>1. <<>> \in Seq(Bytes) BY EmptySeq
  <2> QED BY <2>1 DEF ReaderStates
<1>4. node = rec(node)
  <2>1. \A n \in 1 .. N, q, r \in ReaderStates : <<n, q, r>> \in R <=> r = ReadByte(q, data[n]) OBVIOUS
  <2> HIDE DEF R
  <2>2. PICK f \in [0 .. N -> ReaderStates] : f[0] = base /\ \A n \in 1 .. N : <<n, f[n - 1], f[n]>> \in R
    <3>1. PICK M, T, z : M = N /\ T = ReaderStates /\ z = base OBVIOUS
    <3>2. M \in Nat /\ z \in T BY <1>1, <1>3, <3>1
    <3>3. GoesOn(R, T, M)
      <4> SUFFICES ASSUME NEW k \in 1 .. M, NEW x \in T PROVE \E y \in T : <<k, x, y>> \in R BY DEF GoesOn
      <4>1. ReadByte(x, data[k]) \in T BY <1>1, <1>2, <3>1
      <4> QED BY <2>1, <3>1, <4>1
    <3>4. CarriedOn(R, T, z, M) BY <3>2, <3>3, Iterates
    <3> QED BY <3>1, <3>4 DEF CarriedOn
  <2>3. \A n \in 1 .. N : f[n] = ReadByte(f[n - 1], data[n])
    <3>1. \A n \in 1 .. N : n - 1 \in 0 .. N /\ n \in 0 .. N BY <1>1
    <3> HIDE DEF N
    <3>2. \A n \in 1 .. N : f[n - 1] \in ReaderStates /\ f[n] \in ReaderStates BY <2>2, <3>1
    <3> QED BY <2>1, <2>2, <3>2
  <2>4. f = rec(f)
    <3>1. \A n \in 0 .. N : f[n] = rec(f)[n]
      <4> SUFFICES ASSUME NEW n \in 0 .. N PROVE f[n] = rec(f)[n] OBVIOUS
      <4>1. CASE n = 0 BY <2>2, <4>1
      <4>2. CASE n # 0
        <5>1. n \in 1 .. N BY <1>1, <4>2
        <5> QED BY <2>3, <4>2, <5>1
      <4> QED BY <4>1, <4>2
    <3> QED BY <2>2, <3>1
  <2> HIDE DEF rec
  <2> QED BY <2>4
<1>5. NodeReads(data) = node[N] BY DEF NodeReads
<1> HIDE DEF node
<1>6. node[0] = base /\ \A n \in 1 .. N : node[n] = ReadByte(node[n - 1], data[n])
  <2>1. \A n \in 1 .. N : n \in 0 .. N /\ n # 0 OBVIOUS
  <2>2. 0 \in 0 .. N BY <1>1
  <2> QED BY <1>4, <2>1, <2>2
<1> DEFINE Good(n, st) == /\ st \in ReaderStates /\ Len(st.read) = n
                          /\ buffer \o st.read \in Seq(Bytes)
                          /\ Was => Safe(buffer \o st.read, armed, st.asking, st.empty)
           P == {n \in 0 .. N : Good(n, node[n])}
<1>7. 0 \in P
  <2>1. base.asking = asking /\ base.empty = lineEmpty /\ base.read = <<>> OBVIOUS
  <2>2. buffer \o <<>> = buffer BY ConcatEmptySeq
  <2>3. Len(<<>>) = 0 BY EmptySeq
  <2>4. Good(0, base) BY <1>3, <2>1, <2>2, <2>3
  <2> HIDE DEF Good, base
  <2> QED BY <1>1, <1>6, <2>4
<1>8. ASSUME NEW n \in 1 .. N, n - 1 \in P PROVE n \in P
  <2>1. PICK st, b : st = node[n - 1] /\ b = data[n] OBVIOUS
  <2>2. Good(n - 1, st) /\ b \in Kinds BY <1>1, <1>8, <2>1
  <2>3. PICK next : next = ReadByte(st, b) OBVIOUS
  <2>4. PICK e : e = [what |-> b, secret |-> st.asking, clear |-> TRUE] OBVIOUS
  <2>5. /\ next \in ReaderStates /\ next.read = Append(st.read, e)
        /\ next.asking = (st.asking /\ (b = "break" => st.empty)) /\ next.empty = (b = "break")
    BY <1>2, <2>2, <2>3, <2>4 DEF ReadByte
  <2>6. st.asking \in BOOLEAN /\ st.empty \in BOOLEAN /\ st.read \in Seq(Bytes) /\ Len(st.read) = n - 1
    BY <2>2 DEF ReaderStates
  <2>7. e \in Bytes BY <2>2, <2>4, <2>6 DEF Bytes
  <2>8. Len(next.read) = n
    <3>1. Len(Append(st.read, e)) = Len(st.read) + 1 BY <2>6, <2>7, AppendProperties
    <3> QED BY <2>5, <2>6, <3>1
  <2>9. buffer \o next.read = Append(buffer \o st.read, e)
    <3>1. PICK r, l : r = st.read /\ l = buffer \o r OBVIOUS
    <3>2. r \in Seq(Bytes) /\ l \in Seq(Bytes) /\ <<e>> \in Seq(Bytes)
      <4>1. <<e>> \in Seq(Bytes) BY <2>7
      <4> QED BY <2>2, <2>6, <3>1, <4>1
    <3>3. Append(r, e) = r \o <<e>> /\ Append(l, e) = l \o <<e>> BY <2>7, <3>2, AppendIsConcat
    <3>4. (buffer \o r) \o <<e>> = buffer \o (r \o <<e>>) BY <3>2, ConcatAssociative
    <3> QED BY <2>5, <3>1, <3>3, <3>4
  <2>10. PICK line, grown : line = buffer \o st.read /\ grown = Append(line, e) OBVIOUS
  <2>11. line \in Seq(Bytes) /\ (Was => Safe(line, armed, st.asking, st.empty)) BY <2>2, <2>10
  <2>12. grown \in Seq(Bytes) /\ (Was => Safe(grown, armed, next.asking, next.empty))
    <3>1. b \in Kinds /\ line \in Seq(Bytes) BY <2>2, <2>11
    <3>2. next.asking => st.asking /\ (b = "break" => st.empty) BY <2>5
    <3>3. next.empty => b = "break" BY <2>5
    <3>4. st.asking \in BOOLEAN /\ st.empty \in BOOLEAN BY <2>6
    <3>5. grown = Append(line, [what |-> b, secret |-> st.asking, clear |-> TRUE]) BY <2>4, <2>10
    <3>6. Reads(line, b, st.asking, st.empty, grown, next.asking, next.empty)
      BY <3>1, <3>2, <3>3, <3>4, <3>5 DEF Reads
    <3>7. ASSUME Was PROVE Safe(grown, armed, next.asking, next.empty)
      <4>1. Safe(line, armed, st.asking, st.empty) BY <2>11, <3>7
      <4> QED BY <3>6, <4>1, SafeGrows
    <3>8. grown \in Seq(Bytes) BY <2>7, <2>10, <2>11, AppendProperties
    <3> HIDE DEF Was
    <3> QED BY <3>7, <3>8
  <2>13. grown = buffer \o next.read BY <2>9, <2>10
  <2>14. Was => Safe(grown, armed, next.asking, next.empty) BY <2>12
  <2>15. Good(n, next) BY <2>5, <2>8, <2>12, <2>13, <2>14
  <2>16. next = node[n] BY <1>6, <2>1, <2>3
  <2> HIDE DEF Good
  <2> QED BY <2>15, <2>16
<1>9. N \in P
  <2> HIDE DEF P, N
  <2>1. 0 .. N \subseteq P BY <1>1, <1>7, <1>8, StepByStep
  <2> QED BY <1>1, <2>1
<1>10. Good(N, node[N])
  <2> HIDE DEF Good
  <2> QED BY <1>9
<1> QED BY <1>5, <1>10

\* What the masking makes of one byte.
Scans == [armed : BOOLEAN, keys : Nat, out : Seq(Bytes)]
OneMasked(st, b, next, n) ==
  /\ next \in Scans /\ Len(next.out) = n + 1
  /\ \A i \in 1 .. n : next.out[i] = st.out[i]
  /\ next.out[n + 1].what = b.what /\ next.out[n + 1].secret = b.secret
  /\ st.armed /\ b.what = "key" => ~next.out[n + 1].clear
  /\ st.armed /\ (b.what = "key" \/ st.keys = 0) => next.armed
  /\ next.keys # st.keys => b.what = "key"
LEMMA MaskOne ==
  ASSUME NEW st \in Scans, NEW b \in Bytes PROVE OneMasked(st, b, MaskByte(st, b), Len(st.out))
<1>0. PICK next : next = MaskByte(st, b) OBVIOUS
<1>1. st.armed \in BOOLEAN /\ st.keys \in Nat /\ st.out \in Seq(Bytes) BY DEF Scans
<1>2. b.what \in {"key", "break"} /\ b.secret \in BOOLEAN /\ b.clear \in BOOLEAN BY DEF Bytes, Kinds
<1>3. PICK m : m = [b EXCEPT !.clear = FALSE] OBVIOUS
<1>4. m \in Bytes /\ m.what = b.what /\ m.secret = b.secret /\ ~m.clear BY <1>3 DEF Bytes
<1>5. PICK n \in Nat : n = Len(st.out) BY <1>1, LenProperties
<1>6. ASSUME NEW e \in Bytes
      PROVE  /\ Append(st.out, e) \in Seq(Bytes) /\ Len(Append(st.out, e)) = n + 1
             /\ Append(st.out, e)[n + 1] = e /\ \A i \in 1 .. n : Append(st.out, e)[i] = st.out[i]
  BY <1>1, <1>5, AppendProperties
<1>7. CASE ~st.armed
  <2>1. next = Kept(st, b) BY <1>0, <1>7 DEF MaskByte
  <2>2. next.armed = st.armed /\ next.keys = st.keys /\ next.out = Append(st.out, b) /\ next \in Scans
    BY <1>6, <2>1 DEF Kept, Scans
  <2>3. OneMasked(st, b, next, n) BY <1>6, <1>7, <2>2 DEF OneMasked
  <2> QED BY <1>0, <1>5, <2>3
<1>8. CASE st.armed /\ b.what = "key"
  <2>1. next = Masked(st, b) BY <1>0, <1>8 DEF MaskByte, IsBreak
  <2>2. PICK k \in Nat, o \in Seq(Bytes) : k = st.keys + 1 /\ o = Append(st.out, m)
    <3>1. st.keys + 1 \in Nat BY <1>1
    <3> QED BY <1>4, <1>6, <3>1
  <2>3. next = [st EXCEPT !.keys = k, !.out = o] BY <1>3, <2>1, <2>2 DEF Masked
  <2>4. next.armed = st.armed /\ next.out = o /\ next \in Scans BY <2>3 DEF Scans
  <2>5. /\ Len(o) = n + 1 /\ o[n + 1] = m /\ \A i \in 1 .. n : o[i] = st.out[i] BY <1>4, <1>6, <2>2
  <2>6. OneMasked(st, b, next, n) BY <1>4, <1>8, <2>4, <2>5 DEF OneMasked
  <2> QED BY <1>0, <1>5, <2>6
<1>9. CASE st.armed /\ b.what = "break"
  <2>1. next = [Kept(st, b) EXCEPT !.armed = (st.keys = 0)] BY <1>0, <1>9 DEF MaskByte, IsBreak
  <2>2. next.armed = (st.keys = 0) /\ next.keys = st.keys /\ next.out = Append(st.out, b) /\ next \in Scans
    BY <1>6, <2>1 DEF Kept, Scans
  <2>3. st.keys = 0 => next.armed BY <2>2
  <2>4. b.what # "key" BY <1>9
  <2>5. OneMasked(st, b, next, n) BY <1>6, <2>2, <2>3, <2>4 DEF OneMasked
  <2> QED BY <1>0, <1>5, <2>5
<1> QED BY <1>2, <1>7, <1>8, <1>9

\* The masking keeps the length and the kinds, and masks up to the end of the first line
\* that is not empty.
Covered(payload, ar, i, o) ==
  /\ o.what = payload[i].what /\ o.secret = payload[i].secret
  /\ ar /\ ~Ended(payload, i) /\ payload[i].what = "key" => ~o.clear

LEMMA Masking ==
  ASSUME NEW payload \in Seq(Bytes), armed \in BOOLEAN
  PROVE  LET done == Mask(payload) IN
         /\ done.armed \in BOOLEAN /\ done.out \in Seq(Bytes) /\ Len(done.out) = Len(payload)
         /\ \A i \in 1 .. Len(payload) : Covered(payload, armed, i, done.out[i])
         /\ armed /\ ~Ended(payload, Len(payload)) => done.armed
<1> DEFINE N == Len(payload)
           base == Scan(armed)
           R == {p \in (1 .. N) \X Scans \X Scans : p[3] = MaskByte(p[2], payload[p[1]])}
           rec(f) == [n \in 0 .. N |-> IF n = 0 THEN base ELSE MaskByte(f[n - 1], payload[n])]
           scan == CHOOSE f : f = rec(f)
<1>1. N \in Nat /\ \A n \in 1 .. N : payload[n] \in Bytes BY LenProperties, ElementOfSeq
<1>2. \A st \in Scans, b \in Bytes : MaskByte(st, b) \in Scans BY MaskOne DEF OneMasked
<1>3. base \in Scans /\ base.out = <<>> /\ base.keys = 0 /\ base.armed = armed
  <2>1. <<>> \in Seq(Bytes) BY EmptySeq
  <2> QED BY <2>1 DEF Scans, Scan
<1>4. scan = rec(scan)
  <2>1. \A n \in 1 .. N, q, r \in Scans : <<n, q, r>> \in R <=> r = MaskByte(q, payload[n]) OBVIOUS
  <2> HIDE DEF R
  <2>2. PICK f \in [0 .. N -> Scans] : f[0] = base /\ \A n \in 1 .. N : <<n, f[n - 1], f[n]>> \in R
    <3>1. PICK M, T, z : M = N /\ T = Scans /\ z = base OBVIOUS
    <3>2. M \in Nat /\ z \in T BY <1>1, <1>3, <3>1
    <3>3. GoesOn(R, T, M)
      <4> SUFFICES ASSUME NEW k \in 1 .. M, NEW x \in T PROVE \E y \in T : <<k, x, y>> \in R BY DEF GoesOn
      <4>1. MaskByte(x, payload[k]) \in T BY <1>1, <1>2, <3>1
      <4> QED BY <2>1, <3>1, <4>1
    <3>4. CarriedOn(R, T, z, M) BY <3>2, <3>3, Iterates
    <3> QED BY <3>1, <3>4 DEF CarriedOn
  <2>3. \A n \in 1 .. N : f[n] = MaskByte(f[n - 1], payload[n])
    <3>1. \A n \in 1 .. N : n - 1 \in 0 .. N /\ n \in 0 .. N BY <1>1
    <3> HIDE DEF N
    <3>2. \A n \in 1 .. N : f[n - 1] \in Scans /\ f[n] \in Scans BY <2>2, <3>1
    <3> QED BY <2>1, <2>2, <3>2
  <2>4. f = rec(f)
    <3>1. \A n \in 0 .. N : f[n] = rec(f)[n]
      <4> SUFFICES ASSUME NEW n \in 0 .. N PROVE f[n] = rec(f)[n] OBVIOUS
      <4>1. CASE n = 0 BY <2>2, <4>1
      <4>2. CASE n # 0
        <5>1. n \in 1 .. N BY <1>1, <4>2
        <5> QED BY <2>3, <4>2, <5>1
      <4> QED BY <4>1, <4>2
    <3> QED BY <2>2, <3>1
  <2> HIDE DEF rec
  <2> QED BY <2>4
<1>5. Mask(payload) = scan[N] BY DEF Mask
<1> HIDE DEF scan
<1>6. scan[0] = base /\ \A n \in 1 .. N : scan[n] = MaskByte(scan[n - 1], payload[n])
  <2>1. \A n \in 1 .. N : n \in 0 .. N /\ n # 0 OBVIOUS
  <2>2. 0 \in 0 .. N BY <1>1
  <2> QED BY <1>4, <2>1, <2>2
<1> DEFINE Good(n, st) ==
             /\ st \in Scans /\ Len(st.out) = n
             /\ \A i \in 1 .. n : Covered(payload, armed, i, st.out[i])
             /\ armed /\ ~Ended(payload, n) => st.armed
             /\ st.keys # 0 => \E k \in 1 .. n : payload[k].what = "key"
           P == {n \in 0 .. N : Good(n, scan[n])}
<1>7. 0 \in P
  <2>1. Len(<<>>) = 0 BY EmptySeq
  <2>2. Good(0, base) BY <1>3, <2>1
  <2> HIDE DEF Good, base
  <2> QED BY <1>1, <1>6, <2>2
<1>8. ASSUME NEW n \in 1 .. N, n - 1 \in P PROVE n \in P
  <2>1. PICK st, b, next, l : st = scan[n - 1] /\ b = payload[n] /\ next = MaskByte(st, b) /\ l = n - 1 OBVIOUS
  <2>2. Good(l, st) /\ b \in Bytes /\ l \in Nat /\ n = l + 1 BY <1>1, <1>8, <2>1
  <2>3. /\ next \in Scans /\ Len(st.out) = l /\ Len(next.out) = n
        /\ \A i \in 1 .. l : next.out[i] = st.out[i]
        /\ next.out[n].what = b.what /\ next.out[n].secret = b.secret
        /\ st.armed /\ b.what = "key" => ~next.out[n].clear
        /\ st.armed /\ (b.what = "key" \/ st.keys = 0) => next.armed
        /\ next.keys # st.keys => b.what = "key"
    <3>1. st \in Scans /\ Len(st.out) = l BY <2>2
    <3>2. OneMasked(st, b, next, l)
      <4>1. b \in Bytes /\ next = MaskByte(st, b) BY <2>1, <2>2
      <4> HIDE DEF Good
      <4> QED BY <3>1, <4>1, MaskOne
    <3> HIDE DEF Good
    <3> QED BY <2>2, <3>1, <3>2 DEF OneMasked
  <2>4. Ended(payload, l) => Ended(payload, n)
    <3> SUFFICES ASSUME Ended(payload, l) PROVE Ended(payload, n) OBVIOUS
    <3>1. PICK j, k \in 1 .. l : k < j /\ payload[k].what = "key" /\ payload[j].what = "break" BY DEF Ended
    <3>2. j \in 1 .. n /\ k \in 1 .. n BY <2>2
    <3> QED BY <3>1, <3>2 DEF Ended
  <2>5. \A i \in 1 .. n : Covered(payload, armed, i, next.out[i])
    <3> SUFFICES ASSUME NEW i \in 1 .. n PROVE Covered(payload, armed, i, next.out[i]) OBVIOUS
    <3>1. CASE i = n
      <4>1. armed /\ ~Ended(payload, n) => st.armed BY <2>2, <2>4
      <4> QED BY <2>1, <2>3, <3>1, <4>1 DEF Covered
    <3>2. CASE i # n
      <4>1. i \in 1 .. l BY <2>2, <3>2
      <4>2. next.out[i] = st.out[i] BY <2>3, <4>1
      <4> QED BY <2>2, <4>1, <4>2
    <3> QED BY <3>1, <3>2
  <2>6. st.keys # 0 => \E k \in 1 .. l : payload[k].what = "key" BY <2>2
  <2>7. ASSUME armed, ~Ended(payload, n) PROVE next.armed
    <3>1. st.armed BY <2>2, <2>4, <2>7
    <3>2. CASE b.what = "key" BY <2>3, <3>1, <3>2
    <3>3. CASE b.what # "key"
      <4>1. payload[n].what = "break" BY <2>1, <2>2, <3>3 DEF Bytes, Kinds
      <4>2. ASSUME st.keys # 0 PROVE FALSE
        <5>1. PICK k \in 1 .. l : payload[k].what = "key" BY <2>6, <4>2
        <5>2. k \in 1 .. n /\ n \in 1 .. n /\ k < n BY <2>2
        <5> QED BY <2>7, <4>1, <5>1, <5>2 DEF Ended
      <4> QED BY <2>3, <3>1, <4>2
    <3> QED BY <3>2, <3>3
  <2>8. next.keys # 0 => \E k \in 1 .. n : payload[k].what = "key"
    <3>1. CASE next.keys = st.keys
      <4>1. \A k \in 1 .. l : k \in 1 .. n BY <2>2
      <4> QED BY <2>6, <3>1, <4>1
    <3>2. CASE next.keys # st.keys
      <4>1. n \in 1 .. n BY <2>2
      <4> QED BY <2>1, <2>3, <3>2, <4>1
    <3> QED BY <3>1, <3>2
  <2>9. Good(n, next) BY <2>3, <2>5, <2>7, <2>8
  <2>10. next = scan[n] BY <1>6, <2>1
  <2> HIDE DEF Good
  <2> QED BY <2>9, <2>10
<1>9. N \in P
  <2> HIDE DEF P, N
  <2>1. 0 .. N \subseteq P BY <1>1, <1>7, <1>8, StepByStep
  <2> QED BY <1>1, <2>1
<1>10. Good(N, scan[N])
  <2> HIDE DEF Good
  <2> QED BY <1>9
<1> QED BY <1>5, <1>10 DEF Scans

\* The cut is within the buffer, and nothing is cut only where no line has ended.
LEMMA Cut ==
  ASSUME NEW data \in Seq(Bytes)
  PROVE  /\ CutAt(data) \in 0 .. Len(data)
         /\ CutAt(data) = 0 => \A i \in 1 .. Len(data) : data[i].what # "break"
<1>1. PICK n, m, head : n = Len(data) /\ m = Lesser(n, ChunkBytes) /\ head = SubSeq(data, 1, m) OBVIOUS
<1>2. n \in Nat /\ ChunkBytes \in Nat \ {0} BY <1>1, LenProperties, TapAssumption
<1>3. m \in 0 .. n /\ m <= ChunkBytes /\ (n < ChunkBytes => m = n) BY <1>1, <1>2 DEF Lesser
<1>4. DOMAIN head = 1 .. m /\ \A i \in 1 .. m : head[i] = data[i]
  <2>1. m \in 0 .. Len(data) BY <1>1, <1>3
  <2> QED BY <1>1, <2>1, InTwo
<1>5. PICK S : S = Breaks(head) OBVIOUS
<1>6. S \subseteq 1 .. m /\ \A i \in 1 .. m : i \in S <=> data[i].what = "break"
  BY <1>4, <1>5 DEF Breaks, IsBreak
<1>7. CutAt(data) = IF S # {} THEN CHOOSE i \in S : \A j \in S : j <= i
                    ELSE IF n >= ChunkBytes THEN ChunkBytes ELSE 0
  BY <1>1, <1>5 DEF CutAt
<1>8. CASE S # {}
  <2>1. \E i \in S : \A j \in S : j <= i
    <3>1. PICK T : T = {m - i : i \in S} OBVIOUS
    <3>2. T \subseteq Nat /\ T # {}
      <4>1. \A i \in S : m - i \in Nat BY <1>3, <1>6
      <4> QED BY <1>8, <3>1, <4>1
    <3>3. PICK x \in T : \A y \in T : x <= y BY <3>2, Smallest
    <3>4. PICK i \in S : x = m - i BY <3>1, <3>3
    <3>5. \A j \in S : j <= i
      <4> SUFFICES ASSUME NEW j \in S PROVE j <= i OBVIOUS
      <4>1. m - i <= m - j BY <3>1, <3>3, <3>4
      <4> QED BY <1>3, <1>6, <4>1
    <3> QED BY <3>5
  <2>2. CutAt(data) \in S BY <1>7, <1>8, <2>1
  <2>3. CutAt(data) \in 1 .. m BY <1>6, <2>2
  <2> QED BY <1>1, <1>2, <1>3, <2>3
<1>9. CASE S = {}
  <2>1. CASE n >= ChunkBytes BY <1>1, <1>2, <1>7, <1>9, <2>1
  <2>2. CASE ~(n >= ChunkBytes)
    <3>1. CutAt(data) = 0 /\ m = n BY <1>2, <1>3, <1>7, <1>9, <2>2
    <3> QED BY <1>1, <1>2, <1>6, <1>9, <3>1
  <2> QED BY <2>1, <2>2
<1> QED BY <1>8, <1>9
-----------------------------------------------------------------------------
(* The inductive invariant of the capture of one socket *)

Recorded == [seq : Nat, payload : Seq(Bytes)]
TapTyped ==
  /\ buffer \in Seq(Bytes) /\ taken \in Nat
  /\ armed \in BOOLEAN /\ asking \in BOOLEAN /\ lineEmpty \in BOOLEAN /\ over \in BOOLEAN
  /\ rowsUsed \in 0 .. MaxRows /\ seq \in 0 .. rowsUsed
  /\ socket \in {"open", "closing", "closed"}
  /\ frames \in Seq(Recorded)

\* What is recorded of it hides every secret.
HidesAll(payload) ==
  \A j \in 1 .. Len(payload) : payload[j].what = "key" /\ payload[j].secret => ~payload[j].clear
Hidden == \A i \in 1 .. Len(frames) : HidesAll(frames[i].payload)

Rising ==
  /\ \A i \in 1 .. Len(frames) : frames[i].seq <= seq
  /\ \A i, j \in 1 .. Len(frames) : i < j => frames[i].seq < frames[j].seq

\* What was taken is recorded or still in the buffer.
Lengths(fs) == [n \in DOMAIN fs |-> Len(fs[n].payload)]
Counted == ~over => taken = Len(buffer) + SumOf(Lengths(frames))

Guarded == ~over => Safe(buffer, armed, asking, lineEmpty)
Emptied == socket = "closed" /\ ~over => buffer = <<>>

TapInv == TapTyped /\ Hidden /\ Rising /\ Counted /\ Guarded /\ Emptied

\* The bytes of the frames recorded.
LEMMA Measured ==
  ASSUME NEW fs \in Seq(Recorded)
  PROVE  /\ Lengths(fs) \in Seq(Nat) /\ Len(Lengths(fs)) = Len(fs)
         /\ \A n \in 1 .. Len(fs) : Lengths(fs)[n] = Len(fs[n].payload)
<1>1. PICK N \in Nat : N = Len(fs) /\ DOMAIN fs = 1 .. N BY LenProperties
<1>2. PICK w : w = Lengths(fs) OBVIOUS
<1>3. w = [n \in 1 .. N |-> Len(fs[n].payload)] BY <1>1, <1>2 DEF Lengths
<1>4. \A n \in 1 .. N : w[n] \in Nat
  <2> SUFFICES ASSUME NEW n \in 1 .. N PROVE w[n] \in Nat OBVIOUS
  <2>1. fs[n] \in Recorded BY <1>1, ElementOfSeq
  <2>2. fs[n].payload \in Seq(Bytes) BY <2>1 DEF Recorded
  <2>3. Len(fs[n].payload) \in Nat BY <2>2, LenProperties
  <2> QED BY <1>3, <2>3
<1>5. w \in [1 .. N -> Nat] BY <1>3, <1>4
<1>6. w \in Seq(Nat) /\ Len(w) = N BY <1>5, FunctionAsSeq
<1> QED BY <1>1, <1>2, <1>3, <1>6

LEMMA MeasuredOneMore ==
  ASSUME NEW fs \in Seq(Recorded), NEW f \in Recorded
  PROVE  /\ SumOf(Lengths(Append(fs, f))) = SumOf(Lengths(fs)) + Len(f.payload)
         /\ SumOf(Lengths(fs)) \in Nat
<1>1. PICK gs, n : gs = Append(fs, f) /\ n = Len(fs) OBVIOUS
<1>2. /\ gs \in Seq(Recorded) /\ n \in Nat /\ Len(gs) = n + 1 /\ gs[n + 1] = f
      /\ \A k \in 1 .. n : gs[k] = fs[k]
  BY <1>1, OneMore
<1>3. PICK v, w : v = Lengths(fs) /\ w = Lengths(gs) OBVIOUS
<1>4. v \in Seq(Nat) /\ Len(v) = n /\ \A k \in 1 .. n : v[k] = Len(fs[k].payload)
  BY <1>1, <1>3, Measured
<1>5. w \in Seq(Nat) /\ Len(w) = n + 1 /\ \A k \in 1 .. (n + 1) : w[k] = Len(gs[k].payload)
  BY <1>2, <1>3, Measured
<1>6. \A k \in 1 .. n : w[k] = v[k]
  <2>1. \A k \in 1 .. n : k \in 1 .. (n + 1) BY <1>2
  <2> QED BY <1>2, <1>4, <1>5, <2>1
<1>7. w[n + 1] = Len(f.payload)
  <2>1. n + 1 \in 1 .. (n + 1) BY <1>2
  <2> QED BY <1>2, <1>5, <2>1
<1>8. SumOf(w) = SumOf(v) + w[Len(w)] /\ SumOf(v) \in Nat BY <1>4, <1>5, <1>6, SumAppend
<1> QED BY <1>1, <1>3, <1>5, <1>7, <1>8

LEMMA TapStarts == TapInit => TapInv
<1> SUFFICES ASSUME TapInit PROVE TapInv OBVIOUS
<1>1. <<>> \in Seq(Bytes) /\ <<>> \in Seq(Recorded) /\ Len(<<>>) = 0 BY EmptySeq
<1>2. /\ buffer = <<>> /\ taken = 0 /\ armed = FALSE /\ seq = 0 /\ rowsUsed = 0 /\ over = FALSE /\ socket = "open"
      /\ frames = <<>> /\ asking = FALSE /\ lineEmpty = TRUE
  BY DEF TapInit
<1>3. TapTyped
  <2>1. MaxRows \in Nat BY TapAssumption
  <2>2. rowsUsed \in 0 .. MaxRows /\ seq \in 0 .. rowsUsed /\ taken \in Nat BY <1>2, <2>1
  <2> QED BY <1>1, <1>2, <2>2 DEF TapTyped
<1>4. Hidden /\ Rising BY <1>1, <1>2 DEF Hidden, Rising
<1>5. Counted
  <2>1. Lengths(<<>>) = <<>>
    <3>1. Lengths(<<>>) \in Seq(Nat) /\ Len(Lengths(<<>>)) = 0 BY <1>1, Measured
    <3> QED BY <3>1, EmptySeq
  <2> QED BY <1>1, <1>2, <2>1, SumOfNothing DEF Counted
<1>6. Guarded BY <1>1, <1>2 DEF Guarded, Safe
<1>7. Emptied BY <1>2 DEF Emptied
<1> QED BY <1>3, <1>4, <1>5, <1>6, <1>7 DEF TapInv

\* The head of the buffer goes out masked.
LEMMA EmitPart ==
  ASSUME TapInv, ~over, NEW size \in 0 .. Len(buffer), Emit(size),
         UNCHANGED <<taken, asking, lineEmpty>>, socket' \in {"open", "closing"}
  PROVE  TapInv'
<1>1. TapTyped /\ Hidden /\ Rising /\ Counted /\ Guarded BY DEF TapInv
<1>2. PICK line, n, p, q, done :
        /\ line = buffer /\ n = Len(buffer) /\ p = SubSeq(buffer, 1, size)
        /\ q = SubSeq(buffer, size + 1, Len(buffer)) /\ done = Mask(p)
  OBVIOUS
<1>3. /\ n \in Nat /\ p \in Seq(Bytes) /\ Len(p) = size /\ (\A i \in 1 .. size : p[i] = line[i])
      /\ q \in Seq(Bytes) /\ Len(q) = n - size /\ size \in 0 .. n
  <2>1. buffer \in Seq(Bytes) BY <1>1 DEF TapTyped
  <2> QED BY <1>2, <2>1, InTwo
<1>4. /\ done.armed \in BOOLEAN /\ done.out \in Seq(Bytes) /\ Len(done.out) = size
      /\ \A i \in 1 .. size : Covered(p, armed, i, done.out[i])
      /\ armed /\ ~Ended(p, size) => done.armed
  <2>1. armed \in BOOLEAN BY <1>1 DEF TapTyped
  <2> QED BY <1>2, <1>3, <2>1, Masking
<1>5. /\ buffer' = q /\ armed' = done.armed
      /\ IF rowsUsed >= MaxRows
         THEN over' = TRUE /\ UNCHANGED <<rowsUsed, seq, frames>>
         ELSE /\ rowsUsed' = rowsUsed + 1 /\ seq' = seq + 1 /\ UNCHANGED over
              /\ frames' = Append(frames, [seq |-> seq + 1, payload |-> done.out])
  BY <1>2 DEF Emit
<1>6. \A i \in 0 .. size : Ended(p, i) => Ended(line, i)
  <2> SUFFICES ASSUME NEW i \in 0 .. size, Ended(p, i) PROVE Ended(line, i) OBVIOUS
  <2>1. PICK j, k \in 1 .. i : k < j /\ p[k].what = "key" /\ p[j].what = "break" BY DEF Ended
  <2>2. j \in 1 .. size /\ k \in 1 .. size BY <1>3
  <2>3. line[k].what = "key" /\ line[j].what = "break" BY <1>3, <2>1, <2>2
  <2> QED BY <2>1, <2>3 DEF Ended
<1>7. Safe(line, armed, asking, lineEmpty) BY <1>1, <1>2 DEF Guarded
<1>8. HidesAll(done.out)
  <2> SUFFICES ASSUME NEW j \in 1 .. size, done.out[j].what = "key", done.out[j].secret
               PROVE  ~done.out[j].clear
    BY <1>4 DEF HidesAll
  <2>1. Covered(p, armed, j, done.out[j]) BY <1>4
  <2>2. p[j].what = "key" /\ p[j].secret BY <2>1 DEF Covered
  <2>3. p[j] = line[j] /\ j \in 1 .. n /\ j \in 0 .. size BY <1>3
  <2>4. line[j].what = "key" /\ line[j].secret BY <2>2, <2>3
  <2>5. armed /\ ~Ended(line, j) BY <1>2, <1>7, <2>3, <2>4 DEF Safe
  <2> QED BY <1>6, <2>1, <2>2, <2>3, <2>5 DEF Covered
<1>9. Guarded'
  <2>1. armed /\ ~Ended(line, size) => done.armed
    <3>1. size \in 0 .. size BY <1>3
    <3> QED BY <1>4, <1>6, <3>1
  <2>2. line \in Seq(Bytes) /\ size \in 0 .. Len(line) /\ q = SubSeq(line, size + 1, Len(line))
    BY <1>1, <1>2 DEF TapTyped
  <2>3. CutBehind(line, size, q) /\ MaskedOn(line, size, armed, done.armed) BY <2>1, <2>2 DEF CutBehind, MaskedOn
  <2>4. Safe(q, done.armed, asking, lineEmpty) BY <1>7, <2>3, SafeCut
  <2> QED BY <1>5, <2>4 DEF Guarded
<1>10. Emptied' BY DEF Emptied
<1>11. CASE rowsUsed >= MaxRows
  <2>1. over' = TRUE /\ UNCHANGED <<rowsUsed, seq, frames>> BY <1>5, <1>11
  <2>2. TapTyped' BY <1>1, <1>3, <1>4, <1>5, <2>1 DEF TapTyped
  <2>3. Hidden' /\ Rising' BY <1>1, <2>1 DEF Hidden, Rising
  <2>4. Counted' BY <2>1 DEF Counted
  <2> QED BY <1>9, <1>10, <2>2, <2>3, <2>4 DEF TapInv
<1>12. CASE ~(rowsUsed >= MaxRows)
  <2>1. PICK f, m : f = [seq |-> seq + 1, payload |-> done.out] /\ m = Len(frames) OBVIOUS
  <2>2. rowsUsed' = rowsUsed + 1 /\ seq' = seq + 1 /\ UNCHANGED over /\ frames' = Append(frames, f)
    BY <1>5, <1>12, <2>1
  <2>3. seq \in Nat /\ rowsUsed \in Nat /\ MaxRows \in Nat /\ seq <= rowsUsed /\ rowsUsed <= MaxRows
    BY <1>1, TapAssumption DEF TapTyped
  <2>4. f \in Recorded /\ f.seq = seq + 1 /\ f.payload = done.out BY <1>4, <2>1, <2>3 DEF Recorded
  <2>5. frames \in Seq(Recorded) BY <1>1 DEF TapTyped
  <2>6. PICK g : g = frames' OBVIOUS
  <2>7. /\ g \in Seq(Recorded) /\ m \in Nat /\ Len(g) = m + 1 /\ g[m + 1] = f
        /\ \A k \in 1 .. m : g[k] = frames[k]
    BY <2>1, <2>2, <2>4, <2>5, <2>6, OneMore
  <2>8. TapTyped'
    <3>1. rowsUsed' \in 0 .. MaxRows /\ seq' \in 0 .. rowsUsed' BY <1>12, <2>2, <2>3
    <3> QED BY <1>1, <1>3, <1>4, <1>5, <2>2, <2>6, <2>7, <3>1 DEF TapTyped
  <2>9. Hidden'
    <3> SUFFICES ASSUME NEW i \in 1 .. (m + 1) PROVE HidesAll(g[i].payload) BY <2>6, <2>7 DEF Hidden
    <3>1. CASE i = m + 1 BY <1>8, <2>4, <2>7, <3>1
    <3>2. CASE i # m + 1
      <4>1. i \in 1 .. m BY <2>7, <3>2
      <4> QED BY <1>1, <2>1, <2>7, <4>1 DEF Hidden
    <3> QED BY <3>1, <3>2
  <2>10. Rising'
    <3>1. \A i \in 1 .. m : g[i].seq <= seq /\ g[i].seq \in Nat
      <4> SUFFICES ASSUME NEW i \in 1 .. m PROVE g[i].seq <= seq /\ g[i].seq \in Nat OBVIOUS
      <4>1. g[i] = frames[i] /\ frames[i].seq <= seq BY <1>1, <2>1, <2>7 DEF Rising
      <4>2. frames[i] \in Recorded BY <2>1, <2>5, ElementOfSeq
      <4> QED BY <4>1, <4>2 DEF Recorded
    <3>2. \A i \in 1 .. (m + 1) : g[i].seq <= seq + 1
      <4> SUFFICES ASSUME NEW i \in 1 .. (m + 1) PROVE g[i].seq <= seq + 1 OBVIOUS
      <4>1. CASE i = m + 1 BY <2>3, <2>4, <2>7, <4>1
      <4>2. CASE i # m + 1
        <5>1. i \in 1 .. m BY <2>7, <4>2
        <5> QED BY <2>3, <3>1, <5>1
      <4> QED BY <4>1, <4>2
    <3>3. ASSUME NEW i \in 1 .. (m + 1), NEW j \in 1 .. (m + 1), i < j PROVE g[i].seq < g[j].seq
      <4>1. i \in 1 .. m BY <2>7, <3>3
      <4>2. CASE j = m + 1
        <5>1. g[j].seq = seq + 1 BY <2>4, <2>7, <4>2
        <5> QED BY <2>3, <3>1, <4>1, <5>1
      <4>3. CASE j # m + 1
        <5>1. j \in 1 .. m BY <2>7, <4>3
        <5> QED BY <1>1, <2>1, <2>7, <3>3, <4>1, <5>1 DEF Rising
      <4> QED BY <4>2, <4>3
    <3> QED BY <2>2, <2>6, <2>7, <3>2, <3>3 DEF Rising
  <2>11. Counted'
    <3>1. SumOf(Lengths(g)) = SumOf(Lengths(frames)) + size /\ SumOf(Lengths(frames)) \in Nat
      <4>1. Len(f.payload) = size BY <1>4, <2>4
      <4> QED BY <2>2, <2>4, <2>5, <2>6, <4>1, MeasuredOneMore
    <3>2. PICK x, y, k : x = SumOf(Lengths(frames)) /\ y = SumOf(Lengths(g)) /\ k = Len(q) OBVIOUS
    <3>3. taken = n + x /\ k = n - size /\ y = x + size /\ x \in Nat BY <1>1, <1>2, <1>3, <3>1, <3>2 DEF Counted
    <3>4. taken = k + y BY <1>3, <3>3
    <3> QED BY <1>5, <2>6, <3>2, <3>4 DEF Counted
  <2> QED BY <1>9, <1>10, <2>8, <2>9, <2>10, <2>11 DEF TapInv
<1> QED BY <1>11, <1>12

\* A full line or chunk goes out, which a closed socket no longer has.
LEMMA LinePart == ASSUME TapInv, EmitLine PROVE TapInv'
<1>1. /\ ~over /\ CutAt(buffer) > 0 /\ Emit(CutAt(buffer)) /\ UNCHANGED <<taken, socket, asking, lineEmpty>>
  BY DEF EmitLine, Cutting
<1>2. buffer \in Seq(Bytes) /\ socket \in {"open", "closing", "closed"} BY DEF TapInv, TapTyped
<1>3. PICK c : c = CutAt(buffer) OBVIOUS
<1>4. c \in 0 .. Len(buffer) BY <1>2, <1>3, Cut
<1>5. socket # "closed"
  <2> SUFFICES ASSUME socket = "closed" PROVE FALSE OBVIOUS
  <2>1. buffer = <<>> BY <1>1 DEF TapInv, Emptied
  <2>2. Len(buffer) = 0 BY <2>1, EmptySeq
  <2> QED BY <1>1, <1>3, <1>4, <2>2
<1> QED BY <1>1, <1>2, <1>3, <1>4, <1>5, EmitPart

\* The rest of the buffer goes out in chunks.
LEMMA ClosePart == ASSUME TapInv, CloseTap PROVE TapInv'
<1>1. socket # "closed" /\ UNCHANGED <<taken, asking, lineEmpty>> BY DEF CloseTap
<1>2. TapTyped /\ Hidden /\ Rising /\ Counted /\ Guarded BY DEF TapInv
<1>3. CASE buffer # <<>> /\ ~over /\ Emit(Lesser(Len(buffer), ChunkBytes)) /\ socket' = "closing"
  <2>1. PICK c : c = Lesser(Len(buffer), ChunkBytes) OBVIOUS
  <2>2. Len(buffer) \in Nat /\ ChunkBytes \in Nat BY <1>2, LenProperties, TapAssumption DEF TapTyped
  <2>3. c \in 0 .. Len(buffer) BY <2>1, <2>2 DEF Lesser
  <2> QED BY <1>1, <1>3, <2>1, <2>3, EmitPart
<1>4. CASE /\ ~(buffer # <<>> /\ ~over)
           /\ socket' = "closed" /\ UNCHANGED <<buffer, armed, seq, rowsUsed, over, frames>>
  <2>1. TapTyped' BY <1>1, <1>2, <1>4 DEF TapTyped
  <2>2. Hidden' /\ Rising' BY <1>2, <1>4 DEF Hidden, Rising
  <2>3. Counted' BY <1>1, <1>2, <1>4 DEF Counted
  <2>4. Guarded' BY <1>1, <1>2, <1>4 DEF Guarded
  <2>5. Emptied' BY <1>4 DEF Emptied
  <2> QED BY <2>1, <2>2, <2>3, <2>4, <2>5 DEF TapInv
<1> QED BY <1>3, <1>4 DEF CloseTap

\* What is typed is taken as the node reads it, or a budget ends the capture.
LEMMA ClientPart == ASSUME TapInv, NEW data \in Inputs, FromClient(data) PROVE TapInv'
<1>1. TapTyped /\ Hidden /\ Rising /\ Counted /\ Guarded BY DEF TapInv
<1>2. PICK node : node = NodeReads(data) OBVIOUS
<1>3. /\ socket = "open" /\ asking' = node.asking /\ lineEmpty' = node.empty
      /\ IF over THEN UNCHANGED <<buffer, taken, over>>
         ELSE /\ taken' = taken + Len(data)
              /\ over' \in {taken' > MaxTyped, TRUE}
              /\ buffer' = IF over' THEN buffer ELSE buffer \o node.read
      /\ UNCHANGED <<armed, seq, rowsUsed, socket, frames>>
  BY <1>2 DEF FromClient
<1>4. data \in Seq(Kinds) /\ Len(data) \in Nat
  <2>1. data \in Seq(Kinds) BY TapAssumption DEF Kinds
  <2> QED BY <2>1, LenProperties
<1>5. /\ buffer \in Seq(Bytes) /\ armed \in BOOLEAN /\ asking \in BOOLEAN /\ lineEmpty \in BOOLEAN
  BY <1>1 DEF TapTyped
<1>11. /\ node \in ReaderStates /\ Len(node.read) = Len(data)
       /\ buffer \o node.read \in Seq(Bytes)
       /\ Safe(buffer, armed, asking, lineEmpty) => Safe(buffer \o node.read, armed, node.asking, node.empty)
  BY <1>2, <1>4, <1>5, Read
<1>6. node.asking \in BOOLEAN /\ node.empty \in BOOLEAN BY <1>11 DEF ReaderStates
<1>7. Hidden' /\ Rising' BY <1>1, <1>3 DEF Hidden, Rising
<1>8. Emptied' BY <1>3 DEF Emptied
<1>9. CASE over
  <2>1. UNCHANGED <<buffer, taken, over>> BY <1>3, <1>9
  <2>2. TapTyped' BY <1>1, <1>3, <1>6, <2>1 DEF TapTyped
  <2>3. Counted' /\ Guarded' BY <1>9, <2>1 DEF Counted, Guarded
  <2> QED BY <1>7, <1>8, <2>2, <2>3 DEF TapInv
<1>10. CASE ~over
  <2>1. /\ taken' = taken + Len(data) /\ over' \in {taken' > MaxTyped, TRUE}
        /\ buffer' = IF over' THEN buffer ELSE buffer \o node.read
    BY <1>3, <1>10
  <2>2. over' \in BOOLEAN
    <3>1. (taken' > MaxTyped) \in BOOLEAN OBVIOUS
    <3> QED BY <2>1, <3>1
  <2>3. taken' \in Nat BY <1>1, <1>4, <2>1 DEF TapTyped
  <2>4. Safe(buffer, armed, asking, lineEmpty) BY <1>1, <1>10 DEF Guarded
  <2>5. /\ node \in ReaderStates /\ Len(node.read) = Len(data)
        /\ buffer \o node.read \in Seq(Bytes)
        /\ Safe(buffer \o node.read, armed, node.asking, node.empty)
    BY <1>11, <2>4
  <2>6. TapTyped'
    <3>1. buffer' \in Seq(Bytes) BY <1>5, <2>1, <2>5
    <3> QED BY <1>1, <1>3, <1>6, <2>2, <2>3, <3>1 DEF TapTyped
  <2>7. Guarded'
    <3> SUFFICES ASSUME ~over' PROVE Safe(buffer', armed', asking', lineEmpty') BY DEF Guarded
    <3>1. buffer' = buffer \o node.read BY <2>1
    <3> QED BY <1>3, <2>5, <3>1
  <2>8. Counted'
    <3> SUFFICES ASSUME ~over' PROVE taken' = Len(buffer') + SumOf(Lengths(frames')) BY DEF Counted
    <3>1. PICK x, n, d : x = SumOf(Lengths(frames)) /\ n = Len(buffer) /\ d = Len(data) OBVIOUS
    <3>2. Len(buffer') = n + d
      <4>1. node.read \in Seq(Bytes) BY <2>5 DEF ReaderStates
      <4>2. Len(buffer \o node.read) = Len(buffer) + Len(node.read) BY <1>5, <4>1, ConcatProperties
      <4>3. buffer' = buffer \o node.read BY <2>1
      <4> QED BY <2>5, <3>1, <4>2, <4>3
    <3>3. n \in Nat /\ d \in Nat BY <1>4, <1>5, <3>1, LenProperties
    <3>4. x \in Nat
      <4>1. Lengths(frames) \in Seq(Nat) BY <1>1, Measured DEF TapTyped
      <4> QED BY <3>1, <4>1, SumIsNat
    <3>5. taken = n + x /\ taken' = taken + d BY <1>1, <1>10, <2>1, <3>1 DEF Counted
    <3>6. taken' = (n + d) + x BY <3>3, <3>4, <3>5
    <3>7. frames' = frames BY <1>3
    <3> QED BY <3>1, <3>2, <3>6, <3>7
  <2> QED BY <1>7, <1>8, <2>6, <2>7, <2>8 DEF TapInv
<1> QED BY <1>9, <1>10

\* A prompt arms the masking before the answer is typed.
LEMMA NodePart == ASSUME TapInv, NEW prompt \in BOOLEAN, FromNode(prompt) PROVE TapInv'
<1>1. TapTyped /\ Hidden /\ Rising /\ Counted /\ Guarded BY DEF TapInv
<1>2. /\ socket = "open" /\ ~Cutting
      /\ armed' = (armed \/ prompt) /\ asking' = (asking \/ prompt)
      /\ NodeRow
      /\ UNCHANGED <<buffer, taken, socket, frames, lineEmpty>>
  BY DEF FromNode
<1>3. seq \in Nat /\ rowsUsed \in Nat /\ MaxRows \in Nat /\ seq <= rowsUsed /\ rowsUsed <= MaxRows
  BY <1>1, TapAssumption DEF TapTyped
<1>4. /\ over' \in BOOLEAN /\ (over => over')
      /\ rowsUsed' \in 0 .. MaxRows /\ seq' \in 0 .. rowsUsed' /\ seq <= seq' /\ seq' \in Nat
  <2>1. over \in BOOLEAN BY <1>1 DEF TapTyped
  <2>2. CASE UNCHANGED <<over, rowsUsed, seq>> BY <1>3, <2>1, <2>2
  <2>3. CASE ~over /\ over' = TRUE /\ UNCHANGED <<rowsUsed, seq>> BY <1>3, <2>3
  <2>4. CASE /\ ~over /\ rowsUsed < MaxRows
             /\ rowsUsed' = rowsUsed + 1 /\ seq' \in {seq, seq + 1} /\ UNCHANGED over
    <3>1. over' \in BOOLEAN /\ (over => over') BY <2>1, <2>4
    <3>2. seq' = seq \/ seq' = seq + 1 BY <2>4
    <3> QED BY <1>3, <2>4, <3>1, <3>2
  <2> QED BY <1>2, <2>2, <2>3, <2>4 DEF NodeRow
<1>5. TapTyped'
  <2>1. armed' \in BOOLEAN /\ asking' \in BOOLEAN BY <1>2
  <2> QED BY <1>1, <1>2, <1>4, <2>1 DEF TapTyped
<1>6. Hidden' BY <1>1, <1>2 DEF Hidden
<1>7. Rising'
  <2>1. \A i \in 1 .. Len(frames) : frames[i].seq <= seq'
    <3> SUFFICES ASSUME NEW i \in 1 .. Len(frames) PROVE frames[i].seq <= seq' OBVIOUS
    <3>1. frames[i] \in Recorded BY <1>1, ElementOfSeq DEF TapTyped
    <3>2. frames[i].seq \in Nat /\ frames[i].seq <= seq BY <1>1, <3>1 DEF Recorded, Rising
    <3> QED BY <1>3, <1>4, <3>2
  <2> QED BY <1>1, <1>2, <2>1 DEF Rising
<1>8. Counted' BY <1>1, <1>2, <1>4 DEF Counted
<1>9. Guarded'
  <2> SUFFICES ASSUME ~over' PROVE Safe(buffer', armed', asking', lineEmpty') BY DEF Guarded
  <2>1. ~over BY <1>4
  <2>2. Safe(buffer, armed, asking, lineEmpty) BY <1>1, <2>1 DEF Guarded
  <2>3. buffer \in Seq(Bytes) /\ armed \in BOOLEAN /\ asking \in BOOLEAN BY <1>1 DEF TapTyped
  <2>4. \A i \in 1 .. Len(buffer) : buffer[i].what # "break"
    <3>1. PICK c : c = CutAt(buffer) OBVIOUS
    <3>2. c \in 0 .. Len(buffer) /\ (c = 0 => \A i \in 1 .. Len(buffer) : buffer[i].what # "break")
      BY <2>3, <3>1, Cut
    <3>3. ~(c > 0) BY <1>2, <2>1, <3>1 DEF Cutting
    <3>4. c = 0 BY <3>2, <3>3
    <3> QED BY <3>2, <3>4
  <2>5. (armed \/ prompt => armed') /\ (asking' => asking \/ prompt) BY <1>2
  <2>6. Safe(buffer, armed', asking', lineEmpty) BY <2>2, <2>3, <2>4, <2>5, SafePrompt
  <2> QED BY <1>2, <2>6
<1>10. Emptied' BY <1>2 DEF Emptied
<1> QED BY <1>5, <1>6, <1>7, <1>8, <1>9, <1>10 DEF TapInv

\* Every step of the socket keeps the invariant.
LEMMA TapGoesOn == ASSUME TapInv, [TapNext]_tapVars PROVE TapInv'
<1>1. ASSUME NEW data \in Inputs, FromClient(data) PROVE TapInv' BY <1>1, ClientPart
<1>2. ASSUME NEW prompt \in BOOLEAN, FromNode(prompt) PROVE TapInv' BY <1>2, NodePart
<1>3. CASE UNCHANGED tapVars
  <2>1. UNCHANGED <<buffer, taken, armed, seq, rowsUsed, over, socket, frames, asking, lineEmpty>>
    BY <1>3 DEF tapVars
  <2>2. TapTyped' BY <2>1 DEF TapInv, TapTyped
  <2>3. Hidden' /\ Rising' BY <2>1 DEF TapInv, Hidden, Rising
  <2>4. Counted' BY <2>1 DEF TapInv, Counted
  <2>5. Guarded' BY <2>1 DEF TapInv, Guarded
  <2>6. Emptied' BY <2>1 DEF TapInv, Emptied
  <2> QED BY <2>2, <2>3, <2>4, <2>5, <2>6 DEF TapInv
<1> QED BY <1>1, <1>2, <1>3, LinePart, ClosePart DEF TapNext

LEMMA TapHides == TapInv => SecretsMasked
<1> SUFFICES ASSUME TapInv PROVE SecretsMasked OBVIOUS
<1>1. TapTyped /\ Hidden /\ Rising /\ Counted /\ Emptied BY DEF TapInv
<1>2. TapTypeOK BY <1>1 DEF TapTyped, TapTypeOK, Bytes, Kinds
<1>3. frames \in Seq(Recorded) /\ DOMAIN frames = 1 .. Len(frames) BY <1>1, LenProperties DEF TapTyped
<1>4. ASSUME NEW i \in DOMAIN frames, NEW j \in DOMAIN frames[i].payload
      PROVE  LET b == frames[i].payload[j] IN b.what = "key" /\ b.secret => ~b.clear
  <2>1. i \in 1 .. Len(frames) BY <1>3
  <2>2. frames[i] \in Recorded BY <1>3, <2>1, ElementOfSeq
  <2>3. PICK p : p = frames[i].payload OBVIOUS
  <2>4. p \in Seq(Bytes) BY <2>2, <2>3 DEF Recorded
  <2>5. j \in 1 .. Len(p) BY <2>3, <2>4, LenProperties
  <2>6. HidesAll(p) BY <1>1, <2>1, <2>3 DEF Hidden
  <2> QED BY <2>3, <2>5, <2>6 DEF HidesAll
<1>5. \A i, j \in DOMAIN frames : i < j => frames[i].seq < frames[j].seq BY <1>1, <1>3 DEF Rising
<1>6. socket = "closed" /\ ~over => taken = SumOf([n \in DOMAIN frames |-> Len(frames[n].payload)])
  <2> SUFFICES ASSUME socket = "closed", ~over PROVE taken = SumOf(Lengths(frames)) BY DEF Lengths
  <2>1. Len(buffer) = 0
    <3>1. buffer = <<>> BY <1>1 DEF Emptied
    <3> QED BY <3>1, EmptySeq
  <2>2. PICK x : x = SumOf(Lengths(frames)) OBVIOUS
  <2>3. taken = 0 + x BY <1>1, <2>1, <2>2 DEF Counted
  <2>4. x \in Nat
    <3>1. Lengths(frames) \in Seq(Nat) BY <1>3, Measured
    <3> QED BY <2>2, <3>1, SumIsNat
  <2> QED BY <2>2, <2>3, <2>4
<1> QED BY <1>2, <1>4, <1>5, <1>6 DEF SecretsMasked

\* The console capture of gns3-service loses no record unseen, commits none twice unless a
\* stop cut off its commit, keeps within the bounds of its backlog, and stores nothing in
\* clear that was typed at a password prompt, for any items, sizes, batches, chunks,
\* budgets and inputs (console_capture.py).
THEOREM CaptureAlwaysSound == FlushSpec /\ TapSpec => []CaptureSound
<1>1. FlushSpec => []FlushInv
  <2>1. FlushInit => FlushInv BY FlushStarts
  <2>2. FlushInv /\ [FlushNext]_flushVars => FlushInv' BY FlushGoesOn
  <2> QED BY <2>1, <2>2, PTL DEF FlushSpec
<1>2. TapSpec => []TapInv
  <2>1. TapInit => TapInv BY TapStarts
  <2>2. TapInv /\ [TapNext]_tapVars => TapInv' BY TapGoesOn
  <2> QED BY <2>1, <2>2, PTL DEF TapSpec
<1>3. FlushInv /\ TapInv => CaptureSound BY FlushAccounts, TapHides DEF CaptureSound
<1> QED BY <1>1, <1>2, <1>3, PTL
(* The relay of a console *)

Lines == Seq(Tokens)
Answers == [command : Lines, response : Seq(Lines)]
Parsers == [open : Lines, response : Seq(Lines), done : Seq(Answers)]
Readings == [line : Lines, cr : BOOLEAN, parser : Parsers]

\* Sequences that end with an element more or less.
LEMMA Shortened ==
  ASSUME NEW S, NEW s \in Seq(S), s # <<>>
  PROVE  /\ Len(s) \in Nat /\ Len(s) >= 1
         /\ Front(s) \in Seq(S) /\ Len(Front(s)) = Len(s) - 1
         /\ \A i \in 1 .. (Len(s) - 1) : Front(s)[i] = s[i]
         /\ (Front(s) = <<>>) = (Len(s) = 1)
         /\ Head(s) = s[1] /\ s[1] \in S
<1>1. PICK n : n = Len(s) OBVIOUS
<1>2. n \in Nat /\ n >= 1 /\ \A i \in 1 .. n : s[i] \in S
  BY <1>1, LenProperties, ElementOfSeq, EmptySeq
<1> DEFINE m == n - 1
<1>3. m \in Int /\ 1 \in Int /\ \A i \in 1 .. m : s[i] \in S BY <1>2
<1>4. Front(s) = SubSeq(s, 1, m) BY <1>1 DEF Front
<1> HIDE DEF m
<1>5. /\ SubSeq(s, 1, m) \in Seq(S) /\ Len(SubSeq(s, 1, m)) = IF 1 <= m THEN m - 1 + 1 ELSE 0
      /\ \A i \in 1 .. m - 1 + 1 : SubSeq(s, 1, m)[i] = s[1 + i - 1]
  BY <1>3, SubSeqProperties
<1>6. Front(s) \in Seq(S) /\ Len(Front(s)) = n - 1 /\ \A i \in 1 .. (n - 1) : Front(s)[i] = s[i]
  <2>1. \A i \in 1 .. m : i \in 1 .. m - 1 + 1 /\ 1 + i - 1 = i BY <1>3
  <2>2. Len(SubSeq(s, 1, m)) = m BY <1>2, <1>5 DEF m
  <2>3. \A i \in 1 .. m : SubSeq(s, 1, m)[i] = s[i] BY <1>5, <2>1
  <2> QED BY <1>4, <1>5, <2>2, <2>3 DEF m
<1>7. (Front(s) = <<>>) = (n = 1) BY <1>2, <1>6, EmptySeq
<1>8. Head(s) = s[1] /\ s[1] \in S BY <1>2, HeadTailProperties
<1> QED BY <1>1, <1>2, <1>6, <1>7, <1>8

LEMMA EchoedTyped ==
  ASSUME NEW line \in Lines, NEW t \in Tokens PROVE Echoed(line, t) \in Lines
<1>1. CASE t # "erase" BY <1>1, AppendProperties DEF Echoed, Lines
<1>2. CASE t = "erase" /\ line # <<>> BY <1>2, Shortened DEF Echoed, Lines
<1>3. CASE t = "erase" /\ line = <<>> BY <1>3 DEF Echoed, Lines
<1> QED BY <1>1, <1>2, <1>3

LEMMA CommandTyped ==
  ASSUME NEW line \in Lines PROVE CommandOf(line) \in Lines
<1> DEFINE typed == {i \in DOMAIN line : line[i] # "prompt"}
<1>1. Len(line) \in Nat /\ DOMAIN line = 1 .. Len(line) /\ \A i \in 1 .. Len(line) : line[i] \in Tokens
  BY LenProperties, ElementOfSeq DEF Lines
<1>2. CASE typed = {} BY <1>2 DEF CommandOf, Lines
<1>3. CASE typed # {}
  <2> DEFINE a == Min(typed)
  <2>1. typed \subseteq Nat BY <1>1
  <2>2. \E x \in typed : \A y \in typed : x <= y
    <3> HIDE DEF typed
    <3> QED BY <1>3, <2>1, Smallest
  <2>3. a \in typed BY <2>2 DEF Min
  <2>4. a \in DOMAIN line BY <2>3
  <2>5. CommandOf(line) = SubSeq(line, a, Len(line)) BY <1>3 DEF CommandOf
  <2> HIDE DEF a
  <2>6. a \in Int /\ Len(line) \in Int /\ \A i \in a .. Len(line) : line[i] \in Tokens BY <1>1, <2>4
  <2> QED BY <2>5, <2>6, SubSeqProperties DEF Lines
<1> QED BY <1>2, <1>3

LEMMA CloseTyped ==
  ASSUME NEW p \in Parsers PROVE CloseCommand(p) \in Parsers /\ CloseCommand(p).open = <<>>
<1>1. CASE p.open = <<>> BY <1>1 DEF CloseCommand
<1>2. CASE p.open # <<>>
  <2> DEFINE answer == [command |-> p.open, response |-> p.response]
  <2>1. answer \in Answers /\ p.done \in Seq(Answers) BY DEF Answers, Parsers
  <2>2. CloseCommand(p) = [open |-> <<>>, response |-> <<>>, done |-> Append(p.done, answer)]
    BY <1>2 DEF CloseCommand
  <2> HIDE DEF answer
  <2>3. Append(p.done, answer) \in Seq(Answers) BY <2>1, AppendProperties
  <2> QED BY <2>2, <2>3 DEF Parsers, Lines
<1> QED BY <1>1, <1>2

LEMMA ConsumeTyped ==
  ASSUME NEW p \in Parsers, NEW line \in Lines PROVE ConsumeLine(p, line) \in Parsers
<1>1. CASE ~StartsWithPrompt(line) /\ p.open = <<>> BY <1>1 DEF ConsumeLine
<1>2. CASE ~StartsWithPrompt(line) /\ p.open # <<>>
  <2>1. Append(p.response, line) \in Seq(Lines) BY AppendProperties DEF Parsers
  <2> QED BY <1>2, <2>1 DEF ConsumeLine, Parsers
<1>3. CASE StartsWithPrompt(line)
  <2>1. ConsumeLine(p, line) = [CloseCommand(p) EXCEPT !.open = CommandOf(line)] BY <1>3 DEF ConsumeLine
  <2>2. CloseCommand(p) \in Parsers /\ CommandOf(line) \in Lines BY CloseTyped, CommandTyped
  <2> QED BY <2>1, <2>2 DEF Parsers
<1> QED BY <1>1, <1>2, <1>3

LEMMA TakeTyped ==
  ASSUME NEW s \in Readings, NEW t \in Tokens PROVE TakeToken(s, t) \in Readings
<1>1. s.line \in Lines /\ s.cr \in BOOLEAN /\ s.parser \in Parsers BY DEF Readings
<1>2. CASE t = "lf" /\ s.cr BY <1>2 DEF TakeToken, Readings
<1>3. CASE ~(t = "lf" /\ s.cr) /\ t \in {"cr", "lf"}
  <2> DEFINE after == ConsumeLine(s.parser, s.line)
             isCr == t = "cr"
  <2>1. after \in Parsers /\ isCr \in BOOLEAN /\ <<>> \in Lines BY <1>1, ConsumeTyped DEF Lines
  <2>2. TakeToken(s, t) = [line |-> <<>>, cr |-> isCr, parser |-> after] BY <1>3 DEF TakeToken
  <2> HIDE DEF after, isCr
  <2> QED BY <2>1, <2>2 DEF Readings
<1>4. CASE ~(t = "lf" /\ s.cr) /\ t \notin {"cr", "lf"}
  <2> DEFINE now == Echoed(s.line, t)
  <2>1. now \in Lines BY <1>1, EchoedTyped
  <2>2. TakeToken(s, t) = [s EXCEPT !.line = now, !.cr = FALSE] BY <1>4 DEF TakeToken
  <2> HIDE DEF now
  <2> QED BY <2>1, <2>2 DEF Readings
<1> QED BY <1>2, <1>3, <1>4

\* What is taken of a text goes token by token.
TakesOn(text, s, n, N) ==
  /\ Taken(text, s, n, n) = s
  /\ \A k \in 0 .. N : Taken(text, s, n, n + k) \in Readings
  /\ \A k \in 1 .. N : Taken(text, s, n, n + k) = TakeToken(Taken(text, s, n, n + (k - 1)), text[n + k])

\* The function that Taken is the end of.
LEMMA TakenRuns ==
  ASSUME NEW text \in Seq(Tokens), NEW s \in Readings, NEW n \in Nat, NEW N \in Nat, n + N <= Len(text),
         NEW f \in [0 .. N -> Readings], f[0] = s, \A k \in 1 .. N : f[k] = TakeToken(f[k - 1], text[n + k])
  PROVE  Taken(text, s, n, n + N) = f[N]
<1> DEFINE m == n + N
           rec(g) == [k \in n .. m |-> IF k = n THEN s ELSE TakeToken(g[k - 1], text[k])]
           at == CHOOSE g : g = rec(g)
<1>1. m \in Nat /\ m - n = N BY DEF m
<1>2. PICK g : g = [k \in n .. m |-> f[k - n]] OBVIOUS
<1>3. g = rec(g)
  <2>1. ASSUME NEW k \in n .. m PROVE g[k] = rec(g)[k]
    <3>1. k \in Int /\ k >= n /\ k <= m BY <1>1
    <3>2. g[k] = f[k - n] BY <1>2
    <3>3. CASE k = n
      <4>1. k - n = 0 BY <3>1, <3>3
      <4> QED BY <3>2, <3>3, <4>1
    <3>4. CASE k # n
      <4>1. k - n \in 1 .. N /\ k - 1 \in n .. m /\ (k - 1) - n = (k - n) - 1 /\ n + (k - n) = k
        BY <3>1, <3>4, <1>1
      <4>2. f[k - n] = TakeToken(f[(k - n) - 1], text[n + (k - n)]) BY <4>1
      <4>3. g[k - 1] = f[(k - n) - 1]
        <5>1. g[k - 1] = f[(k - 1) - n] BY <4>1, <1>2
        <5> QED BY <4>1, <5>1
      <4>4. g[k] = TakeToken(g[k - 1], text[k]) BY <3>2, <4>1, <4>2, <4>3
      <4>5. rec(g)[k] = TakeToken(g[k - 1], text[k]) BY <3>4
      <4> QED BY <4>4, <4>5
    <3> QED BY <3>3, <3>4
  <2>2. g = [k \in n .. m |-> g[k]] BY <1>2
  <2>3. rec(g) = [k \in n .. m |-> rec(g)[k]] OBVIOUS
  <2> HIDE DEF rec
  <2> QED BY <2>1, <2>2, <2>3
<1>4. at = rec(at)
  <2> HIDE DEF rec
  <2> QED BY <1>3
<1>5. Taken(text, s, n, m) = at[m] BY DEF Taken
<1> HIDE DEF at
<1>6. at[n] = s /\ \A k \in n .. m : k # n => at[k] = TakeToken(at[k - 1], text[k])
  <2>1. n \in n .. m BY <1>1
  <2>2. \A k \in n .. m : at[k] = IF k = n THEN s ELSE TakeToken(at[k - 1], text[k])
    <3>1. \A k \in n .. m : at[k] = rec(at)[k] BY <1>4
    <3> QED BY <3>1
  <2> QED BY <2>1, <2>2
<1> DEFINE P == {k \in 0 .. N : at[n + k] = f[k]}
<1>7. 0 \in P
  <2>1. n + 0 = n /\ 0 \in 0 .. N OBVIOUS
  <2> QED BY <1>6, <2>1
<1>8. ASSUME NEW k \in 1 .. N, k - 1 \in P PROVE k \in P
  <2>1. n + k \in n .. m /\ n + k # n /\ (n + k) - 1 = n + (k - 1) /\ k \in 0 .. N BY <1>1
  <2>2. at[n + (k - 1)] = f[k - 1] BY <1>8
  <2>3. at[n + k] = TakeToken(at[(n + k) - 1], text[n + k]) BY <1>6, <2>1
  <2>4. f[k] = TakeToken(f[k - 1], text[n + k]) OBVIOUS
  <2>5. at[n + k] = f[k] BY <2>1, <2>2, <2>3, <2>4
  <2> QED BY <2>1, <2>5
<1>9. 0 .. N \subseteq P
  <2> HIDE DEF P
  <2> QED BY <1>7, <1>8, StepByStep
<1>10. N \in P BY <1>9
<1> QED BY <1>5, <1>10

LEMMA TakenSteps ==
  ASSUME NEW text \in Seq(Tokens), NEW s \in Readings, NEW n \in Nat, NEW N \in Nat, n + N <= Len(text)
  PROVE  TakesOn(text, s, n, N)
<1> DEFINE R == {p \in (1 .. N) \X Readings \X Readings : p[3] = TakeToken(p[2], text[n + p[1]])}
<1>1. \A k \in 1 .. N, a, b \in Readings : <<k, a, b>> \in R <=> b = TakeToken(a, text[n + k]) OBVIOUS
<1>2. \A k \in 1 .. N : text[n + k] \in Tokens
  <2>1. Len(text) \in Nat /\ \A i \in 1 .. Len(text) : text[i] \in Tokens BY LenProperties, ElementOfSeq
  <2>2. \A k \in 1 .. N : n + k \in 1 .. Len(text) BY <2>1
  <2> QED BY <2>1, <2>2
<1> HIDE DEF R
<1>3. GoesOn(R, Readings, N)
  <2> SUFFICES ASSUME NEW k \in 1 .. N, NEW x \in Readings PROVE \E y \in Readings : <<k, x, y>> \in R BY DEF GoesOn
  <2>1. TakeToken(x, text[n + k]) \in Readings BY <1>2, TakeTyped
  <2> QED BY <1>1, <2>1
<1>4. CarriedOn(R, Readings, s, N) BY <1>3, Iterates
<1>5. PICK f \in [0 .. N -> Readings] : f[0] = s /\ \A k \in 1 .. N : <<k, f[k - 1], f[k]>> \in R
  BY <1>4 DEF CarriedOn
<1>6. \A k \in 1 .. N : f[k] = TakeToken(f[k - 1], text[n + k])
  <2>1. \A k \in 1 .. N : f[k - 1] \in Readings /\ f[k] \in Readings
    <3>1. \A k \in 1 .. N : k - 1 \in 0 .. N /\ k \in 0 .. N OBVIOUS
    <3> QED BY <3>1
  <2> QED BY <1>1, <1>5, <2>1
<1>7. ASSUME NEW k \in 0 .. N PROVE Taken(text, s, n, n + k) = f[k]
  <2>1. PICK g : g = [j \in 0 .. k |-> f[j]] OBVIOUS
  <2>2. k \in Nat /\ n + k <= Len(text)
    <3>1. Len(text) \in Nat BY LenProperties
    <3> QED BY <3>1
  <2>3. /\ g \in [0 .. k -> Readings] /\ g[0] = s /\ g[k] = f[k]
        /\ \A j \in 1 .. k : g[j] = TakeToken(g[j - 1], text[n + j])
    <3>1. \A j \in 0 .. k : j \in 0 .. N OBVIOUS
    <3>2. \A j \in 0 .. k : g[j] = f[j] BY <2>1
    <3>3. \A j \in 1 .. k : j \in 1 .. N /\ j \in 0 .. k /\ j - 1 \in 0 .. k OBVIOUS
    <3>4. g \in [0 .. k -> Readings] BY <2>1, <3>1
    <3>5. 0 \in 0 .. k /\ k \in 0 .. k OBVIOUS
    <3>6. \A j \in 1 .. k : g[j] = TakeToken(g[j - 1], text[n + j]) BY <1>6, <3>2, <3>3
    <3> QED BY <1>5, <3>2, <3>4, <3>5, <3>6
  <2>4. Taken(text, s, n, n + k) = g[k] BY <2>2, <2>3, TakenRuns
  <2> QED BY <2>3, <2>4
<1>8. Taken(text, s, n, n) = s
  <2>1. 0 \in 0 .. N /\ n + 0 = n OBVIOUS
  <2> QED BY <1>5, <1>7, <2>1
<1>9. \A k \in 1 .. N : Taken(text, s, n, n + k) = TakeToken(Taken(text, s, n, n + (k - 1)), text[n + k])
  <2>1. \A k \in 1 .. N : k \in 0 .. N /\ k - 1 \in 0 .. N OBVIOUS
  <2> QED BY <1>6, <1>7, <2>1
<1> QED BY <1>5, <1>7, <1>8, <1>9 DEF TakesOn

\* What is kept of the lines of a response, line by line.
KeptBy(f, r) ==
  /\ f \in [0 .. Len(r) -> Seq(Lines)] /\ f[0] = <<>>
  /\ \A k \in 1 .. Len(r) : f[k] = IF r[k] = <<>> THEN f[k - 1] ELSE Append(f[k - 1], r[k])

LEMMA Keeps ==
  ASSUME NEW r \in Seq(Lines) PROVE \E f : KeptBy(f, r) /\ NoBlanks(r) = f[Len(r)]
<1> DEFINE N == Len(r)
           next(k, a) == IF r[k] = <<>> THEN a ELSE Append(a, r[k])
           R == {p \in (1 .. N) \X Seq(Lines) \X Seq(Lines) : p[3] = next(p[1], p[2])}
           rec(f) == [n \in 0 .. N |-> IF n = 0 THEN <<>>
                                       ELSE IF r[n] = <<>> THEN f[n - 1] ELSE Append(f[n - 1], r[n])]
           sifted == CHOOSE f : f = rec(f)
<1>1. N \in Nat /\ \A n \in 1 .. N : r[n] \in Lines BY LenProperties, ElementOfSeq
<1>2. \A n \in 1 .. N, a, b \in Seq(Lines) : <<n, a, b>> \in R <=> b = next(n, a) OBVIOUS
<1> HIDE DEF R
<1>3. PICK f \in [0 .. N -> Seq(Lines)] : f[0] = <<>> /\ \A n \in 1 .. N : <<n, f[n - 1], f[n]>> \in R
  <2>1. PICK M, T, base : M = N /\ T = Seq(Lines) /\ base = <<>> OBVIOUS
  <2>2. GoesOn(R, T, M)
    <3> SUFFICES ASSUME NEW k \in 1 .. M, NEW x \in T PROVE \E y \in T : <<k, x, y>> \in R BY DEF GoesOn
    <3>1. next(k, x) \in T BY <1>1, <2>1, AppendProperties
    <3> QED BY <1>2, <2>1, <3>1
  <2>3. base \in T BY <2>1
  <2>4. CarriedOn(R, T, base, M) BY <1>1, <2>1, <2>2, <2>3, Iterates
  <2> QED BY <2>1, <2>4 DEF CarriedOn
<1>4. \A n \in 1 .. N : f[n] = next(n, f[n - 1])
  <2>1. \A n \in 1 .. N : n - 1 \in 0 .. N /\ n \in 0 .. N BY <1>1
  <2> HIDE DEF N, next
  <2>2. \A n \in 1 .. N : f[n - 1] \in Seq(Lines) /\ f[n] \in Seq(Lines) BY <2>1
  <2> QED BY <1>2, <1>3, <2>2
<1>5. f = rec(f)
  <2>1. \A n \in 0 .. N : f[n] = rec(f)[n]
    <3> SUFFICES ASSUME NEW n \in 0 .. N PROVE f[n] = rec(f)[n] OBVIOUS
    <3>1. CASE n = 0 BY <1>3, <3>1
    <3>2. CASE n # 0
      <4>1. n \in 1 .. N BY <1>1, <3>2
      <4> QED BY <1>4, <3>2, <4>1
    <3> QED BY <3>1, <3>2
  <2>2. f = [n \in 0 .. N |-> f[n]] OBVIOUS
  <2>3. rec(f) = [n \in 0 .. N |-> rec(f)[n]] OBVIOUS
  <2> HIDE DEF rec
  <2> QED BY <2>1, <2>2, <2>3
<1>6. sifted = rec(sifted)
  <2> HIDE DEF rec
  <2> QED BY <1>5
<1>7. NoBlanks(r) = sifted[N] BY DEF NoBlanks
<1> HIDE DEF sifted
<1>8. sifted[0] = <<>> /\ \A n \in 1 .. N : sifted[n] = next(n, sifted[n - 1])
  <2>1. \A n \in 1 .. N : n \in 0 .. N /\ n # 0 OBVIOUS
  <2>2. 0 \in 0 .. N BY <1>1
  <2>3. \A n \in 0 .. N : sifted[n] = rec(sifted)[n] BY <1>6
  <2> QED BY <2>1, <2>2, <2>3
<1>9. 0 .. N \subseteq {n \in 0 .. N : sifted[n] = f[n]}
  <2> DEFINE P == {n \in 0 .. N : sifted[n] = f[n]}
  <2>1. 0 \in P BY <1>1, <1>3, <1>8
  <2>2. \A n \in 1 .. N : n - 1 \in P => n \in P BY <1>4, <1>8
  <2> HIDE DEF P, N
  <2>3. 0 .. N \subseteq P BY <1>1, <2>1, <2>2, StepByStep
  <2> QED BY <2>3 DEF P
<1>10. sifted[N] = f[N] BY <1>1, <1>9
<1>11. KeptBy(f, r) BY <1>3, <1>4 DEF KeptBy
<1> QED BY <1>7, <1>10, <1>11

\* A line more is kept unless it is blank.
LEMMA NoBlanksMore ==
  ASSUME NEW r \in Seq(Lines), NEW line \in Lines
  PROVE  /\ NoBlanks(<<>>) = <<>> /\ NoBlanks(r) \in Seq(Lines)
         /\ NoBlanks(Append(r, line)) = IF line = <<>> THEN NoBlanks(r) ELSE Append(NoBlanks(r), line)
<1>1. PICK q, M : q = Append(r, line) /\ M = Len(r) OBVIOUS
<1>2. /\ M \in Nat /\ q \in Seq(Lines) /\ Len(q) = M + 1 /\ q[M + 1] = line
      /\ \A k \in 1 .. M : q[k] = r[k]
  BY <1>1, AppendProperties, LenProperties
<1>3. PICK f : KeptBy(f, r) /\ NoBlanks(r) = f[Len(r)] BY Keeps
<1>4. PICK g : KeptBy(g, q) /\ NoBlanks(q) = g[Len(q)] BY <1>2, Keeps
<1>5. /\ f[0] = <<>> /\ NoBlanks(r) = f[M] /\ f \in [0 .. M -> Seq(Lines)]
      /\ \A k \in 1 .. M : f[k] = IF r[k] = <<>> THEN f[k - 1] ELSE Append(f[k - 1], r[k])
  BY <1>1, <1>3 DEF KeptBy
<1>6. /\ g[0] = <<>> /\ NoBlanks(q) = g[M + 1]
      /\ \A k \in 1 .. M + 1 : g[k] = IF q[k] = <<>> THEN g[k - 1] ELSE Append(g[k - 1], q[k])
  BY <1>2, <1>4 DEF KeptBy
<1> DEFINE P == {k \in 0 .. M : g[k] = f[k]}
<1>7. 0 \in P BY <1>2, <1>5, <1>6
<1>8. ASSUME NEW k \in 1 .. M, k - 1 \in P PROVE k \in P
  <2>1. k \in 1 .. M + 1 /\ k \in 0 .. M BY <1>2
  <2>2. g[k - 1] = f[k - 1] BY <1>8
  <2>3. g[k] = IF q[k] = <<>> THEN g[k - 1] ELSE Append(g[k - 1], q[k]) BY <1>6, <2>1
  <2>4. f[k] = IF r[k] = <<>> THEN f[k - 1] ELSE Append(f[k - 1], r[k]) BY <1>5
  <2>5. q[k] = r[k] BY <1>2
  <2>6. g[k] = f[k] BY <2>2, <2>3, <2>4, <2>5
  <2> QED BY <2>1, <2>6
<1>9. 0 .. M \subseteq P
  <2> HIDE DEF P
  <2> QED BY <1>2, <1>7, <1>8, StepByStep
<1>10. g[M] = f[M] BY <1>2, <1>9
<1>11. g[M + 1] = IF q[M + 1] = <<>> THEN g[M] ELSE Append(g[M], q[M + 1])
  <2>1. M + 1 \in 1 .. M + 1 /\ (M + 1) - 1 = M BY <1>2
  <2>2. g[M + 1] = IF q[M + 1] = <<>> THEN g[(M + 1) - 1] ELSE Append(g[(M + 1) - 1], q[M + 1]) BY <1>6, <2>1
  <2> QED BY <2>1, <2>2
<1>12. NoBlanks(<<>>) = <<>>
  <2>1. PICK e, S : e = <<>> /\ S = Lines OBVIOUS
  <2>2. e \in Seq(S) /\ Len(e) = 0 BY <2>1
  <2>3. PICK h : KeptBy(h, e) /\ NoBlanks(e) = h[Len(e)] BY <2>1, <2>2, Keeps
  <2> QED BY <2>1, <2>2, <2>3 DEF KeptBy
<1>13. M \in 0 .. M /\ f[M] \in Seq(Lines) BY <1>2, <1>5
<1> QED BY <1>1, <1>2, <1>5, <1>6, <1>10, <1>11, <1>12, <1>13

\* What is told of two lists of answers is the same when it is of each of them.
SameDone(d, e) ==
  /\ Len(d) = Len(e)
  /\ \A i \in 1 .. Len(d) :
       d[i].command = e[i].command /\ NoBlanks(d[i].response) = NoBlanks(e[i].response)

LEMMA ToldSame ==
  ASSUME NEW d \in Seq(Answers), NEW e \in Seq(Answers), SameDone(d, e) PROVE Told(d) = Told(e)
<1>1. PICK n : n = Len(d) /\ n = Len(e) BY DEF SameDone
<1>2. /\ DOMAIN d = 1 .. n /\ DOMAIN e = 1 .. n
      /\ \A i \in 1 .. n : d[i] \in Answers /\ e[i] \in Answers
  BY <1>1, LenProperties, ElementOfSeq
<1>3. ASSUME NEW i \in 1 .. n
      PROVE  [d[i] EXCEPT !.response = NoBlanks(@)] = [e[i] EXCEPT !.response = NoBlanks(@)]
  <2>1. PICK a, b, x : a = d[i] /\ b = e[i] /\ x = NoBlanks(a.response) OBVIOUS
  <2>2. a \in Answers /\ b \in Answers /\ a.command = b.command /\ NoBlanks(b.response) = x
    BY <1>1, <1>2, <1>3, <2>1 DEF SameDone
  <2>3. [a EXCEPT !.response = x] = [b EXCEPT !.response = x] BY <2>2 DEF Answers
  <2> QED BY <2>1, <2>2, <2>3
<1> QED BY <1>2, <1>3 DEF Told

LEMMA SameDoneMore ==
  ASSUME NEW d \in Seq(Answers), NEW e \in Seq(Answers), SameDone(d, e), NEW a \in Answers, NEW b \in Answers,
         a.command = b.command, NoBlanks(a.response) = NoBlanks(b.response)
  PROVE  SameDone(Append(d, a), Append(e, b))
<1>1. PICK n, p, q : n = Len(d) /\ p = Append(d, a) /\ q = Append(e, b) OBVIOUS
<1>2. n = Len(e) /\ n \in Nat BY <1>1, LenProperties DEF SameDone
<1>3. /\ Len(p) = n + 1 /\ Len(q) = n + 1 /\ p[n + 1] = a /\ q[n + 1] = b
      /\ \A i \in 1 .. n : p[i] = d[i] /\ q[i] = e[i]
  <2>1. Len(p) = n + 1 /\ p[n + 1] = a /\ \A i \in 1 .. n : p[i] = d[i]
    BY <1>1, AppendProperties
  <2>2. PICK m : m = Len(e) OBVIOUS
  <2>3. Len(q) = m + 1 /\ q[m + 1] = b /\ \A i \in 1 .. m : q[i] = e[i]
    BY <1>1, <2>2, AppendProperties
  <2> QED BY <1>2, <2>1, <2>2, <2>3
<1>4. ASSUME NEW i \in 1 .. n + 1
      PROVE  p[i].command = q[i].command /\ NoBlanks(p[i].response) = NoBlanks(q[i].response)
  <2>1. CASE i = n + 1 BY <1>3, <2>1
  <2>2. CASE i # n + 1
    <3>1. i \in 1 .. n BY <1>2, <2>2
    <3> QED BY <1>1, <1>3, <3>1 DEF SameDone
  <2> QED BY <2>1, <2>2
<1> QED BY <1>1, <1>3, <1>4 DEF SameDone

\* A parser p that is fed frames and the parser P of the output in one piece, at the same
\* line: p may have closed already, at the prompt of that line, what P has open.
Agree(p, P, line) ==
  /\ p \in Parsers /\ P \in Parsers
  /\ p.open = <<>> => p.response = <<>>
  /\ P.open = <<>> => P.response = <<>>
  /\ \/ p.open = P.open /\ NoBlanks(p.response) = NoBlanks(P.response) /\ SameDone(p.done, P.done)
     \/ p.open = <<>> /\ P.open # <<>> /\ StartsWithPrompt(line) /\ SameDone(p.done, CloseCommand(P).done)

LEMMA CloseAgrees ==
  ASSUME NEW p, NEW P, NEW line, Agree(p, P, line)
  PROVE  SameDone(CloseCommand(p).done, CloseCommand(P).done)
<1>1. CASE p.open = <<>> /\ P.open = <<>> BY <1>1 DEF Agree, CloseCommand
<1>2. CASE p.open = <<>> /\ P.open # <<>>
  <2>1. CloseCommand(p) = p BY <1>2 DEF CloseCommand
  <2> QED BY <1>2, <2>1 DEF Agree
<1>3. CASE p.open # <<>>
  <2>1. PICK a, b : a = [command |-> p.open, response |-> p.response]
                    /\ b = [command |-> P.open, response |-> P.response] OBVIOUS
  <2>2. /\ p.open = P.open /\ NoBlanks(p.response) = NoBlanks(P.response) /\ SameDone(p.done, P.done)
        /\ p \in Parsers /\ P \in Parsers
    BY <1>3 DEF Agree
  <2>3. a \in Answers /\ b \in Answers /\ a.command = b.command /\ NoBlanks(a.response) = NoBlanks(b.response)
        /\ p.done \in Seq(Answers) /\ P.done \in Seq(Answers)
    BY <2>1, <2>2 DEF Answers, Parsers
  <2>4. CloseCommand(p).done = Append(p.done, a) /\ CloseCommand(P).done = Append(P.done, b)
    BY <1>3, <2>1, <2>2 DEF CloseCommand
  <2> QED BY <2>2, <2>3, <2>4, SameDoneMore
<1> QED BY <1>1, <1>2, <1>3

\* What a parser holds when it has closed its command.
LEMMA CloseLeaves ==
  ASSUME NEW p, NEW P, NEW line, Agree(p, P, line)
  PROVE  /\ CloseCommand(p) \in Parsers /\ CloseCommand(p).open = <<>> /\ CloseCommand(p).response = <<>>
         /\ CloseCommand(P) \in Parsers /\ CloseCommand(P).open = <<>> /\ CloseCommand(P).response = <<>>
<1>1. p \in Parsers /\ P \in Parsers BY DEF Agree
<1>2. CloseCommand(p).response = <<>> /\ CloseCommand(P).response = <<>> BY DEF Agree, CloseCommand
<1> QED BY <1>1, <1>2, CloseTyped

LEMMA ConsumeAgrees ==
  ASSUME NEW p, NEW P, NEW line \in Lines, Agree(p, P, line)
  PROVE  Agree(ConsumeLine(p, line), ConsumeLine(P, line), <<>>)
<1>0. p \in Parsers /\ P \in Parsers BY DEF Agree
<1>1. PICK q, Q : q = ConsumeLine(p, line) /\ Q = ConsumeLine(P, line) OBVIOUS
<1>2. q \in Parsers /\ Q \in Parsers BY <1>0, <1>1, ConsumeTyped
<1>3. CASE StartsWithPrompt(line)
  <2>1. PICK e, E, c : e = CloseCommand(p) /\ E = CloseCommand(P) /\ c = CommandOf(line) OBVIOUS
  <2>2. /\ e \in Parsers /\ E \in Parsers /\ e.response = <<>> /\ E.response = <<>> /\ SameDone(e.done, E.done)
    BY <2>1, CloseLeaves, CloseAgrees
  <2>3. q = [e EXCEPT !.open = c] /\ Q = [E EXCEPT !.open = c] BY <1>1, <1>3, <2>1 DEF ConsumeLine
  <2>4. /\ q.open = c /\ q.response = <<>> /\ q.done = e.done
        /\ Q.open = c /\ Q.response = <<>> /\ Q.done = E.done
    BY <2>2, <2>3 DEF Parsers
  <2> QED BY <1>1, <1>2, <2>2, <2>4 DEF Agree
<1>4. CASE ~StartsWithPrompt(line)
  <2>1. p.open = P.open /\ NoBlanks(p.response) = NoBlanks(P.response) /\ SameDone(p.done, P.done)
    BY <1>4 DEF Agree
  <2>2. CASE p.open = <<>>
    <3>1. q = p /\ Q = P BY <1>1, <1>4, <2>1, <2>2 DEF ConsumeLine
    <3> QED BY <1>1, <2>1, <3>1 DEF Agree
  <2>3. CASE p.open # <<>>
    <3>1. PICK r, R : r = Append(p.response, line) /\ R = Append(P.response, line) OBVIOUS
    <3>2. q = [p EXCEPT !.response = r] /\ Q = [P EXCEPT !.response = R]
      BY <1>1, <1>4, <2>1, <2>3, <3>1 DEF ConsumeLine
    <3>3. /\ q.open = p.open /\ q.response = r /\ q.done = p.done
          /\ Q.open = P.open /\ Q.response = R /\ Q.done = P.done
      BY <1>0, <3>2 DEF Parsers
    <3>4. p.response \in Seq(Lines) /\ P.response \in Seq(Lines) BY <1>0 DEF Parsers
    <3>5. NoBlanks(r) = NoBlanks(R)
      <4>1. NoBlanks(r) = IF line = <<>> THEN NoBlanks(p.response) ELSE Append(NoBlanks(p.response), line)
        BY <3>1, <3>4, NoBlanksMore
      <4>2. NoBlanks(R) = IF line = <<>> THEN NoBlanks(P.response) ELSE Append(NoBlanks(P.response), line)
        BY <3>1, <3>4, NoBlanksMore
      <4> QED BY <2>1, <4>1, <4>2
    <3> QED BY <1>1, <1>2, <2>1, <2>3, <3>3, <3>5 DEF Agree
  <2> QED BY <2>2, <2>3
<1> QED BY <1>3, <1>4

\* A blank line that only the parser that is fed frames reads.
LEMMA BlankAgrees ==
  ASSUME NEW p, NEW P, Agree(p, P, <<>>) PROVE Agree(ConsumeLine(p, <<>>), P, <<>>)
<1>0. p \in Parsers /\ P \in Parsers BY DEF Agree
<1>1. ~StartsWithPrompt(<<>>) BY DEF StartsWithPrompt
<1>2. PICK q, e : q = ConsumeLine(p, e) /\ e = <<>> OBVIOUS
<1>3. e \in Lines BY <1>2 DEF Lines
<1>4. q \in Parsers BY <1>0, <1>2, <1>3, ConsumeTyped
<1>5. p.open = P.open /\ NoBlanks(p.response) = NoBlanks(P.response) /\ SameDone(p.done, P.done)
  BY <1>1 DEF Agree
<1>6. CASE p.open = <<>>
  <2>1. q = p BY <1>1, <1>2, <1>6 DEF ConsumeLine
  <2> QED BY <1>2, <2>1
<1>7. CASE p.open # <<>>
  <2>1. PICK r : r = Append(p.response, e) OBVIOUS
  <2>2. q = [p EXCEPT !.response = r] BY <1>1, <1>2, <1>7, <2>1 DEF ConsumeLine
  <2>3. q.open = p.open /\ q.response = r /\ q.done = p.done BY <1>0, <2>2 DEF Parsers
  <2>4. p.response \in Seq(Lines) BY <1>0 DEF Parsers
  <2>5. NoBlanks(r) = NoBlanks(p.response) BY <1>2, <1>3, <2>1, <2>4, NoBlanksMore
  <2> QED BY <1>2, <1>4, <1>5, <1>7, <2>3, <2>5 DEF Agree
<1> QED BY <1>6, <1>7

\* The reading c of frames and the reading S of the output in one piece.
Matches(c, S) ==
  /\ c \in Readings /\ S \in Readings
  /\ c.line = S.line /\ (c.cr => S.cr) /\ (S.cr => S.line = <<>>)
  /\ Agree(c.parser, S.parser, S.line)

\* The prompt at the head of a line stays there.
LEMMA PromptStays ==
  ASSUME NEW line \in Lines, NEW t \in Tokens, StartsWithPrompt(line),
         t = "erase" => Last(line) # "prompt"
  PROVE  StartsWithPrompt(Echoed(line, t))
<1>0. line \in Seq(Tokens) /\ line # <<>> /\ line[1] = "prompt" /\ Len(line) \in Nat /\ Len(line) >= 1
  BY Shortened DEF StartsWithPrompt, Lines
<1>1. PICK q : q = Echoed(line, t) OBVIOUS
<1>2. CASE t # "erase"
  <2>1. q = Append(line, t) BY <1>1, <1>2 DEF Echoed
  <2>2. q \in Seq(Tokens) /\ q # <<>> /\ q[1] = line[1]
    <3>1. 1 \in 1 .. Len(line) BY <1>0
    <3> QED BY <1>0, <2>1, <3>1, OneMore
  <2> QED BY <1>0, <1>1, <2>2, Shortened DEF StartsWithPrompt
<1>3. CASE t = "erase"
  <2>1. q = Front(line) BY <1>0, <1>1, <1>3 DEF Echoed
  <2>2. Len(line) # 1
    <3>1. line[Len(line)] # "prompt" BY <1>3 DEF Last
    <3> QED BY <1>0, <3>1
  <2>3. q \in Seq(Tokens) /\ q # <<>> /\ q[1] = line[1]
    <3>1. \A n \in Nat : n >= 1 /\ n # 1 => 1 \in 1 .. (n - 1) OBVIOUS
    <3>2. 1 \in 1 .. (Len(line) - 1) BY <1>0, <2>2, <3>1
    <3> QED BY <1>0, <2>1, <2>2, <3>2, Shortened
  <2> QED BY <1>0, <1>1, <2>3, Shortened DEF StartsWithPrompt
<1> QED BY <1>2, <1>3

LEMMA TokenMatches ==
  ASSUME NEW c, NEW S, Matches(c, S), NEW t \in Tokens,
         t = "erase" /\ S.line # <<>> => Last(S.line) # "prompt"
  PROVE  Matches(TakeToken(c, t), TakeToken(S, t))
<1>0. /\ c \in Readings /\ S \in Readings /\ c.line = S.line /\ S.line \in Lines
      /\ (c.cr => S.cr) /\ (S.cr => S.line = <<>>) /\ Agree(c.parser, S.parser, S.line)
      /\ c.cr \in BOOLEAN /\ S.cr \in BOOLEAN
  BY DEF Matches, Readings
<1>1. PICK d, D, p, P, line : /\ d = TakeToken(c, t) /\ D = TakeToken(S, t)
                              /\ p = c.parser /\ P = S.parser /\ line = S.line OBVIOUS
<1>2. d \in Readings /\ D \in Readings BY <1>0, <1>1, TakeTyped
<1>3. CASE t = "lf" /\ c.cr
  <2>1. d = [c EXCEPT !.cr = FALSE] /\ D = [S EXCEPT !.cr = FALSE] BY <1>0, <1>1, <1>3 DEF TakeToken
  <2>2. d.line = line /\ D.line = line /\ d.cr = FALSE /\ D.cr = FALSE /\ d.parser = p /\ D.parser = P
    BY <1>0, <1>1, <2>1 DEF Readings
  <2> QED BY <1>0, <1>1, <1>2, <2>2 DEF Matches
<1>4. CASE t = "lf" /\ ~c.cr /\ S.cr
  <2>1. line = <<>> /\ Agree(p, P, <<>>) BY <1>0, <1>1, <1>4
  <2>2. d = [line |-> <<>>, cr |-> FALSE, parser |-> ConsumeLine(p, <<>>)]
    BY <1>0, <1>1, <1>4, <2>1 DEF TakeToken
  <2>3. D = [S EXCEPT !.cr = FALSE] BY <1>1, <1>4 DEF TakeToken
  <2>4. D.line = <<>> /\ D.cr = FALSE /\ D.parser = P BY <1>0, <1>1, <2>1, <2>3 DEF Readings
  <2>5. d.line = <<>> /\ d.cr = FALSE /\ d.parser = ConsumeLine(p, <<>>) BY <2>2
  <2>6. Agree(ConsumeLine(p, <<>>), P, <<>>) BY <2>1, BlankAgrees
  <2> QED BY <1>1, <1>2, <2>4, <2>5, <2>6 DEF Matches
<1>5. CASE (t = "lf" /\ ~c.cr /\ ~S.cr) \/ t = "cr"
  <2>1. PICK b : b = (t = "cr") OBVIOUS
  <2>2. /\ d = [line |-> <<>>, cr |-> b, parser |-> ConsumeLine(p, line)]
        /\ D = [line |-> <<>>, cr |-> b, parser |-> ConsumeLine(P, line)]
    BY <1>0, <1>1, <1>5, <2>1 DEF TakeToken
  <2>3. /\ d.line = <<>> /\ d.cr = b /\ d.parser = ConsumeLine(p, line)
        /\ D.line = <<>> /\ D.cr = b /\ D.parser = ConsumeLine(P, line)
    BY <2>2
  <2>4. Agree(ConsumeLine(p, line), ConsumeLine(P, line), <<>>) BY <1>0, <1>1, ConsumeAgrees
  <2> QED BY <1>1, <1>2, <2>3, <2>4 DEF Matches
<1>6. CASE t \notin {"lf", "cr"}
  <2>1. PICK e : e = Echoed(line, t) OBVIOUS
  <2>2. d = [c EXCEPT !.line = e, !.cr = FALSE] /\ D = [S EXCEPT !.line = e, !.cr = FALSE]
    BY <1>0, <1>1, <1>6, <2>1 DEF TakeToken
  <2>3. d.line = e /\ D.line = e /\ d.cr = FALSE /\ D.cr = FALSE /\ d.parser = p /\ D.parser = P
    BY <1>0, <1>1, <2>2 DEF Readings
  <2>4. StartsWithPrompt(line) => StartsWithPrompt(e)
    <3>1. StartsWithPrompt(line) => line # <<>> BY DEF StartsWithPrompt
    <3> QED BY <1>0, <1>1, <2>1, <3>1, PromptStays
  <2>5. Agree(p, P, e) BY <1>0, <1>1, <2>4 DEF Agree
  <2> QED BY <1>1, <1>2, <2>3, <2>5 DEF Matches
<1> QED BY <1>0, <1>3, <1>4, <1>5, <1>6

\* The end of a frame: no break is waited for, and a trailing prompt closes the command.
LEMMA FrameEndMatches ==
  ASSUME NEW c, NEW S, Matches(c, S)
  PROVE  Matches(Reading(c.line, IF StartsWithPrompt(c.line) THEN CloseCommand(c.parser) ELSE c.parser), S)
<1>0. /\ c \in Readings /\ S \in Readings /\ c.line = S.line /\ c.line \in Lines /\ c.parser \in Parsers
      /\ (S.cr => S.line = <<>>) /\ Agree(c.parser, S.parser, S.line)
  BY DEF Matches, Readings
<1>1. PICK p, P, line, q : /\ p = c.parser /\ P = S.parser /\ line = c.line
                           /\ q = IF StartsWithPrompt(line) THEN CloseCommand(p) ELSE p
  OBVIOUS
<1>2. q \in Parsers BY <1>0, <1>1, CloseTyped
<1>3. Agree(q, P, line)
  <2>1. CASE ~StartsWithPrompt(line) BY <1>0, <1>1, <2>1
  <2>2. CASE StartsWithPrompt(line) /\ p.open = <<>>
    <3>1. q = p BY <1>1, <2>2 DEF CloseCommand
    <3> QED BY <1>0, <1>1, <3>1
  <2>3. CASE StartsWithPrompt(line) /\ p.open # <<>>
    <3>1. q = CloseCommand(p) /\ Agree(p, P, line) BY <1>0, <1>1, <2>3
    <3>2. q.open = <<>> /\ q.response = <<>> BY <3>1, CloseLeaves
    <3>3. P.open # <<>> /\ P \in Parsers BY <2>3, <3>1 DEF Agree
    <3>4. SameDone(q.done, CloseCommand(P).done) BY <3>1, CloseAgrees
    <3> QED BY <1>2, <2>3, <3>2, <3>3, <3>4 DEF Agree
  <2> QED BY <2>1, <2>2, <2>3
<1>4. PICK d : d = Reading(line, q) OBVIOUS
<1>5. d \in Readings /\ d.line = line /\ d.cr = FALSE /\ d.parser = q BY <1>0, <1>1, <1>2, <1>4 DEF Reading, Readings
<1>6. Matches(d, S) BY <1>0, <1>1, <1>3, <1>5 DEF Matches
<1> QED BY <1>1, <1>4, <1>6

LEMMA FlushMatches ==
  ASSUME NEW c, NEW S, Matches(c, S)
  PROVE  SameDone(Flushed(c.line, c.parser).done, Flushed(S.line, S.parser).done)
<1>0. c.line = S.line /\ S.line \in Lines /\ Agree(c.parser, S.parser, S.line) BY DEF Matches, Readings
<1>1. PICK p, P, line : p = c.parser /\ P = S.parser /\ line = S.line OBVIOUS
<1>2. CASE line = <<>>
  <2>1. Flushed(c.line, p) = CloseCommand(p) /\ Flushed(line, P) = CloseCommand(P)
    BY <1>0, <1>1, <1>2 DEF Flushed
  <2> QED BY <1>0, <1>1, <2>1, CloseAgrees
<1>3. CASE line # <<>>
  <2>1. PICK q, Q : q = ConsumeLine(p, line) /\ Q = ConsumeLine(P, line) OBVIOUS
  <2>2. Agree(q, Q, <<>>) BY <1>0, <1>1, <2>1, ConsumeAgrees
  <2>3. Flushed(c.line, p) = CloseCommand(q) /\ Flushed(line, P) = CloseCommand(Q)
    BY <1>0, <1>1, <1>3, <2>1 DEF Flushed
  <2> QED BY <1>1, <2>2, <2>3, CloseAgrees
<1> QED BY <1>2, <1>3

LEMMA NothingMatches == Matches(Reading(<<>>, NothingRead), Reading(<<>>, NothingRead))
<1>1. PICK e, p : e = <<>> /\ p = NothingRead OBVIOUS
<1>2. e \in Lines /\ e \in Seq(Lines) /\ e \in Seq(Answers) /\ Len(e) = 0 BY <1>1 DEF Lines
<1>3. p \in Parsers /\ p.open = e /\ p.response = e /\ p.done = e BY <1>1, <1>2 DEF NothingRead, Parsers
<1>4. SameDone(e, e)
  <2>1. \A i \in 1 .. Len(e) : FALSE BY <1>2
  <2> QED BY <2>1 DEF SameDone
<1>5. Agree(p, p, e) BY <1>1, <1>3, <1>4 DEF Agree
<1>6. PICK c : c = Reading(e, p) OBVIOUS
<1>7. c \in Readings /\ c.line = e /\ c.cr = FALSE /\ c.parser = p BY <1>2, <1>3, <1>6 DEF Reading, Readings
<1>8. Matches(c, c) BY <1>5, <1>7 DEF Matches
<1> QED BY <1>1, <1>6, <1>8

\* What is read of an output in one piece goes token by token, and no prompt is erased.
LEMMA WholeSteps ==
  ASSUME NEW text \in Outputs
  PROVE  LET W(n) == Taken(text, Reading(<<>>, NothingRead), 0, n) IN
         /\ Len(text) \in Nat /\ text \in Seq(Tokens) /\ \A n \in 1 .. Len(text) : text[n] \in Tokens
         /\ W(0) = Reading(<<>>, NothingRead)
         /\ \A n \in 1 .. Len(text) : /\ W(n) = TakeToken(W(n - 1), text[n])
                                      /\ text[n] = "erase" /\ W(n - 1).line # <<>> => Last(W(n - 1).line) # "prompt"
<1> DEFINE W(n) == Taken(text, Reading(<<>>, NothingRead), 0, n)
<1>1. PICK s, N : s = Reading(<<>>, NothingRead) /\ N = Len(text) OBVIOUS
<1>2. text \in Seq(Tokens) /\ KeepsPrompt(text) BY OutputsAssumption
<1>3. N \in Nat /\ \A n \in 1 .. N : text[n] \in Tokens BY <1>1, <1>2, LenProperties, ElementOfSeq
<1>4. s \in Readings BY <1>1, NothingMatches DEF Matches
<1>5. TakesOn(text, s, 0, N)
  <2>1. 0 \in Nat /\ 0 + N <= Len(text) BY <1>1, <1>3
  <2> QED BY <1>2, <1>3, <1>4, <2>1, TakenSteps
<1>6. \A n : W(n) = Taken(text, s, 0, n) BY <1>1
<1>7. \A n \in 1 .. N : 0 + n = n /\ 0 + (n - 1) = n - 1 OBVIOUS
<1>8. \A n \in 1 .. N : Taken(text, s, 0, n) = TakeToken(Taken(text, s, 0, n - 1), text[n])
  BY <1>5, <1>7 DEF TakesOn
<1>9. Taken(text, s, 0, 0) = s BY <1>5 DEF TakesOn
<1>10. \A n \in 1 .. N : text[n] = "erase" /\ W(n - 1).line # <<>> => Last(W(n - 1).line) # "prompt"
  BY <1>1, <1>2 DEF KeepsPrompt
<1> HIDE DEF W
<1>11. W(0) = s /\ \A n \in 1 .. N : W(n) = TakeToken(W(n - 1), text[n]) BY <1>6, <1>8, <1>9
<1> USE DEF W
<1> QED BY <1>1, <1>2, <1>3, <1>10, <1>11

\* A frame more is read as the output in one piece.
LEMMA FrameMatches ==
  ASSUME NEW text \in Outputs, NEW s \in Readings, NEW m \in Nat, NEW n \in Nat, m + n <= Len(text),
         Matches(s, Taken(text, Reading(<<>>, NothingRead), 0, m))
  PROVE  Matches(Taken(text, s, m, m + n), Taken(text, Reading(<<>>, NothingRead), 0, m + n))
<1> DEFINE W(k) == Taken(text, Reading(<<>>, NothingRead), 0, k)
           F(k) == Taken(text, s, m, k)
           P == {k \in 0 .. n : Matches(F(m + k), W(m + k))}
<1>1. /\ Len(text) \in Nat /\ text \in Seq(Tokens) /\ \A k \in 1 .. Len(text) : text[k] \in Tokens
      /\ \A k \in 1 .. Len(text) : /\ W(k) = TakeToken(W(k - 1), text[k])
                                   /\ text[k] = "erase" /\ W(k - 1).line # <<>> => Last(W(k - 1).line) # "prompt"
  BY WholeSteps
<1>2. TakesOn(text, s, m, n) BY <1>1, TakenSteps
<1>3. F(m) = s /\ \A k \in 1 .. n : F(m + k) = TakeToken(F(m + (k - 1)), text[m + k]) BY <1>2 DEF TakesOn
<1>4. Matches(s, W(m)) OBVIOUS
<1> HIDE DEF W, F
<1>5. 0 \in P
  <2>1. m + 0 = m /\ 0 \in 0 .. n OBVIOUS
  <2> QED BY <1>3, <1>4, <2>1
<1>6. ASSUME NEW k \in 1 .. n, k - 1 \in P PROVE k \in P
  <2>1. m + k \in 1 .. Len(text) /\ (m + k) - 1 = m + (k - 1) /\ k \in 0 .. n BY <1>1
  <2>2. PICK c, S, t : c = F(m + (k - 1)) /\ S = W(m + (k - 1)) /\ t = text[m + k] OBVIOUS
  <2>3. Matches(c, S) BY <1>6, <2>2
  <2>4. F(m + k) = TakeToken(c, t) BY <1>3, <2>2
  <2>5. /\ t \in Tokens /\ W(m + k) = TakeToken(S, t)
        /\ t = "erase" /\ S.line # <<>> => Last(S.line) # "prompt"
    <3>1. /\ W(m + k) = TakeToken(W((m + k) - 1), text[m + k])
          /\ text[m + k] = "erase" /\ W((m + k) - 1).line # <<>> => Last(W((m + k) - 1).line) # "prompt"
          /\ text[m + k] \in Tokens
      BY <1>1, <2>1
    <3> QED BY <2>1, <2>2, <3>1
  <2>6. Matches(F(m + k), W(m + k)) BY <2>3, <2>4, <2>5, TokenMatches
  <2> QED BY <2>1, <2>6
<1>7. 0 .. n \subseteq P
  <2> HIDE DEF P
  <2> QED BY <1>5, <1>6, StepByStep
<1>8. n \in P BY <1>7
<1>9. Matches(F(m + n), W(m + n)) BY <1>8
<1> QED BY <1>9 DEF W, F

\* The commands finished of p are those of the reading S once nothing more comes.
Finished(p, S) ==
  /\ p.done \in Seq(Answers) /\ Flushed(S.line, S.parser).done \in Seq(Answers)
  /\ SameDone(p.done, Flushed(S.line, S.parser).done)

\* What is recorded of an open console is read as what was sent in one piece; what was
\* recorded of a closed one is the same commands.
RelayInv ==
  /\ output \in Outputs /\ recorded \in BOOLEAN /\ console \in {"lookup", "open", "closed"}
  /\ said \in Nat /\ unheard \in Nat /\ said <= Len(output) /\ unheard <= said
  /\ console = "lookup" => said = 0 /\ unheard = 0 /\ ~recorded
  /\ ~recorded => tail = <<>> /\ parser = NothingRead
  /\ console = "open" /\ recorded => Matches(Reading(tail, parser), Whole(said - unheard))
  /\ console = "closed" /\ recorded => Finished(parser, Whole(said - unheard))

LEMMA FlushedTyped ==
  ASSUME NEW p \in Parsers, NEW line \in Lines
  PROVE  Flushed(line, p) \in Parsers /\ Flushed(line, p).done \in Seq(Answers)
<1>1. PICK q : q = IF line = <<>> THEN p ELSE ConsumeLine(p, line) OBVIOUS
<1>2. q \in Parsers BY <1>1, ConsumeTyped
<1>3. Flushed(line, p) = CloseCommand(q) BY <1>1 DEF Flushed
<1> QED BY <1>2, <1>3, CloseTyped DEF Parsers

LEMMA RelayStarts == RelayInit => RelayInv
<1> SUFFICES ASSUME RelayInit PROVE RelayInv OBVIOUS
<1>1. output \in Outputs /\ said = 0 /\ unheard = 0 /\ console = "lookup" /\ recorded = FALSE
      /\ tail = <<>> /\ parser = NothingRead
  BY DEF RelayInit
<1>2. Len(output) \in Nat BY <1>1, WholeSteps
<1>3. said \in Nat /\ unheard \in Nat /\ said <= Len(output) /\ unheard <= said BY <1>1, <1>2
<1>4. recorded \in BOOLEAN /\ ~recorded BY <1>1
<1> QED BY <1>1, <1>3, <1>4 DEF RelayInv

LEMMA RelayKept == RelayInv /\ [RelayNext]_relayVars => RelayInv'
<1> SUFFICES ASSUME RelayInv, [RelayNext]_relayVars PROVE RelayInv' OBVIOUS
<1>0. /\ output \in Outputs /\ recorded \in BOOLEAN /\ console \in {"lookup", "open", "closed"}
      /\ said \in Nat /\ unheard \in Nat /\ said <= Len(output) /\ unheard <= said
      /\ console = "lookup" => said = 0 /\ unheard = 0 /\ ~recorded
      /\ ~recorded => tail = <<>> /\ parser = NothingRead
      /\ console = "open" /\ recorded => Matches(Reading(tail, parser), Whole(said - unheard))
  BY DEF RelayInv
<1>1. Len(output) \in Nat BY <1>0, WholeSteps
<1>2. ASSUME NEW tap \in BOOLEAN, AcceptConsole(tap) PROVE RelayInv'
  <2>1. /\ console = "lookup" /\ console' = "open" /\ recorded' = tap /\ output' = output /\ said' = said
        /\ unheard' = unheard /\ tail' = tail /\ parser' = parser
    BY <1>2 DEF AcceptConsole
  <2>2. said' = 0 /\ unheard' = 0 /\ tail' = <<>> /\ parser' = NothingRead BY <1>0, <2>1
  <2>3. Matches(Reading(tail', parser'), Whole(said - unheard)')
    <3>1. said' - unheard' = 0 BY <2>2
    <3>2. Whole(said - unheard)' = Reading(<<>>, NothingRead)
      <4>1. Whole(said - unheard)' = Taken(output, Reading(<<>>, NothingRead), 0, 0) BY <2>1, <3>1 DEF Whole
      <4> QED BY <1>0, <4>1, WholeSteps
    <3> QED BY <2>2, <3>2, NothingMatches
  <2> QED BY <1>0, <1>1, <2>1, <2>2, <2>3 DEF RelayInv
<1>3. ASSUME NEW n \in 1 .. Len(output), NodeSays(n) PROVE RelayInv'
  <2>1. /\ console = "open" /\ unheard = 0 /\ said + n <= Len(output) /\ said' = said + n
        /\ output' = output /\ unheard' = unheard /\ console' = console /\ recorded' = recorded
        /\ IF recorded THEN Feed(n) ELSE tail' = tail /\ parser' = parser
    BY <1>3 DEF NodeSays
  <2>2. n \in Nat /\ said' \in Nat /\ said - unheard = said /\ said' - unheard' = said + n /\ unheard' <= said'
    BY <1>0, <1>1, <2>1
  <2>3. CASE ~recorded BY <1>0, <2>1, <2>2, <2>3 DEF RelayInv
  <2>4. CASE recorded
    <3>1. PICK s, c, W, V : /\ s = Reading(tail, parser) /\ c = Taken(output, s, said, said + n)
                            /\ W = Taken(output, Reading(<<>>, NothingRead), 0, said)
                            /\ V = Taken(output, Reading(<<>>, NothingRead), 0, said + n)
      OBVIOUS
    <3>2. Matches(s, W) BY <1>0, <2>1, <2>2, <2>4, <3>1 DEF Whole
    <3>3. s \in Readings BY <3>2 DEF Matches
    <3>4. Matches(c, V) BY <1>0, <2>1, <2>2, <3>1, <3>2, <3>3, FrameMatches
    <3>5. tail' = c.line /\ parser' = IF StartsWithPrompt(c.line) THEN CloseCommand(c.parser) ELSE c.parser
      BY <2>1, <2>4, <3>1 DEF Feed, TailKept
    <3>6. Matches(Reading(tail', parser'), V) BY <3>4, <3>5, FrameEndMatches
    <3>7. Whole(said - unheard)' = V BY <2>1, <2>2, <3>1 DEF Whole
    <3>8. Matches(Reading(tail, parser), Whole(said - unheard))' BY <3>6, <3>7 DEF Reading
    <3> QED BY <1>0, <2>1, <2>2, <2>4, <3>8 DEF RelayInv
  <2> QED BY <2>3, <2>4
<1>4. ASSUME NEW n \in 1 .. Len(output), CutShort(n) PROVE RelayInv'
  <2>1. /\ console = "open" /\ unheard = 0 /\ said + n <= Len(output) /\ said' = said + n /\ unheard' = n
        /\ output' = output /\ console' = console /\ recorded' = recorded /\ tail' = tail /\ parser' = parser
    BY <1>4 DEF CutShort
  <2>2. said' \in Nat /\ unheard' \in Nat /\ unheard' <= said' /\ said' - unheard' = said /\ said - unheard = said
    BY <1>0, <1>1, <2>1
  <2>3. Whole(said - unheard)' = Whole(said - unheard) BY <2>1, <2>2 DEF Whole
  <2> QED BY <1>0, <2>1, <2>2, <2>3 DEF RelayInv
<1>5. CASE RefuseConsole
  <2>1. /\ console = "lookup" /\ console' = "closed" /\ output' = output /\ said' = said /\ unheard' = unheard
        /\ recorded' = recorded /\ tail' = tail /\ parser' = parser
    BY <1>5 DEF RefuseConsole
  <2> QED BY <1>0, <2>1 DEF RelayInv
<1>6. CASE CloseConsole
  <2>1. /\ console = "open" /\ console' = "closed" /\ parser' = Flushed(tail, parser) /\ tail' = <<>>
        /\ output' = output /\ said' = said /\ unheard' = unheard /\ recorded' = recorded
    BY <1>6 DEF CloseConsole
  <2>2. CASE ~recorded
    <3>1. tail = <<>> /\ parser = NothingRead BY <1>0, <2>2
    <3>2. Flushed(tail, parser) = NothingRead BY <3>1 DEF Flushed, CloseCommand, NothingRead
    <3> QED BY <1>0, <2>1, <2>2, <3>1, <3>2 DEF RelayInv
  <2>3. CASE recorded
    <3>1. PICK s, W : s = Reading(tail, parser) /\ W = Whole(said - unheard) OBVIOUS
    <3>2. Matches(s, W) BY <1>0, <2>1, <2>3, <3>1
    <3>3. s.line = tail /\ s.parser = parser BY <3>1 DEF Reading
    <3>4. SameDone(Flushed(tail, parser).done, Flushed(W.line, W.parser).done) BY <3>2, <3>3, FlushMatches
    <3>5. tail \in Lines /\ parser \in Parsers /\ W.line \in Lines /\ W.parser \in Parsers
      BY <3>2, <3>3 DEF Matches, Readings
    <3>6. Flushed(tail, parser).done \in Seq(Answers) /\ Flushed(W.line, W.parser).done \in Seq(Answers)
      BY <3>5, FlushedTyped
    <3>7. Whole(said - unheard)' = W BY <2>1, <3>1 DEF Whole
    <3>8. Finished(parser', W) BY <2>1, <3>4, <3>6 DEF Finished
    <3>9. Finished(parser, Whole(said - unheard))' BY <3>7, <3>8 DEF Finished
    <3> QED BY <1>0, <2>1, <2>3, <3>9 DEF RelayInv
  <2> QED BY <2>2, <2>3
<1>7. CASE UNCHANGED relayVars
  <2>1. /\ output' = output /\ said' = said /\ unheard' = unheard /\ console' = console /\ recorded' = recorded
        /\ tail' = tail /\ parser' = parser
    BY <1>7 DEF relayVars
  <2>2. Whole(said - unheard)' = Whole(said - unheard) BY <2>1 DEF Whole
  <2> QED BY <2>1, <2>2 DEF RelayInv
<1> QED BY <1>2, <1>3, <1>4, <1>5, <1>6, <1>7 DEF RelayNext

LEMMA RelayIsSound == RelayInv => RelaySound
<1> SUFFICES ASSUME RelayInv, console = "closed"
             PROVE  LET whole == Whole(said - unheard)
                    IN Told(parser.done) = IF recorded THEN Told(Flushed(whole.line, whole.parser).done) ELSE <<>>
  BY DEF RelaySound
<1>1. CASE recorded
  <2>1. PICK d, e : /\ d = parser.done
                    /\ e = Flushed(Whole(said - unheard).line, Whole(said - unheard).parser).done OBVIOUS
  <2>2. d \in Seq(Answers) /\ e \in Seq(Answers) /\ SameDone(d, e) BY <1>1, <2>1 DEF RelayInv, Finished
  <2>3. Told(d) = Told(e) BY <2>2, ToldSame
  <2> QED BY <1>1, <2>1, <2>3
<1>2. CASE ~recorded
  <2>1. PICK e : e = <<>> OBVIOUS
  <2>2. parser.done = e BY <1>2, <2>1 DEF RelayInv, NothingRead
  <2>3. PICK w : w = Told(e) OBVIOUS
  <2>4. Len(e) = 0 /\ DOMAIN e = 1 .. 0 BY <2>1
  <2>5. w \in [1 .. 0 -> {0}] BY <2>3, <2>4 DEF Told
  <2>6. w \in Seq({0}) /\ Len(w) = 0 BY <2>5, FunctionAsSeq
  <2>7. w = <<>> BY <2>6, EmptySeq
  <2> QED BY <1>2, <2>2, <2>3, <2>7
<1> QED BY <1>1, <1>2

\* The commands recorded of a console do not depend on how its output was cut into frames,
\* for every set of outputs in which no node erases its own prompt.
THEOREM RelayAlwaysSound == RelaySpec => []RelaySound
<1>1. RelayInit => RelayInv BY RelayStarts
<1>2. RelayInv /\ [RelayNext]_relayVars => RelayInv' BY RelayKept
<1>3. RelayInv => RelaySound BY RelayIsSound
<1> QED BY <1>1, <1>2, <1>3, PTL DEF RelaySpec
=============================================================================
