---------------------------- MODULE SessionQueue ----------------------------
(***************************************************************************)
(* The Redis side of capacity control (backend/sessions/queue.py): one     *)
(* counter of taken slots per lab, one across all labs, and one waiting    *)
(* list per lab.  Every Lua script runs atomically in Redis, so each is    *)
(* one action here; two calls made by one caller are two actions.          *)
(* The actions are composed with the callers in SessionLifecycle.          *)
(***************************************************************************)
EXTENDS Integers, Sequences, SequencesExt

CONSTANTS
  Users,        \* learners
  Labs,         \* lab slugs
  PerLabCaps,   \* capacity.per_lab_caps: a function on the labs with a cap of their own
  GlobalCap     \* capacity.global_cap

ASSUME CapsAssumption ==
  /\ GlobalCap \in Nat \ {0}
  /\ DOMAIN PerLabCaps \subseteq Labs
  /\ \A l \in DOMAIN PerLabCaps : PerLabCaps[l] \in Nat

VARIABLES
  labCount,     \* active_sessions:{lab}
  total,        \* active_sessions_total
  queue         \* queue:{lab}, the Redis list

queueVars == <<labCount, total, queue>>
counterVars == <<labCount, total>>

QueueTypeOK ==
  /\ labCount \in [Labs -> Nat]
  /\ total \in Nat
  /\ queue \in [Labs -> Seq(Users)]

QueueInit ==
  /\ labCount = [l \in Labs |-> 0]
  /\ total = 0
  /\ queue = [l \in Labs |-> <<>>]

LabCap(l) == IF l \in DOMAIN PerLabCaps THEN PerLabCaps[l] ELSE GlobalCap

HasFreeSlot(l) == labCount[l] < LabCap(l) /\ total < GlobalCap

Decremented(n) == IF n > 0 THEN n - 1 ELSE 0

\* LREM: the list names a user at most once, LUA_ENQUEUE sees to it.
Without(q, u) ==
  IF Contains(q, u)
  THEN RemoveAt(q, CHOOSE i \in 1 .. Len(q) : q[i] = u)
  ELSE q
-----------------------------------------------------------------------------
AcquireSlot(l) ==
  /\ HasFreeSlot(l)
  /\ labCount' = [labCount EXCEPT ![l] = @ + 1]
  /\ total' = total + 1
  /\ UNCHANGED queue

Wait(l) == FALSE /\ UNCHANGED queueVars     \* mutant: wait for a slot instead
RejectSlot(l) == ~HasFreeSlot(l) /\ UNCHANGED queueVars

\* Mutant: the lab's counter alone.
ReleaseLabOnly(l) ==
  /\ labCount' = [labCount EXCEPT ![l] = Decremented(@)]
  /\ UNCHANGED <<total, queue>>

\* Each counter is clamped at zero on its own.
ReleaseSlot(l) ==
  /\ labCount' = [labCount EXCEPT ![l] = Decremented(@)]
  /\ total' = Decremented(total)
  /\ UNCHANGED queue

Enqueue(u, l) ==
  /\ queue' = [queue EXCEPT ![l] = IF Contains(@, u) THEN @ ELSE Append(@, u)]
  /\ UNCHANGED counterVars

Dequeue(u, l) ==
  /\ queue' = [queue EXCEPT ![l] = Without(@, u)]
  /\ UNCHANGED counterVars

\* The TTL of queue:{lab} runs out: nobody asked for a place for a while.
ExpireQueue(l) ==
  /\ queue[l] # <<>>
  /\ queue' = [queue EXCEPT ![l] = <<>>]
  /\ UNCHANGED counterVars

\* ACTIVE_TTL runs out on one counter; the callers say when no acquisition
\* can have refreshed it.
ExpireLabCounter(l) ==
  /\ labCount[l] > 0
  /\ labCount' = [labCount EXCEPT ![l] = 0]
  /\ UNCHANGED <<total, queue>>

ExpireTotalCounter ==
  /\ total > 0
  /\ total' = 0
  /\ UNCHANGED <<labCount, queue>>
=============================================================================
