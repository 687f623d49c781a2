------------------------------ MODULE RbacGate ------------------------------
(***************************************************************************)
(* The gate in front of the GNS3 access control (rbac_gate.py of           *)
(* gns3-service): an asyncio.Lock within each replica of the service, and  *)
(* a Redis key with a time to live across the replicas.  The callers are   *)
(* in Gns3Sessions; here the section itself is one step long.              *)
(***************************************************************************)
EXTENDS Naturals, Sequences

CONSTANTS
  Writers,      \* executions that write to the GNS3 access control
  Replicas,     \* processes of gns3-service
  ReplicaOf,    \* the replica an execution runs in
  GatePerils,   \* see GatePerilNames
  NoToken       \* the key does not exist

(***************************************************************************)
(* "redis"     a call to Redis fails, done or not (or there is no Redis)   *)
(* "slow"      a writer stays in the section for more than the lock's TTL  *)
(* "patience"  a writer waits for the key for more than wait_timeout       *)
(* "crash"     a replica stops and starts again                            *)
(***************************************************************************)
GatePerilNames == {"redis", "slow", "patience", "crash"}

ASSUME GateAssumption ==
  /\ ReplicaOf \in [Writers -> Replicas]
  /\ GatePerils \subseteq GatePerilNames
  /\ NoToken \notin Writers

VARIABLES
  gate,         \* where a writer stands at the gate
  line,         \* per replica, the asyncio.Lock: its holder, then its waiters in order
  key,          \* lock:gns3_rbac_write, the writer whose token it holds
  token         \* whether a writer got a token from _acquire_distributed

gateVars == <<gate, line, key, token>>

GatePcs == {"out", "waiting", "inside", "leaving", "deleting"}

GateTypeOK ==
  /\ gate \in [Writers -> GatePcs]
  /\ line \in [Replicas -> Seq(Writers)]
  /\ key \in Writers \cup {NoToken}
  /\ token \in [Writers -> BOOLEAN]

GateInit ==
  /\ gate = [w \in Writers |-> "out"]
  /\ line = [r \in Replicas |-> <<>>]
  /\ key = NoToken
  /\ token = [w \in Writers |-> FALSE]

HoldsLocal(w) == line[ReplicaOf[w]] # <<>> /\ Head(line[ReplicaOf[w]]) = w

AnyTurn(w) == gate[w] = "waiting"           \* mutant: no lock within the replica
Admissible(w) == gate[w] = "waiting" /\ HoldsLocal(w)

\* async with self._local: the lock is fair.
Enter(w) ==
  /\ gate[w] = "out"
  /\ line' = [line EXCEPT ![ReplicaOf[w]] = Append(@, w)]
  /\ gate' = [gate EXCEPT ![w] = "waiting"]
  /\ UNCHANGED <<key, token>>

NoCondition == TRUE                         \* mutant: SET without NX
KeyIsFree == key = NoToken

\* SET lock:gns3_rbac_write token NX EX ttl.
AcquireKey(w) ==
  /\ Admissible(w) /\ KeyIsFree
  /\ key' = w
  /\ token' = [token EXCEPT ![w] = TRUE]
  /\ gate' = [gate EXCEPT ![w] = "inside"]
  /\ UNCHANGED line

\* Redis cannot be reached, or the deadline has passed: in without a token.  A
\* SET that failed may have been executed.
GoWithout(w) ==
  /\ Admissible(w)
  /\ \/ "redis" \in GatePerils /\ key' \in {key, IF key = NoToken THEN w ELSE key}
     \/ "patience" \in GatePerils /\ key # NoToken /\ UNCHANGED key
  /\ gate' = [gate EXCEPT ![w] = "inside"]
  /\ UNCHANGED <<line, token>>

\* The lock within the replica is left at last, an exception in the section included.
KeepLine(w) == line' = line                 \* mutant: not after a failed deletion
LeaveLine(w) == line' = [line EXCEPT ![ReplicaOf[w]] = Tail(@)]

Out(w) ==
  /\ gate' = [gate EXCEPT ![w] = "out"]
  /\ token' = [token EXCEPT ![w] = FALSE]
  /\ LeaveLine(w)

\* The section ends; a writer without a token leaves the key alone.
Exit(w) ==
  /\ gate[w] = "inside"
  /\ \/ token[w] /\ gate' = [gate EXCEPT ![w] = "leaving"] /\ UNCHANGED <<line, token>>
     \/ ~token[w] /\ Out(w)
  /\ UNCHANGED key

\* GET: is the key still ours?
ReadKey(w) ==
  /\ gate[w] = "leaving"
  /\ \/ key = w /\ gate' = [gate EXCEPT ![w] = "deleting"] /\ UNCHANGED <<line, token>>
     \/ (key # w \/ "redis" \in GatePerils) /\ Out(w)
  /\ UNCHANGED key

\* DELETE, in a call of its own: whosever the key is by now.
DeleteKey(w) ==
  /\ gate[w] = "deleting"
  /\ key' = NoToken \/ ("redis" \in GatePerils /\ UNCHANGED key)
  /\ Out(w)

\* The TTL.  Without "slow" the key outlives every section it was set for.
Owned == key # NoToken /\ token[key] /\ gate[key] \in {"inside", "leaving", "deleting"}

KeyExpires ==
  /\ key # NoToken
  /\ "slow" \in GatePerils \/ ~Owned
  /\ key' = NoToken
  /\ UNCHANGED <<gate, line, token>>

\* A replica stops: its writers and its lock are gone, the key stays.
GateCrash(r) ==
  /\ "crash" \in GatePerils
  /\ gate' = [w \in Writers |-> IF ReplicaOf[w] = r THEN "out" ELSE gate[w]]
  /\ token' = [w \in Writers |-> IF ReplicaOf[w] = r THEN FALSE ELSE token[w]]
  /\ line' = [line EXCEPT ![r] = <<>>]
  /\ UNCHANGED key

GateStep(w) == AcquireKey(w) \/ GoWithout(w) \/ ReadKey(w) \/ DeleteKey(w)

GateNext ==
  \/ \E w \in Writers : Enter(w) \/ GateStep(w) \/ Exit(w)
  \/ KeyExpires
  \/ \E r \in Replicas : GateCrash(r)

GateSpec == GateInit /\ [][GateNext]_gateVars

-----------------------------------------------------------------------------
Inside == {w \in Writers : gate[w] = "inside"}

\* While Redis answers and no section or wait outlasts its limit, the writers of
\* all replicas pass one at a time, replicas that crash included: the gate
\* implements the exclusive section.
Section == INSTANCE ExclusiveSection WITH inside <- Inside
OneAtATime == Section!ExclusiveSpec

\* Whatever happens to Redis, two writers of one replica are never in the
\* section together, not even while one is still giving the key back.
ReplicaExclusive ==
  \A v, w \in Writers :
    /\ ReplicaOf[v] = ReplicaOf[w]
    /\ gate[v] \in {"inside", "leaving", "deleting"}
    /\ gate[w] \in {"inside", "leaving", "deleting"}
    => v = w

\* What makes the above inductive: who is past the local lock holds it, and
\* while nothing goes wrong with the key, has it.
HoldersSound ==
  \A w \in Writers : gate[w] \in {"inside", "leaving", "deleting"} => HoldsLocal(w)

KeySound ==
  GatePerils \subseteq {"crash"} =>
    \A w \in Writers :
      gate[w] \in {"inside", "leaving", "deleting"} => key = w /\ token[w]

GateInv == GateTypeOK /\ HoldersSound /\ KeySound
=============================================================================
