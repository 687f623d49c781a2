------------------------------- MODULE McpPool -------------------------------
(* The connection pool of the MCP server (mcp_sdk/connection.py).  Its calls  *)
(* run as tasks of one event loop: a task runs until it awaits something that *)
(* really suspends it, so `running' names the task that is between two such   *)
(* points.  The global lock is only ever held across no await, hence is never *)
(* contended and needs no variable; the lock of a key is an object of its own *)
(* because _prune_locks may drop it from the table and another replace it.    *)
(* A tool call crosses two connections: the backend's stream to this server   *)
(* (McpStream) and the pooled one from here to GNS3.                          *)
EXTENDS McpStream, Sequences, FiniteSets, FiniteSetsExt, SequencesExt

CONSTANTS Callers,         \* tool calls that need a connection
          Credentials,     \* pool keys: (environment, user, credential hash)
          PoolSize,        \* max_size
          HotFor,          \* min_evict_idle
          IdleTtl,         \* idle_ttl
          CheckEvery,      \* health_check_interval
          PoolTime,        \* bound on the clock
          MaxConns         \* bound on the connections open at a time

ASSUME PoolAssumption ==
    /\ IsFiniteSet(Callers) /\ IsFiniteSet(Credentials)
    /\ None \notin Callers \cup Credentials \cup Nat
    /\ PoolSize \in Nat \ {0} /\ {HotFor, IdleTtl, CheckEvery, PoolTime, MaxConns} \subseteq Nat

VARIABLES entries,   \* _entries: records [key, conn, used, checked], LRU first
          owner,     \* owner[c]: the key connection c is open for, None when closed
          lockOf,    \* _key_locks: key -> lock, None when there is none
          held,      \* held[l]: the task that holds lock l
          waiting,     \* waiting[l]: the tasks waiting for lock l
          call,      \* call[t]: where a call is
          running,   \* the task that runs, None between two
          suspends,  \* whether the manager's connect awaits the network; that of
                     \* gns3-mcp only builds a client, the SDK allows for both
          poolClock

poolVars == <<entries, owner, lockOf, held, waiting, call, running, suspends, poolClock>>

Locks == 1 .. Cardinality(Callers) + Cardinality(Credentials)
AtRest == [pc |-> "rest", key |-> None, lock |-> None, now |-> 0,
           todo |-> <<>>, conn |-> None, then |-> "rest"]

PoolInit ==
    /\ entries = <<>> /\ owner = [c \in 1 .. MaxConns |-> None]
    /\ lockOf = [k \in Credentials |-> None]
    /\ held = [l \in Locks |-> None]
    /\ waiting = [l \in Locks |-> <<>>]
    /\ call = [t \in Callers |-> AtRest]
    /\ running = None /\ poolClock = 0 /\ suspends \in BOOLEAN

Pooled == {e.key : e \in ToSet(entries)}
EntryOf(k) == CHOOSE e \in ToSet(entries) : e.key = k
Position(k) == CHOOSE i \in DOMAIN entries : entries[i].key = k
Without(k) == IF k \in Pooled THEN RemoveAt(entries, Position(k)) ELSE entries
HasTurn(t) == running \in {None, t}
In(t, pc) == HasTurn(t) /\ call[t].pc = pc
Go(t, pc) == call' = [call EXCEPT ![t].pc = pc]

FreshLock == CHOOSE l \in Locks :
                /\ \A k \in Credentials : lockOf[k] # l
                /\ \A t \in Callers : call[t].lock # l

(* Leaving `async with self._key_lock(key)': the first waiter is woken but     *)
(* takes the lock only when it runs again.                                     *)
Return(t) ==
    /\ held' = [held EXCEPT ![call[t].lock] = None]
    /\ call' = [call EXCEPT ![t] = [AtRest EXCEPT !.pc = "done"]]
    /\ running' = None

StaleAt(now) == SelectSeq(entries, LAMBDA e : now > e.used + IdleTtl)
Locked(t, k, l) ==
    /\ held' = [held EXCEPT ![l] = t]
    /\ call' = [call EXCEPT ![t] =
          [AtRest EXCEPT !.pc = "drop", !.key = k, !.lock = l, !.now = poolClock,
             !.todo = [i \in DOMAIN StaleAt(poolClock) |-> StaleAt(poolClock)[i].key]]]
    /\ running' = t

(* get_connection up to the lock of its key, created on first use.             *)
GetConnection(t, k) ==
    /\ In(t, "rest") /\ running = None
    /\ LET l == IF lockOf[k] = None THEN FreshLock ELSE lockOf[k] IN
       /\ lockOf' = [lockOf EXCEPT ![k] = l]
       /\ \/ /\ held[l] = None /\ waiting[l] = <<>>
             /\ Locked(t, k, l) /\ UNCHANGED waiting
          \/ /\ held[l] # None \/ waiting[l] # <<>>
             /\ waiting' = [waiting EXCEPT ![l] = Append(@, t)]
             /\ call' = [call EXCEPT ![t] =
                   [AtRest EXCEPT !.pc = "queued", !.key = k, !.lock = l]]
             /\ UNCHANGED <<held, running>>
    /\ UNCHANGED <<entries, owner, poolClock, suspends>>

Woken(t) ==
    /\ In(t, "queued") /\ running = None
    /\ held[call[t].lock] = None /\ Head(waiting[call[t].lock]) = t
    /\ waiting' = [waiting EXCEPT ![call[t].lock] = Tail(@)]
    /\ Locked(t, call[t].key, call[t].lock)
    /\ UNCHANGED <<entries, owner, lockOf, poolClock, suspends>>

(* _close takes the entry out and awaits the disconnect; without an entry it   *)
(* returns at once.                                                            *)
CloseKey(t, k, then) ==
    IF k \in Pooled
    THEN /\ entries' = Without(k)
         /\ call' = [call EXCEPT ![t].pc = "closing", ![t].conn = EntryOf(k).conn,
                                 ![t].then = then]
         /\ running' = None
    ELSE /\ call' = [call EXCEPT ![t].pc = then]
         /\ running' = t /\ UNCHANGED entries

Disconnect(t) ==
    /\ In(t, "closing")
    /\ owner' = [owner EXCEPT ![call[t].conn] = None]
    /\ call' = [call EXCEPT ![t].pc = call[t].then, ![t].conn = None]
    /\ running' = t
    /\ UNCHANGED <<entries, lockOf, held, waiting, poolClock, suspends>>

DropIdle(t) ==
    /\ In(t, "drop") /\ call[t].todo # <<>>
    /\ LET k == Head(call[t].todo)
           rest == [call EXCEPT ![t].todo = Tail(@)] IN
       IF k \in Pooled
       THEN /\ entries' = Without(k)
            /\ call' = [rest EXCEPT ![t].pc = "closing", ![t].then = "drop",
                                    ![t].conn = EntryOf(k).conn]
            /\ running' = None
       ELSE call' = rest /\ running' = t /\ UNCHANGED entries
    /\ UNCHANGED <<owner, lockOf, held, waiting, poolClock, suspends>>

(* _prune_locks asks locked(), which a lock given back answers with False even *)
(* while a woken waiter has yet to take it.                                    *)
Prunable(k) == k \notin Pooled /\ lockOf[k] # None /\ held[lockOf[k]] = None
PruneLocks(t) ==
    /\ In(t, "drop") /\ call[t].todo = <<>>
    /\ lockOf' = [k \in Credentials |-> IF Prunable(k) THEN None ELSE lockOf[k]]
    /\ Go(t, "look") /\ running' = t
    /\ UNCHANGED <<entries, owner, held, waiting, poolClock, suspends>>

(* The entry object is touched even if it left the pool during the check.      *)
Touched(t, e) == [e EXCEPT !.used = call[t].now, !.checked =
                    IF call[t].pc = "checking" THEN call[t].now ELSE @]
Reuse(t, c) ==
    LET k == call[t].key IN
    /\ entries' = IF k \in Pooled
                  THEN Append(Without(k), IF EntryOf(k).conn = c
                                          THEN Touched(t, EntryOf(k)) ELSE EntryOf(k))
                  ELSE entries
    /\ Return(t)
    /\ UNCHANGED <<owner, lockOf, waiting, poolClock, suspends>>

FindFresh(t) ==
    /\ In(t, "look") /\ call[t].key \in Pooled
    /\ call[t].now < EntryOf(call[t].key).checked + CheckEvery
    /\ Reuse(t, EntryOf(call[t].key).conn)

AskHealth(t) ==
    /\ In(t, "look") /\ call[t].key \in Pooled
    /\ call[t].now >= EntryOf(call[t].key).checked + CheckEvery
    /\ call' = [call EXCEPT ![t].pc = "checking", ![t].conn = EntryOf(call[t].key).conn]
    /\ running' = None
    /\ UNCHANGED <<entries, owner, lockOf, held, waiting, poolClock, suspends>>

Miss(t) ==
    /\ In(t, "look") /\ call[t].key \notin Pooled
    /\ Go(t, "room") /\ running' = t
    /\ UNCHANGED <<entries, owner, lockOf, held, waiting, poolClock, suspends>>

Alive(t) == In(t, "checking") /\ Reuse(t, call[t].conn)
Dead(t) ==
    /\ In(t, "checking")
    /\ CloseKey(t, call[t].key, "room")
    /\ UNCHANGED <<owner, lockOf, held, waiting, poolClock, suspends>>

(* _make_room: room, a cold least recently used entry to evict, or a refusal.  *)
RoomForOneMore == Len(entries) <= PoolSize
HasRoom == Len(entries) < PoolSize
MakeRoom(t) ==
    /\ In(t, "room")
    /\ IF HasRoom
       THEN Go(t, "connecting") /\ running' = (IF suspends THEN None ELSE t) /\ UNCHANGED <<entries, held>>
       ELSE IF call[t].now < Head(entries).used + HotFor
            THEN Return(t) /\ UNCHANGED entries
            ELSE CloseKey(t, Head(entries).key, "room") /\ UNCHANGED held
    /\ UNCHANGED <<owner, lockOf, waiting, poolClock, suspends>>

Unused == {c \in 1 .. MaxConns : owner[c] = None /\ \A t \in Callers : call[t].conn # c}
OpenSlot(t) ==
    /\ In(t, "connecting") /\ Unused # {}
    /\ LET k == call[t].key
           c == Min(Unused)
           e == [key |-> k, conn |-> c, used |-> call[t].now, checked |-> call[t].now] IN
       /\ owner' = [owner EXCEPT ![c] = k]
       /\ entries' = Append(Without(k), e)
    /\ Return(t)
    /\ UNCHANGED <<lockOf, waiting, poolClock, suspends>>

ConnectFails(t) ==
    /\ In(t, "connecting")
    /\ Return(t)
    /\ UNCHANGED <<entries, owner, lockOf, waiting, poolClock, suspends>>

PoolTick ==
    /\ running = None /\ poolClock < PoolTime
    /\ poolClock' = poolClock + 1
    /\ UNCHANGED <<entries, owner, lockOf, held, waiting, call, running, suspends>>

PoolNext ==
    \/ \E t \in Callers, k \in Credentials : GetConnection(t, k)
    \/ \E t \in Callers : \/ Woken(t) \/ DropIdle(t) \/ Disconnect(t) \/ PruneLocks(t)
                          \/ FindFresh(t) \/ AskHealth(t) \/ Miss(t) \/ Alive(t) \/ Dead(t)
                          \/ MakeRoom(t) \/ OpenSlot(t) \/ ConnectFails(t)
    \/ PoolTick

PoolSpec == PoolInit /\ [][PoolNext]_poolVars
-----------------------------------------------------------------------------
PoolTypeOK ==
    /\ \A e \in ToSet(entries) : e.key \in Credentials /\ e.conn \in DOMAIN owner
    /\ owner \in [1 .. MaxConns -> Credentials \cup {None}]
    /\ lockOf \in [Credentials -> Locks \cup {None}]
    /\ held \in [Locks -> Callers \cup {None}]
    /\ running \in Callers \cup {None}

(* The pool and its locks stay in order however calls interleave: an entry's   *)
(* connection is open and was opened for the credential it is served to; a     *)
(* caller that waits for a lock waits behind a call that still runs, or is     *)
(* woken; and a manager that connects without suspending keeps the pool within *)
(* max_size, although the room is made in steps that close other entries       *)
(* (mcp_sdk/connection.py:98-124, 150-169).                                    *)
PoolInOrder ==
    /\ PoolTypeOK
    /\ \A i, j \in DOMAIN entries : entries[i].key = entries[j].key => i = j
    /\ \A e \in ToSet(entries) : owner[e.conn] = e.key
    /\ \A t \in Callers : call[t].pc = "queued" =>
          LET l == call[t].lock IN
          /\ t \in ToSet(waiting[l])
          /\ held[l] # None => call[held[l]].lock = l /\ call[held[l]].pc \notin {"rest", "queued", "done"}
    /\ ~suspends => Len(entries) <= PoolSize

(* The connections of both ends of a tool call, the pool of the MCP server and *)
(* the stream of the backend, neither leak nor are closed under a call that    *)
(* uses them (mcp_sdk/connection.py, clients/mcp.py).                          *)
ConnectionsSound == PoolInOrder /\ NoStreamLeft
=============================================================================
