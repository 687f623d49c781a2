--------------------------- MODULE ConsoleChecks ---------------------------
(***************************************************************************)
(* The checks of a lab on the consoles of its nodes (validation/checks):   *)
(* a validation run, the progress observer and the saving of a             *)
(* configuration, in one process, ask the same consoles while nodes stop,  *)
(* consoles stay silent and requests are cut off.  GNS3 refuses the second *)
(* client of a console.                                                    *)
(***************************************************************************)
EXTENDS Absent, Naturals, SequencesExt

CONSTANTS
  Checks,           \* executions of a handler
  Nodes,
  Kind,             \* per check: see CheckKinds
  Source, Target,   \* per check: the node asked; for "ping_node" also the node pinged
  ConnectAttempts,  \* _CONNECT_ATTEMPTS
  ReadAttempts      \* _READ_ATTEMPTS

(***************************************************************************)
(* "show_ip"    the address of a node is read and compared                 *)
(* "ping"       a node pings an address                                    *)
(* "ping_node"  a node pings the address that is read from another one     *)
(* "cisco"      a show command on a Cisco console                          *)
(* "save"       save_startup_config                                        *)
(***************************************************************************)
CheckKinds == {"show_ip", "ping", "ping_node", "cisco", "save"}

ASSUME CheckAssumption ==
  /\ Kind \in [Checks -> CheckKinds]
  /\ Source \in [Checks -> Nodes] /\ Target \in [Checks -> Nodes]
  /\ ConnectAttempts \in Nat \ {0} /\ ReadAttempts \in Nat \ {0}
  /\ None \notin Checks \cup Nodes \cup {"closing", "good", "bad"} /\ "closing" \notin Checks

VARIABLES
  up,        \* the nodes that run
  locks,     \* _console_locks: per node who holds the lock, then who waits for it
  client,    \* whom GNS3 serves on the console; "closing" until it notices they have left
  check      \* the executions, and how they have ended

consoleVars == <<up, locks, client, check>>

Unchecked == [pc |-> "idle", node |-> None, asks |-> "none", connects |-> 0, reads |-> 0,
              answer |-> None, ok |-> FALSE, observed |-> TRUE]

ConsoleInit ==
  /\ up = Nodes
  /\ locks = [n \in Nodes |-> <<>>]
  /\ client = [n \in Nodes |-> None]
  /\ check = [c \in Checks |-> Unchecked]

CheckAt(c, pc) == check[c].pc = pc
CheckTo(c, pc) == check' = [check EXCEPT ![c].pc = pc]
Node(c) == check[c].node

\* A CheckResult.
Conclude(c, ok, observed) ==
  check' = [check EXCEPT ![c].pc = "done", ![c].ok = ok, ![c].observed = observed]
-----------------------------------------------------------------------------
(* Asking one console *)

\* The handlers for Cisco connect without the lock, and once.
Locking(c) == Kind[c] # "cisco"
Tries(c) == IF Locking(c) THEN ConnectAttempts ELSE 1

\* Every question has a connection of its own, and queues for the lock.
Approach(c, node, asks) ==
  /\ check' = [check EXCEPT ![c].pc = "connect", ![c].node = node, ![c].asks = asks,
                            ![c].connects = 0, ![c].answer = None]
  /\ locks' = IF Locking(c) THEN [locks EXCEPT ![node] = Append(@, c)] ELSE locks

\* A missing parameter, or a node without a console, is a failed check.
Begin(c) ==
  /\ CheckAt(c, "idle")
  /\ \/ Kind[c] = "ping_node" /\ Approach(c, Target[c], "show_ip")
     \/ Kind[c] # "ping_node" /\ Approach(c, Source[c], Kind[c])
     \/ CheckTo(c, "rejected") /\ UNCHANGED locks
  /\ UNCHANGED <<up, client>>

MyTurn(c) == Locking(c) => Head(locks[Node(c)]) = c
AnyTurn(c) == TRUE     \* mutant: nobody waits for the lock
Turn(c) == MyTurn(c)

Connect(c) ==
  /\ CheckAt(c, "connect") /\ Turn(c)
  /\ IF client[Node(c)] = None /\ Node(c) \in up
     THEN client' = [client EXCEPT ![Node(c)] = c] /\ CheckTo(c, "ask")
     ELSE /\ check' = [check EXCEPT ![c].connects = @ + 1,
                                    ![c].pc = IF check[c].connects + 1 = Tries(c) THEN "close" ELSE @]
          /\ UNCHANGED client
  /\ UNCHANGED <<up, locks>>

\* The console says what was to be seen or something else, or, for as long as
\* the handler reads and asks again, nothing.
Ask(c) ==
  /\ CheckAt(c, "ask")
  /\ \E answer \in {None} \cup (IF Node(c) \in up THEN {"good", "bad"} ELSE {}) :
       check' = [check EXCEPT ![c].pc = "close", ![c].answer = answer]
  /\ UNCHANGED <<up, locks, client>>

\* The connection is closed and the lock released; GNS3 notices it later.
Hangup(c) == [n \in Nodes |-> IF client[n] = c THEN "closing" ELSE client[n]]
HungUp(c) == Hangup(c)
Places(q, c) == {i \in DOMAIN q : q[i] = c}
LeftBy(q, c) == IF Places(q, c) = {} THEN q ELSE RemoveAt(q, CHOOSE i \in Places(q, c) : TRUE)
Released(c) == [n \in Nodes |-> LeftBy(locks[n], c)]

Silent(c) == check[c].answer = None
Asks(c, what) == check[c].asks = what

\* What the handler makes of it.  An address is read again on a new connection,
\* and "not observed" in the end; so is a ping without an answer, but one without
\* a connection has failed, as have the other silent or refused questions.
Leave(c) ==
  /\ CheckAt(c, "close")
  /\ client' = HungUp(c) /\ locks' = Released(c)
  /\ \/ /\ Silent(c) /\ Asks(c, "show_ip") /\ check[c].reads + 1 < ReadAttempts
        /\ check' = [check EXCEPT ![c].pc = "again", ![c].reads = @ + 1]
     \/ /\ Silent(c) /\ Asks(c, "show_ip") /\ check[c].reads + 1 = ReadAttempts
        /\ Conclude(c, FALSE, FALSE)
     \/ /\ Silent(c) /\ ~Asks(c, "show_ip")
        /\ Conclude(c, FALSE, Asks(c, "ping") => check[c].connects = Tries(c))
     \/ /\ ~Silent(c) /\ Kind[c] = "ping_node" /\ Asks(c, "show_ip")
        /\ CheckTo(c, "ping")
     \/ /\ ~Silent(c) /\ ~(Kind[c] = "ping_node" /\ Asks(c, "show_ip"))
        /\ Conclude(c, check[c].answer = "good", TRUE)
  /\ UNCHANGED up

GoOn(c) ==
  /\ \/ CheckAt(c, "again") /\ Approach(c, Node(c), "show_ip")
     \/ CheckAt(c, "ping") /\ Approach(c, Source[c], "ping")
  /\ UNCHANGED <<up, client>>

Running(c) == check[c].pc \in {"connect", "ask", "close", "again", "ping"}

\* The request is cut off, or the observer stopped: the context managers leave.
CutCheck(c) ==
  /\ Running(c)
  /\ client' = HungUp(c) /\ locks' = Released(c)
  /\ CheckTo(c, "cut")
  /\ UNCHANGED up

Notice(n) ==
  /\ client[n] = "closing"
  /\ client' = [client EXCEPT ![n] = None]
  /\ UNCHANGED <<up, locks, check>>

SwitchNode(n) ==
  /\ up' = IF n \in up THEN up \ {n} ELSE up \cup {n}
  /\ UNCHANGED <<locks, client, check>>

ConsoleNext ==
  \/ \E c \in Checks : Begin(c) \/ Connect(c) \/ Ask(c) \/ Leave(c) \/ GoOn(c) \/ CutCheck(c)
  \/ \E n \in Nodes : Notice(n) \/ SwitchNode(n)

ConsoleSpec == ConsoleInit /\ [][ConsoleNext]_consoleVars
-----------------------------------------------------------------------------
ConsoleTypeOK ==
  /\ up \subseteq Nodes
  /\ locks \in [Nodes -> Seq(Checks)]
  /\ client \in [Nodes -> Checks \cup {None, "closing"}]
  /\ \A c \in Checks : /\ check[c].node \in Nodes \cup {None} /\ check[c].answer \in {None, "good", "bad"}
                       /\ check[c].connects \in 0 .. ConnectAttempts /\ check[c].reads < ReadAttempts

\* The checks share the consoles: a check that queues for a lock never finds
\* another such check connected, whoever was cut off before it; whoever has left,
\* for whatever reason, has hung up and waits for nothing; and an address that is
\* read is reported wrong only if the console has said so, "not observed" only
\* after every attempt.
ConsolesShared ==
  /\ ConsoleTypeOK
  /\ \A n \in Nodes :
       /\ client[n] \in Checks => Running(client[n]) /\ Node(client[n]) = n
       /\ IsInjective(locks[n])
       /\ \A c \in Range(locks[n]) : Running(c) /\ Node(c) = n
  /\ \A c \in Checks : CheckAt(c, "connect") /\ Locking(c) /\ Turn(c) =>
       client[Node(c)] \notin {d \in Checks : Locking(d)}
  /\ \A c \in Checks : CheckAt(c, "done") /\ Asks(c, "show_ip") =>
       /\ check[c].observed <=> ~Silent(c)
       /\ ~check[c].observed => check[c].reads = ReadAttempts - 1
=============================================================================
