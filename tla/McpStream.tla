------------------------------ MODULE McpStream ------------------------------
(* The backend's end of the link to an MCP server: one stream, owned by a task *)
(* of its own (clients/mcp_connection.py) and shared by every tool call of the *)
(* process (clients/mcp.py).  _connect and the locked part of _drop contain no *)
(* await, so each is one step.                                                 *)
EXTENDS Absent, Naturals

CONSTANTS ToolCalls,     \* concurrent tool calls
          Streams,       \* 1 .. n, bound on the connections of a behaviour
          Attempts       \* stop_after_attempt

ASSUME StreamAssumption ==
    Attempts \in Nat \ {0} /\ Streams \subseteq Nat /\ None \notin Streams

VARIABLES stream,    \* stream[s]: the owning task and what the callers see of it
          current,   \* MCPClient._connection
          tool       \* tool[c]: where a call is

streamVars == <<stream, current, tool>>

(* task: none yet, opening, open, unwinding (the contexts are being left while *)
(* the session is still set), done.                                            *)
NoStream == [task |-> "none", closing |-> FALSE]
NoCall == [pc |-> "new", on |-> None, tries |-> 0, error |-> "none"]

StreamInit ==
    /\ stream = [s \in Streams |-> NoStream]
    /\ current = None
    /\ tool = [c \in ToolCalls |-> NoCall]

Usable(s) == s # None /\ stream[s].task # "done"
Fresh == {s \in Streams : stream[s].task = "none"}

(* _connect: the shared connection, or a new one whose task starts at once.    *)
Connection(c) ==
    /\ tool[c].pc = "new"
    /\ \/ /\ Usable(current)
          /\ tool' = [tool EXCEPT ![c].pc = "waiting", ![c].on = current, ![c].tries = @ + 1]
          /\ UNCHANGED <<stream, current>>
       \/ \E s \in Fresh :
             /\ ~Usable(current) /\ \A f \in Fresh : s <= f
             /\ stream' = [stream EXCEPT ![s].task = "opening"]
             /\ current' = s
             /\ tool' = [tool EXCEPT ![c].pc = "waiting", ![c].on = s, ![c].tries = @ + 1]

(* _run: the handshake succeeds or not; a live stream ends because it is asked *)
(* to close or because the transport broke under it; leaving the contexts      *)
(* takes a while, in which the session still looks alive.                      *)
Opened(s) ==
    /\ stream[s].task = "opening"
    /\ stream' = [stream EXCEPT ![s].task = "open"]
    /\ UNCHANGED <<current, tool>>

OpenFails(s) ==
    /\ stream[s].task = "opening"
    /\ stream' = [stream EXCEPT ![s].task = "done"]
    /\ UNCHANGED <<current, tool>>

Unwinds(s) ==
    /\ stream[s].task = "open"
    /\ stream' = [stream EXCEPT ![s].task = "unwinding"]
    /\ UNCHANGED <<current, tool>>

Finished(s) ==
    /\ stream[s].task = "unwinding"
    /\ stream' = [stream EXCEPT ![s].task = "done"]
    /\ UNCHANGED <<current, tool>>

(* session(): waits for the handshake; a connection that is over raises what   *)
(* stopped it, or a ConnectionError.                                           *)
Ready(c) ==
    /\ tool[c].pc = "waiting"
    /\ stream[tool[c].on].task \in {"open", "unwinding"}
    /\ tool' = [tool EXCEPT ![c].pc = "calling"]
    /\ UNCHANGED <<stream, current>>

(* The kinds of failure the client tells apart: `network' errors drop the      *)
(* stream and are retried, `stream' errors (anyio's) drop it and are not       *)
(* retried, any other is raised as it is.                                      *)
ErrorKinds == {"network", "stream", "other"}
Raises(c, e) == tool' = [tool EXCEPT ![c].pc = IF e = "other" THEN "failed" ELSE "dropping",
                                     ![c].error = e]

NotReady(c) ==
    /\ tool[c].pc = "waiting" /\ stream[tool[c].on].task = "done"
    /\ \E e \in ErrorKinds : Raises(c, e)
    /\ UNCHANGED <<stream, current>>

Answered(c) ==
    /\ tool[c].pc = "calling" /\ stream[tool[c].on].task = "open"
    /\ tool' = [tool EXCEPT ![c].pc = "answered"]
    /\ UNCHANGED <<stream, current>>

CallFails(c) ==
    /\ tool[c].pc = "calling"
    /\ \E e \in ErrorKinds : Raises(c, e)
    /\ UNCHANGED <<stream, current>>

(* _drop forgets the connection only if it is still the shared one, and asks   *)
(* its task to close, which a handshake in progress does not notice.           *)
Forget(s) == current' = IF current = s THEN None ELSE current
Drop(c) ==
    /\ tool[c].pc = "dropping"
    /\ Forget(tool[c].on)
    /\ stream' = [stream EXCEPT ![tool[c].on].closing = TRUE]
    /\ tool' = [tool EXCEPT ![c].pc = "closing"]

(* close() waits until the task is done; after CLOSE_TIMEOUT wait_for cancels  *)
(* it.  Then the failure is raised, and retried if it was the network's.       *)
Again(c) == tool[c].error = "network" /\ tool[c].tries < Attempts
Closed(c) ==
    /\ tool[c].pc = "closing" /\ stream[tool[c].on].task = "done"
    /\ tool' = [tool EXCEPT ![c].pc = IF Again(c) THEN "new" ELSE "failed",
                            ![c].on = None, ![c].error = "none"]
    /\ UNCHANGED <<stream, current>>

CloseTimeout(c) ==
    /\ tool[c].pc = "closing" /\ stream[tool[c].on].task # "done"
    /\ stream' = [stream EXCEPT ![tool[c].on].task = "done"]
    /\ UNCHANGED <<current, tool>>

(* A call is cancelled with the monitor that made it; the close it may have    *)
(* asked for was already set.                                                  *)
Cancel(c) ==
    /\ tool[c].pc \in {"waiting", "calling", "closing"}
    /\ tool' = [tool EXCEPT ![c].pc = "cancelled"]
    /\ UNCHANGED <<stream, current>>

StreamNext ==
    \/ \E c \in ToolCalls : \/ Connection(c) \/ Ready(c) \/ NotReady(c) \/ Answered(c)
                            \/ CallFails(c) \/ Drop(c) \/ Closed(c) \/ CloseTimeout(c)
                            \/ Cancel(c)
    \/ \E s \in Streams : Opened(s) \/ OpenFails(s) \/ Unwinds(s) \/ Finished(s)

StreamSpec == StreamInit /\ [][StreamNext]_streamVars
-----------------------------------------------------------------------------
StreamTypeOK ==
    /\ stream \in [Streams -> [task : {"none", "opening", "open", "unwinding", "done"},
                               closing : BOOLEAN]]
    /\ current \in Streams \cup {None}
    /\ \A c \in ToolCalls : tool[c].tries \in 0 .. Attempts

TaskRunning(s) == stream[s].task \in {"opening", "open", "unwinding"}

(* No stream is left behind: a task that runs and was not asked to close owns  *)
(* the shared connection, whatever calls failed on it or on the ones before it *)
(* and dropped them in which order; and a call never waits for a stream that   *)
(* nothing will end (clients/mcp.py:61-76, clients/mcp_connection.py:58).      *)
NoStreamLeft ==
    /\ StreamTypeOK
    /\ \A s \in Streams : TaskRunning(s) /\ ~stream[s].closing => s = current
    /\ current # None => stream[current].task # "none" /\ ~stream[current].closing
=============================================================================
