----------------------------- MODULE ToolRequests -----------------------------
(***************************************************************************)
(* What the backend asks of a learner's lab through the MCP server of GNS3 *)
(* (clients/mcp.py, mcp_sdk/server.py, gns3-mcp): directly for the learner *)
(* (stop_lab, restart_lab, the tools of the chat) or through the gates of  *)
(* ControlInterface.  A request whose answer does not come is sent again,  *)
(* one that the server refuses is not, and GNS3 may carry out at any later *)
(* time what was given up.  The logs of a project are kept by the server   *)
(* from the first time they are asked for.                                 *)
(***************************************************************************)
EXTENDS Absent, Naturals, FiniteSets, SequencesExt

CONSTANTS
  Askers,     \* requests for a tool
  Tenants,    \* pairs of a learner and their project
  Sends       \* stop_after_attempt

Answers == {"ok", "lost", "error", "denied", "not_found"}

ASSUME ToolAssumption == Sends \in Nat \ {0} /\ None \notin Tenants \cup Answers

VARIABLES
  ask,        \* the requests
  pending,    \* what the server and GNS3 may yet carry out: [of, try, step, wish]
  running,    \* tenants whose nodes are on
  late,       \* tenants of whom something pending was given up
  consents,   \* tenants who consent
  stamped,    \* tenants acted upon within the cooldown
  audit,      \* rows: [of, verdict]
  logs,       \* _log_buffers: who is listened to, and whose lines are held
  component   \* what the component asked about is: "node", "link" or "gone"

toolVars == <<ask, pending, running, late, consents, stamped, audit, logs, component>>

Unheard == [listens |-> None, holds |-> {}]
NoAsk == [pc |-> "idle", for |-> None, via |-> "none", plan |-> <<>>, step |-> 1, try |-> 1,
          ran |-> <<0, 0>>, told |-> 0, seen |-> "none", lines |-> {}, answer |-> None]

ToolInit ==
  /\ ask = [c \in Askers |-> NoAsk] /\ pending = {} /\ running = Tenants /\ late = {}
  /\ consents = Tenants /\ stamped = {} /\ audit = {}
  /\ logs = [t \in Tenants |-> Unheard] /\ component \in {"node", "link"}

AskAt(c, pc) == ask[c].pc = pc
\* The tool that the client's method names in its call.
Wish(c) == ask[c].plan[ask[c].step]
AuditRow(c, verdict) ==
  audit' = IF ask[c].via = "direct" THEN audit ELSE audit \cup {[of |-> c, verdict |-> verdict]}

\* A tool of the table is one request of GNS3; only restart_lab makes two.  Of what
\* execute_action is asked for, some is unknown or lacks a parameter.
SimpleTools == {<<"stop">>, <<"start">>}
RestartLab == <<"stop", "start">>
ObserveTools == {<<"component">>, <<"logs">>}
Actions == SimpleTools \cup {<<"odd">>}
DirectTools == {<<"stop">>, RestartLab} \cup ObserveTools
-----------------------------------------------------------------------------
(* Who asks *)

\* stop_lab, restart_lab and execute_tool look the session up by its owner.
AskDirectly(c, t, plan) ==
  /\ AskAt(c, "idle")
  /\ ask' = [ask EXCEPT ![c].pc = "send", ![c].for = t, ![c].via = "direct", ![c].plan = plan]
  /\ UNCHANGED <<pending, running, late, consents, stamped, audit, logs, component>>

\* ControlInterface: the owner, the consent, the arm and the rate, in this order.
Verdict(t, via, owner, closed) ==
  IF ~owner THEN "isolation"
  ELSE IF t \notin consents THEN "consent"
  ELSE IF via = "act" /\ ~closed THEN "open_arm"
  ELSE IF via = "act" /\ t \in stamped THEN "rate" ELSE "passed"

AskGated(c, t, via, plan) ==
  /\ AskAt(c, "idle")
  /\ \E owner, closed \in BOOLEAN : LET verdict == Verdict(t, via, owner, closed) IN
       IF verdict = "passed"
       THEN /\ ask' = [ask EXCEPT ![c].pc = "send", ![c].for = t, ![c].via = via, ![c].plan = plan]
            /\ UNCHANGED audit
       ELSE /\ ask' = [ask EXCEPT ![c].pc = "done", ![c].for = t, ![c].via = via,
                                  ![c].plan = plan, ![c].answer = "denied"]
            /\ audit' = audit \cup {[of |-> c, verdict |-> verdict]}
  /\ UNCHANGED <<pending, running, late, consents, stamped, logs, component>>

\* Nobody reads consents and stamps once every request is past the gates.
Undecided == \E c \in Askers : AskAt(c, "idle")
Withdraw(t) ==
  /\ Undecided /\ t \in consents /\ consents' = consents \ {t}
  /\ UNCHANGED <<ask, pending, running, late, stamped, audit, logs, component>>

CoolsDown(t) ==
  /\ Undecided /\ t \in stamped /\ stamped' = stamped \ {t}
  /\ UNCHANGED <<ask, pending, running, late, consents, audit, logs, component>>
-----------------------------------------------------------------------------
(* MCPClient._call_tool *)

SendWish(c) ==
  /\ AskAt(c, "send")
  /\ ask' = [ask EXCEPT ![c].pc = "wait"]
  /\ pending' = IF Wish(c) \in {"stop", "start"}
                THEN pending \cup {[of |-> c, try |-> ask[c].try, step |-> ask[c].step, wish |-> Wish(c)]}
                ELSE pending
  /\ UNCHANGED <<running, late, consents, stamped, audit, logs, component>>

\* The end of the call: act stamps the window whether or not it succeeded.
Ends(c, fields, answer) ==
  /\ ask' = [ask EXCEPT ![c] = [fields EXCEPT !.pc = "done", !.answer = answer]]
  /\ stamped' = IF ask[c].via = "act" THEN stamped \cup {ask[c].for} ELSE stamped
  /\ AuditRow(c, answer)

\* restart_lab goes on to its second request.
Goes(c, fields) ==
  IF fields.step < Len(fields.plan)
  THEN /\ ask' = [ask EXCEPT ![c] = [fields EXCEPT !.pc = "send", !.step = fields.step + 1, !.try = 1]]
       /\ UNCHANGED <<stamped, audit>>
  ELSE Ends(c, fields, "ok")

\* The stream breaks, or the answer does not come: again, if it is an error to retry.
SendsAgain(c) == ask[c].try < Sends
Loses(c, fields) ==
  \/ /\ SendsAgain(c)
     /\ ask' = [ask EXCEPT ![c] = [fields EXCEPT !.pc = "send", !.try = fields.try + 1]]
     /\ UNCHANGED <<stamped, audit>>
  \/ Ends(c, fields, "lost")

Waiting(p) == AskAt(p.of, "wait") /\ ask[p.of].try = p.try /\ ask[p.of].step = p.step
StreamBreaks(c) ==
  /\ AskAt(c, "wait") \/ AskAt(c, "links")
  /\ Loses(c, ask[c])
  /\ late' = IF \E p \in pending : p.of = c THEN late \cup {ask[c].for} ELSE late
  /\ UNCHANGED <<pending, running, consents, logs, component>>
-----------------------------------------------------------------------------
(* GNS3Server.execute_action, the tools of the table, and GNS3 *)

\* _tool_errors: whatever the server raises is an error of the tool, and final.
Refused(c, fields) == Ends(c, fields, "error")

\* Any request may name a context without a project, or one the pool has no connection
\* for; of execute_action, an action that is unknown or lacks a parameter always fails.
\* Nothing of this try reaches GNS3.
RefuseUnsent(c) ==
  /\ AskAt(c, "wait")
  /\ pending' = {p \in pending : p.of # c \/ ~Waiting(p)}
  /\ Refused(c, [ask[c] EXCEPT !.told = @ + 1])
  /\ UNCHANGED <<running, late, consents, logs, component>>

\* GNS3 refuses, or cannot be reached.
RefuseSent(p) ==
  /\ p \in pending /\ pending' = pending \ {p}
  /\ IF Waiting(p) THEN Refused(p.of, [ask[p.of] EXCEPT !.told = @ + 1])
     ELSE UNCHANGED <<ask, stamped, audit>>
  /\ UNCHANGED <<running, late, consents, logs, component>>

\* The server waits no longer, which to it is an error like any other.
TimeOut(p) ==
  /\ p \in pending /\ Waiting(p)
  /\ Refused(p.of, [ask[p.of] EXCEPT !.told = @ + 1])
  /\ late' = late \cup {ask[p.of].for}
  /\ UNCHANGED <<pending, running, consents, logs, component>>

CarryOut(p) ==
  /\ p \in pending /\ pending' = pending \ {p}
  /\ running' = IF p.wish = "start" THEN running \cup {ask[p.of].for} ELSE running \ {ask[p.of].for}
  /\ LET fields == [ask[p.of] EXCEPT !.ran[p.step] = @ + 1] IN
     IF Waiting(p) THEN Goes(p.of, fields)
     ELSE ask' = [ask EXCEPT ![p.of] = fields] /\ UNCHANGED <<stamped, audit>>
  /\ UNCHANGED <<late, consents, logs, component>>
-----------------------------------------------------------------------------
(* GNS3Server.get_component *)

Found(c, what) == Goes(c, [ask[c] EXCEPT !.seen = what])

\* get_node and list_links: an error status of either is taken for "not a node", a server
\* that cannot be reached is an error of the tool.
NoNode(c) ==
  /\ ask' = [ask EXCEPT ![c].pc = "links"]
  /\ UNCHANGED <<stamped, audit>>
ReadNode(c) ==
  /\ AskAt(c, "wait") /\ Wish(c) = "component"
  /\ (component = "node" /\ Found(c, "node")) \/ NoNode(c)
  /\ UNCHANGED <<pending, running, late, consents, logs, component>>

\* list_links and list_nodes: here an error status is an error as well.
ReadLinks(c) ==
  /\ AskAt(c, "links")
  /\ \/ component = "link" /\ Found(c, "link")
     \/ component # "link" /\ Ends(c, [ask[c] EXCEPT !.told = @ + 1], "not_found")
     \/ Refused(c, [ask[c] EXCEPT !.told = @ + 1])
  /\ UNCHANGED <<pending, running, late, consents, logs, component>>

RemoveComponent ==
  /\ \E c \in Askers : AskAt(c, "links") \/ (AskAt(c, "wait") /\ Wish(c) = "component")
  /\ component # "gone" /\ component' = "gone"
  /\ UNCHANGED <<ask, pending, running, late, consents, stamped, audit, logs>>
-----------------------------------------------------------------------------
(* GNS3Server._ensure_log_buffer *)

FirstBuffer(t) == CHOOSE u \in Tenants : logs[u].listens # None \/ \A v \in Tenants : logs[v].listens = None  \* mutant
BufferOf(t) == t
ReadLogs(c) ==
  /\ AskAt(c, "wait") /\ Wish(c) = "logs"
  /\ LET b == BufferOf(ask[c].for) IN
     /\ logs' = IF logs[b].listens = None THEN [logs EXCEPT ![b].listens = ask[c].for] ELSE logs
     /\ Goes(c, [ask[c] EXCEPT !.lines = logs[b].holds])
  /\ UNCHANGED <<pending, running, late, consents, component>>

Line(t) ==
  /\ \E b \in Tenants : logs[b].listens = t /\ t \notin logs[b].holds
  /\ logs' = [b \in Tenants |-> IF logs[b].listens = t THEN [logs[b] EXCEPT !.holds = @ \cup {t}] ELSE logs[b]]
  /\ UNCHANGED <<ask, pending, running, late, consents, stamped, audit, component>>

StopsListening(b) ==
  /\ logs[b].listens # None /\ logs' = [logs EXCEPT ![b].listens = None]
  /\ UNCHANGED <<ask, pending, running, late, consents, stamped, audit, component>>

ToolNext ==
  \/ \E c \in Askers :
       \/ \E t \in Tenants :
            \/ \E plan \in DirectTools : AskDirectly(c, t, plan)
            \/ \E plan \in ObserveTools : AskGated(c, t, "observe", plan)
            \/ \E plan \in Actions : AskGated(c, t, "act", plan)
       \/ SendWish(c) \/ StreamBreaks(c) \/ RefuseUnsent(c) \/ ReadNode(c) \/ ReadLinks(c) \/ ReadLogs(c)
  \/ \E p \in pending : RefuseSent(p) \/ TimeOut(p) \/ CarryOut(p)
  \/ \E t \in Tenants : Withdraw(t) \/ CoolsDown(t) \/ Line(t) \/ StopsListening(t)
  \/ RemoveComponent

ToolSpec == ToolInit /\ [][ToolNext]_toolVars
-----------------------------------------------------------------------------
Rivals(c) == {d \in Askers \ {c} : ask[d].for = ask[c].for /\ ToSet(ask[d].plan) \cap {"stop", "start"} # {}}

\* A call that succeeds had GNS3 carry out each of its requests, and a request is carried
\* out as often as it was sent at most: once, unless its answer was lost.  What the
\* server refuses is not sent again, and what it does not know or the gates deny never
\* reaches GNS3.  A restart starts nothing before it was told of the stop, and leaves the
\* nodes running unless somebody else acts on them or a request was given up that GNS3
\* carries out later.  Every call through the gates leaves one audit row, whatever its
\* end.  A learner is shown log lines of their own project only, and that a component is
\* not found only if it is no link (mcp.py:92, lifecycle.py:181, interface.py:45,
\* gns3-mcp server.py:157, 204).
ToolsSound ==
  /\ \A c \in Askers : LET a == ask[c] IN
       /\ a.answer = "ok" => \A i \in DOMAIN a.plan : a.plan[i] \in {"stop", "start"} => a.ran[i] >= 1
       /\ \A i \in DOMAIN a.plan : a.ran[i] <= (IF i = a.step THEN a.try ELSE Sends)
       /\ a.told <= 1 /\ a.try <= Sends
       /\ a.answer = "denied" \/ a.plan = <<"odd">> => a.ran = <<0, 0>>
       /\ a.ran[2] > 0 => a.ran[1] > 0
       /\ a.plan = RestartLab /\ a.answer = "ok" /\ Rivals(c) = {} /\ a.for \notin late
            => a.for \in running
       /\ a.via \in {"observe", "act"} /\ AskAt(c, "done") <=> \E r \in audit : r.of = c
       /\ a.lines \subseteq {a.for}
       /\ a.answer = "not_found" => component # "link"
  /\ \A r, s \in audit : r.of = s.of => r = s
=============================================================================
