----------------------------- MODULE AdminCalls -----------------------------
(***************************************************************************)
(* The calls that gns3-service makes to GNS3 as its administrator          *)
(* (clients/admin): all share one token, which is renewed ahead of its     *)
(* expiry and again by whoever is answered 401; the calls that create      *)
(* things are repeated when their answer does not come, those that act on  *)
(* nodes or delete are not, and request() repeats nothing at all.          *)
(***************************************************************************)
EXTENDS Absent, Naturals, FiniteSets

CONSTANTS
  AdminTasks,   \* executions of the handlers that call GNS3
  Tries,        \* stop_after_attempt
  MaxTokens,    \* bound: tokens issued
  MaxTroubles   \* bound: restarts of GNS3 and failed renewals

ASSUME AdminAssumption ==
  Tries \in Nat \ {0} /\ {MaxTokens, MaxTroubles} \subseteq Nat /\ None \notin {"ok", "denied"}

VARIABLES
  adminToken, \* the client's, numbered as they are issued
  valid,      \* the tokens that GNS3 accepts
  renewal,    \* _refresh_task: "none", "waiting" or "asking"
  turn,       \* _refresh_lock: who holds it
  errand,     \* the calls
  troubles    \* restarts of GNS3 and failed renewals so far

adminVars == <<adminToken, valid, renewal, turn, errand, troubles>>

NoErrand == [pc |-> "idle", kind |-> None, try |-> 1, with |-> 0, renewed |-> FALSE,
             seen |-> 0, made |-> 0, answer |-> None]

\* authenticate at startup
AdminInit ==
  /\ adminToken = 1 /\ valid = {1} /\ renewal = "waiting" /\ turn = None /\ troubles = 0
  /\ errand = [c \in AdminTasks |-> NoErrand]

ErrandAt(c, pc) == errand[c].pc = pc
Answer(c, how) == errand' = [errand EXCEPT ![c].pc = "done", ![c].answer = how]
-----------------------------------------------------------------------------
(* The call *)

\* "retried": duplicate_project, open_project, create_user, create_acl, get_user_token;
\* "renewed": the deletions, the queries and the node actions; "plain": request.
Call(c, kind) ==
  /\ ErrandAt(c, "idle")
  /\ errand' = [errand EXCEPT ![c].pc = "send", ![c].kind = kind]
  /\ UNCHANGED <<adminToken, valid, renewal, turn, troubles>>

FirstToken(c) == IF errand[c].renewed THEN errand[c].with ELSE adminToken     \* mutant: headers built once
AuthHeaders(c) == adminToken
Send(c) ==
  /\ ErrandAt(c, "send")
  /\ errand' = [errand EXCEPT ![c].pc = "wait", ![c].with = AuthHeaders(c)]
  /\ UNCHANGED <<adminToken, valid, renewal, turn, troubles>>

\* _is_transient, stop_after_attempt: the answer that did not come.
Repeats(c) == errand[c].kind = "retried" /\ errand[c].try < Tries
Transient(c, made) ==
  errand' = [errand EXCEPT ![c] =
    IF Repeats(c)
    THEN [@ EXCEPT !.pc = "send", !.try = errand[c].try + 1, !.renewed = FALSE, !.made = made]
    ELSE [@ EXCEPT !.pc = "done", !.answer = "failed", !.made = made]]

\* GNS3 does what it is asked; the answer arrives, or is lost.
Done(c) ==
  /\ ErrandAt(c, "wait") /\ errand[c].with \in valid
  /\ \/ errand' = [errand EXCEPT ![c].pc = "done", ![c].answer = "ok", ![c].made = @ + 1]
     \/ Transient(c, errand[c].made + 1)
  /\ UNCHANGED <<adminToken, valid, renewal, turn, troubles>>

\* It is not reached, or it refuses.
NotDone(c) ==
  /\ ErrandAt(c, "wait")
  /\ Transient(c, errand[c].made) \/ (errand[c].with \in valid /\ Answer(c, "failed"))
  /\ UNCHANGED <<adminToken, valid, renewal, turn, troubles>>

\* retry_on_401: once.
Unauthorized(c) ==
  /\ ErrandAt(c, "wait") /\ errand[c].with \notin valid
  /\ IF errand[c].kind = "plain" \/ errand[c].renewed THEN Answer(c, "denied")
     ELSE errand' = [errand EXCEPT ![c].pc = "turn"]
  /\ UNCHANGED <<adminToken, valid, renewal, turn, troubles>>

TakeTurn(c) ==
  /\ ErrandAt(c, "turn") /\ turn = None /\ turn' = c
  /\ errand' = [errand EXCEPT ![c].pc = "renew"]
  /\ UNCHANGED <<adminToken, valid, renewal, troubles>>

\* authenticate: a new token, and a renewal for it in place of the one that waits.
NewToken == adminToken' = adminToken + 1 /\ valid' = valid \cup {adminToken + 1} /\ renewal' = "waiting"
Authenticated(c) ==
  /\ ErrandAt(c, "renew") /\ adminToken < MaxTokens /\ NewToken /\ turn' = None
  /\ errand' = [errand EXCEPT ![c].pc = "send", ![c].renewed = TRUE, ![c].seen = troubles]
  /\ UNCHANGED troubles

NotAuthenticated(c) ==
  /\ ErrandAt(c, "renew") /\ turn' = None
  /\ Transient(c, errand[c].made) \/ Answer(c, "failed")
  /\ UNCHANGED <<adminToken, valid, renewal, troubles>>
-----------------------------------------------------------------------------
(* _refresh_after, a minute ahead of the expiry *)

RenewalDue ==
  /\ renewal = "waiting" /\ turn = None
  /\ renewal' = "asking" /\ turn' = "renewal"
  /\ UNCHANGED <<adminToken, valid, errand, troubles>>

Renewed ==
  /\ renewal = "asking" /\ adminToken < MaxTokens /\ NewToken /\ turn' = None
  /\ UNCHANGED <<errand, troubles>>

\* Nothing is scheduled in its place.
RenewalFails ==
  /\ renewal = "asking" /\ troubles < MaxTroubles
  /\ renewal' = "none" /\ turn' = None /\ troubles' = troubles + 1
  /\ UNCHANGED <<adminToken, valid, errand>>

\* A minute is more than a renewal takes, and more than a call that began before it.
Expires(t) ==
  /\ t \in valid
  /\ IF t = adminToken THEN renewal = "none"
     ELSE \A c \in AdminTasks : ErrandAt(c, "wait") => errand[c].with # t
  /\ valid' = valid \ {t}
  /\ UNCHANGED <<adminToken, renewal, turn, errand, troubles>>

\* GNS3 comes back and knows none of the tokens.
Gns3Restarts ==
  /\ troubles < MaxTroubles /\ valid' = {} /\ troubles' = troubles + 1
  /\ UNCHANGED <<adminToken, renewal, turn, errand>>

AdminNext ==
  \/ \E c \in AdminTasks :
       \/ \E kind \in {"retried", "renewed", "plain"} : Call(c, kind)
       \/ Send(c) \/ Done(c) \/ NotDone(c) \/ Unauthorized(c)
       \/ TakeTurn(c) \/ Authenticated(c) \/ NotAuthenticated(c)
  \/ \E t \in valid : Expires(t)
  \/ RenewalDue \/ Renewed \/ RenewalFails \/ Gns3Restarts

AdminSpec == AdminInit /\ [][AdminNext]_adminVars
-----------------------------------------------------------------------------
\* A call that succeeds was carried out, and more than once only if it is one of those
\* that are repeated; a call that renews the token is refused for want of one only if
\* GNS3 restarted or a renewal failed since its own, and one that does not, only if that
\* ever happened; and the token is accepted unless that happened
\* (clients/admin/_http.py:26, 34, 108).
AdminSound ==
  /\ \A c \in AdminTasks : LET e == errand[c] IN
       /\ e.answer = "ok" => e.made >= 1
       /\ e.made > 1 => e.kind = "retried"
       /\ e.made <= e.try /\ e.try <= Tries
       /\ e.answer = "denied" => troubles > e.seen
  /\ adminToken \in valid \/ troubles > 0
=============================================================================
