-------------------------- MODULE AdminCalls_proofs --------------------------
(***************************************************************************)
(* What is done in somebody's name: what the answers of the                *)
(* administrator's calls of GNS3 are worth, for any number of calls at     *)
(* once, of tries and of tokens, whatever fails or restarts; who is let in *)
(* on the word of a token, for any number of people and requests; and what *)
(* becomes of a learner's lab when tools are asked for, for any number of  *)
(* calls, of labs and of tries; and what the readers of the back office    *)
(* are shown, for any number of rows and size of a page.                   *)
(***************************************************************************)
EXTENDS AdminCalls, AccountAccess, ToolRequests, BackOffice, FiniteSetTheorems,
        SequenceTheorems, WellFoundedInduction, TLAPS

(* The inductive invariant *)

Errands ==
  [pc : {"idle", "send", "wait", "turn", "renew", "done"},
   kind : {"retried", "renewed", "plain", None}, try : 1 .. Tries, with : Nat,
   renewed : BOOLEAN, seen : Nat, made : Nat, answer : {"ok", "failed", "denied", None}]

AdminTypeOK ==
  /\ adminToken \in Nat /\ troubles \in Nat
  /\ renewal \in {"none", "waiting", "asking"}
  /\ errand \in [AdminTasks -> Errands]

\* A call is carried out once per try at most, and repeated if it is of that kind.
CarriedOut(e) ==
  /\ e.pc = "done" => e.made <= e.try
  /\ e.pc # "done" => e.made < e.try /\ e.answer = None
  /\ e.pc = "idle" => e.try = 1
  /\ e.try > 1 => e.kind = "retried"
  /\ e.answer = "ok" => e.made >= 1

\* The token is accepted, and will be renewed in time, unless something has gone wrong
\* since the call renewed it; while it waits, its own is accepted on that condition.
Kept(e) ==
  /\ e.seen <= troubles
  /\ adminToken \notin valid \/ renewal = "none" => troubles > e.seen
  /\ e.pc = "wait" /\ e.with \notin valid => troubles > e.seen
  /\ e.answer = "denied" => troubles > e.seen

AdminInv ==
  /\ AdminTypeOK
  /\ adminToken \notin valid \/ renewal = "none" => troubles > 0
  /\ \A c \in AdminTasks : CarriedOut(errand[c]) /\ Kept(errand[c])
-----------------------------------------------------------------------------
(* Steps *)

\* The invariant is kept by a step that changes one call only, if it is kept for that call.
LEMMA OneCallMoves ==
  ASSUME AdminInv, NEW c \in AdminTasks, NEW e \in Errands,
         errand' = [errand EXCEPT ![c] = e], CarriedOut(e), Kept(e),
         UNCHANGED <<adminToken, valid, renewal, troubles>>
  PROVE  AdminInv'
<1>1. AdminTypeOK'  BY DEF AdminInv, AdminTypeOK
<1>2. (adminToken \notin valid \/ renewal = "none" => troubles > 0)'  BY DEF AdminInv
<1>3. ASSUME NEW d \in AdminTasks  PROVE CarriedOut(errand[d])' /\ Kept(errand[d])'
  <2>1. CASE d = c
    <3>1. errand'[d] = e  BY <2>1 DEF AdminInv, AdminTypeOK
    <3> QED  BY <3>1 DEF CarriedOut, Kept
  <2>2. CASE d # c
    <3>1. errand'[d] = errand[d]  BY <2>2 DEF AdminInv, AdminTypeOK
    <3> QED  BY <3>1 DEF AdminInv, CarriedOut, Kept
  <2> QED  BY <2>1, <2>2
<1> QED  BY <1>1, <1>2, <1>3 DEF AdminInv

\* An answer that does not come: the call is tried again, or it has failed.
LEMMA TransientKeeps ==
  ASSUME AdminInv, NEW c \in AdminTasks, NEW made \in Nat,
         errand[c].pc # "done", made <= errand[c].made + 1, Transient(c, made),
         UNCHANGED <<adminToken, valid, renewal, troubles>>
  PROVE  AdminInv'
<1> DEFINE again == [errand[c] EXCEPT !.pc = "send", !.try = @ + 1, !.renewed = FALSE, !.made = made]
           over  == [errand[c] EXCEPT !.pc = "done", !.answer = "failed", !.made = made]
<1>1. errand[c] \in Errands /\ CarriedOut(errand[c]) /\ Kept(errand[c])  BY DEF AdminInv, AdminTypeOK
<1>2. Tries \in Nat  BY AdminAssumption
<1>3. errand[c].try \in 1 .. Tries /\ errand[c].made < errand[c].try /\ errand[c].made \in Nat
      /\ errand[c].answer = None
  BY <1>1 DEF Errands, CarriedOut
<1>4. CASE Repeats(c)
  <2>1. errand[c].try + 1 \in 1 .. Tries  BY <1>2, <1>3, <1>4 DEF Repeats
  <2>2. again \in Errands  BY Zenon, <1>1, <2>1 DEF Errands
  <2>3. again.pc = "send" /\ again.try = errand[c].try + 1 /\ again.made = made
        /\ again.answer = None /\ again.kind = "retried" /\ again.seen = errand[c].seen
    BY <1>1, <1>3, <1>4 DEF Errands, Repeats
  <2>4. CarriedOut(again)  BY <1>2, <1>3, <2>3, AdminAssumption DEF CarriedOut
  <2>5. Kept(again)  BY <1>1, <2>3 DEF Kept
  <2>6. errand' = [errand EXCEPT ![c] = again]  BY Zenon, <1>4 DEF Transient
  <2> QED  BY <2>2, <2>4, <2>5, <2>6, OneCallMoves
<1>5. CASE ~Repeats(c)
  <2>1. over \in Errands  BY <1>1 DEF Errands
  <2>2. over.pc = "done" /\ over.try = errand[c].try /\ over.made = made
        /\ over.answer = "failed" /\ over.kind = errand[c].kind
    BY <1>1 DEF Errands
  <2>3. CarriedOut(over)  BY <1>1, <1>2, <1>3, <2>2 DEF CarriedOut
  <2>4. Kept(over)  BY <1>1 DEF Errands, Kept
  <2>5. errand' = [errand EXCEPT ![c] = over]  BY <1>5 DEF Transient
  <2> QED  BY <2>1, <2>3, <2>4, <2>5, OneCallMoves
<1> QED  BY <1>4, <1>5

\* An answer that ends the call without its having been carried out.
LEMMA AnswerKeeps ==
  ASSUME AdminInv, NEW c \in AdminTasks, NEW how \in {"failed", "denied"},
         errand[c].pc # "done", how = "denied" => troubles > errand[c].seen, Answer(c, how),
         UNCHANGED <<adminToken, valid, renewal, troubles>>
  PROVE  AdminInv'
<1> DEFINE e == [errand[c] EXCEPT !.pc = "done", !.answer = how]
<1>1. errand[c] \in Errands /\ CarriedOut(errand[c]) /\ Kept(errand[c])  BY DEF AdminInv, AdminTypeOK
<1>2. e \in Errands  BY <1>1 DEF Errands
<1>3. CarriedOut(e)  BY <1>1 DEF Errands, CarriedOut
<1>4. Kept(e)  BY <1>1 DEF Errands, Kept
<1>5. errand' = [errand EXCEPT ![c] = e]  BY DEF Answer
<1> QED  BY <1>2, <1>3, <1>4, <1>5, OneCallMoves

\* A call is made, sent, waits for its turn or takes it: only its place changes.
LEMMA PlaceKeeps ==
  ASSUME AdminInv, NEW c \in AdminTasks,
         \/ \E kind \in {"retried", "renewed", "plain"} : Call(c, kind)
         \/ Send(c) \/ TakeTurn(c)
  PROVE  AdminInv'
<1>1. errand[c] \in Errands /\ CarriedOut(errand[c]) /\ Kept(errand[c])  BY DEF AdminInv, AdminTypeOK
<1>2. ASSUME NEW kind \in {"retried", "renewed", "plain"}, Call(c, kind)  PROVE AdminInv'
  <2> DEFINE e == [errand[c] EXCEPT !.pc = "send", !.kind = kind]
  <2>1. e \in Errands  BY <1>1 DEF Errands
  <2>2. CarriedOut(e)  BY <1>1, <1>2 DEF Errands, CarriedOut, Call, ErrandAt
  <2>3. Kept(e)  BY <1>1 DEF Errands, Kept
  <2>4. errand' = [errand EXCEPT ![c] = e]  BY <1>2 DEF Call
  <2> QED  BY <1>2, <2>1, <2>2, <2>3, <2>4, OneCallMoves DEF Call
<1>3. CASE Send(c)
  <2> DEFINE e == [errand[c] EXCEPT !.pc = "wait", !.with = adminToken]
  <2>1. e \in Errands  BY <1>1 DEF Errands, AdminInv, AdminTypeOK
  <2>2. CarriedOut(e)  BY <1>1, <1>3 DEF Errands, CarriedOut, Send, ErrandAt
  <2>3. Kept(e)  BY <1>1 DEF Errands, Kept
  <2>4. errand' = [errand EXCEPT ![c] = e]  BY <1>3 DEF Send, AuthHeaders
  <2> QED  BY <1>3, <2>1, <2>2, <2>3, <2>4, OneCallMoves DEF Send
<1>4. CASE TakeTurn(c)
  <2> DEFINE e == [errand[c] EXCEPT !.pc = "renew"]
  <2>1. e \in Errands  BY <1>1 DEF Errands
  <2>2. CarriedOut(e)  BY <1>1, <1>4 DEF Errands, CarriedOut, TakeTurn, ErrandAt
  <2>3. Kept(e)  BY <1>1 DEF Errands, Kept
  <2>4. errand' = [errand EXCEPT ![c] = e]  BY <1>4 DEF TakeTurn
  <2> QED  BY <1>4, <2>1, <2>2, <2>3, <2>4, OneCallMoves DEF TakeTurn
<1> QED  BY <1>2, <1>3, <1>4

\* GNS3 carries the call out, and its answer arrives or not.
LEMMA DoneKeeps ==
  ASSUME AdminInv, NEW c \in AdminTasks, Done(c)
  PROVE  AdminInv'
<1>1. errand[c] \in Errands /\ CarriedOut(errand[c]) /\ Kept(errand[c])  BY DEF AdminInv, AdminTypeOK
<1>2. errand[c].pc = "wait" /\ errand[c].made + 1 \in Nat  BY <1>1 DEF Done, ErrandAt, Errands
<1>3. CASE Transient(c, errand[c].made + 1)  BY <1>2, <1>3, <1>1, TransientKeeps DEF Done
<1>4. CASE errand' = [errand EXCEPT ![c].pc = "done", ![c].answer = "ok", ![c].made = @ + 1]
  <2> DEFINE e == [errand[c] EXCEPT !.pc = "done", !.answer = "ok", !.made = errand[c].made + 1]
  <2>1. e \in Errands  BY Zenon, <1>1, <1>2 DEF Errands
  <2>2. e.pc = "done" /\ e.try = errand[c].try /\ e.made = errand[c].made + 1
        /\ e.answer = "ok" /\ e.kind = errand[c].kind
    BY <1>1 DEF Errands
  <2>3. errand[c].try \in Nat /\ errand[c].made \in Nat /\ errand[c].made < errand[c].try
    BY <1>1, <1>2, AdminAssumption DEF Errands, CarriedOut
  <2>4. CarriedOut(e)  BY <1>1, <2>2, <2>3 DEF CarriedOut
  <2>5. Kept(e)  BY <1>1 DEF Errands, Kept
  <2>6. errand' = [errand EXCEPT ![c] = e]  BY <1>4
  <2> QED  BY <2>1, <2>4, <2>5, <2>6, OneCallMoves DEF Done
<1> QED  BY <1>3, <1>4 DEF Done

\* GNS3 does not carry it out, or it does not accept the token.
LEMMA RefusedKeeps ==
  ASSUME AdminInv, NEW c \in AdminTasks,
         NotDone(c) \/ NotAuthenticated(c) \/ Unauthorized(c)
  PROVE  AdminInv'
<1>1. errand[c] \in Errands /\ CarriedOut(errand[c]) /\ Kept(errand[c])  BY DEF AdminInv, AdminTypeOK
<1>2. errand[c].made \in Nat  BY <1>1 DEF Errands
<1>3. CASE NotDone(c)
  <2>1. errand[c].pc # "done"  BY <1>3 DEF NotDone, ErrandAt
  <2> QED  BY <1>2, <1>3, <2>1, TransientKeeps, AnswerKeeps DEF NotDone
<1>4. CASE NotAuthenticated(c)
  <2>1. errand[c].pc # "done"  BY <1>4 DEF NotAuthenticated, ErrandAt
  <2> QED  BY <1>2, <1>4, <2>1, TransientKeeps, AnswerKeeps DEF NotAuthenticated
<1>5. CASE Unauthorized(c)
  <2>1. errand[c].pc = "wait" /\ troubles > errand[c].seen  BY <1>1, <1>5 DEF Unauthorized, ErrandAt, Kept
  <2>2. CASE Answer(c, "denied")  BY <1>5, <2>1, <2>2, AnswerKeeps DEF Unauthorized
  <2>3. CASE errand' = [errand EXCEPT ![c].pc = "turn"]
    <3> DEFINE e == [errand[c] EXCEPT !.pc = "turn"]
    <3>1. e \in Errands  BY <1>1 DEF Errands
    <3>2. CarriedOut(e)  BY <1>1, <2>1 DEF Errands, CarriedOut
    <3>3. Kept(e)  BY <1>1 DEF Errands, Kept
    <3>4. errand' = [errand EXCEPT ![c] = e]  BY <2>3
    <3> QED  BY <1>5, <3>1, <3>2, <3>3, <3>4, OneCallMoves DEF Unauthorized
  <2> QED  BY <1>5, <2>2, <2>3 DEF Unauthorized
<1> QED  BY <1>3, <1>4, <1>5

\* A new token is accepted, and nobody's is refused for it.
LEMMA AuthenticatedKeeps ==
  ASSUME AdminInv, NEW c \in AdminTasks, Authenticated(c)
  PROVE  AdminInv'
<1>1. AdminTypeOK'
  <2> DEFINE e == [errand[c] EXCEPT !.pc = "send", !.renewed = TRUE, !.seen = troubles]
  <2>1. e \in Errands  BY Zenon DEF AdminInv, AdminTypeOK, Errands
  <2>2. errand' = [errand EXCEPT ![c] = e]  BY Zenon DEF Authenticated
  <2>3. errand' \in [AdminTasks -> Errands]  BY <2>1, <2>2 DEF AdminInv, AdminTypeOK
  <2> QED  BY <2>3 DEF AdminInv, AdminTypeOK, Authenticated, NewToken
<1>2. adminToken' \in valid' /\ renewal' = "waiting" /\ valid \subseteq valid' /\ troubles' = troubles
  BY DEF Authenticated, NewToken
<1>3. ASSUME NEW d \in AdminTasks  PROVE CarriedOut(errand[d])' /\ Kept(errand[d])'
  <2>1. errand[d] \in Errands /\ CarriedOut(errand[d]) /\ Kept(errand[d])  BY DEF AdminInv, AdminTypeOK
  <2>2. CASE d = c
    <3>1. errand'[d] = [errand[d] EXCEPT !.pc = "send", !.renewed = TRUE, !.seen = troubles]
      BY <2>2 DEF Authenticated, AdminInv, AdminTypeOK
    <3>2. errand[d].pc = "renew"  BY <2>2 DEF Authenticated, ErrandAt
    <3>3. CarriedOut(errand'[d])  BY <2>1, <3>1, <3>2 DEF Errands, CarriedOut
    <3>4. errand'[d].answer = None /\ errand'[d].seen = troubles /\ errand'[d].pc = "send"
      BY <2>1, <3>1, <3>2 DEF Errands, CarriedOut
    <3>5. Kept(errand[d])'  BY <1>2, <3>4, AdminAssumption DEF Kept, AdminInv, AdminTypeOK
    <3> QED  BY <3>3, <3>5
  <2>3. CASE d # c
    <3>1. errand'[d] = errand[d]  BY <2>3 DEF Authenticated, AdminInv, AdminTypeOK
    <3> QED  BY <1>2, <2>1, <3>1 DEF CarriedOut, Kept
  <2> QED  BY <2>2, <2>3
<1> QED  BY <1>1, <1>2, <1>3 DEF AdminInv

\* The renewal ahead of the expiry, with its failures, and what becomes of the tokens.
LEMMA TokenKeeps ==
  ASSUME AdminInv, RenewalDue \/ Renewed \/ RenewalFails \/ Gns3Restarts \/ \E t \in valid : Expires(t)
  PROVE  AdminInv'
<1>1. errand' = errand /\ troubles' \in Nat /\ troubles' >= troubles
  BY DEF AdminInv, AdminTypeOK, RenewalDue, Renewed, RenewalFails, Gns3Restarts, Expires
<1>2. AdminTypeOK'
  BY <1>1 DEF AdminInv, AdminTypeOK, RenewalDue, Renewed, RenewalFails, Gns3Restarts, Expires, NewToken
<1>3. \/ troubles' = troubles + 1
      \/ /\ adminToken' \notin valid' \/ renewal' = "none" => adminToken \notin valid \/ renewal = "none"
         /\ troubles' = troubles
         /\ \A d \in AdminTasks : errand[d].pc = "wait" /\ errand[d].with \notin valid'
                                    => errand[d].with \notin valid \/ renewal = "none"
  <2>1. CASE RenewalFails \/ Gns3Restarts  BY <2>1 DEF RenewalFails, Gns3Restarts
  <2>2. CASE RenewalDue \/ Renewed  BY <2>2 DEF RenewalDue, Renewed, NewToken
  <2>3. ASSUME NEW t \in valid, Expires(t)  PROVE <1>3!2
    BY <2>3 DEF Expires, ErrandAt
  <2> QED  BY <2>1, <2>2, <2>3
<1>4. ASSUME NEW d \in AdminTasks  PROVE CarriedOut(errand[d])' /\ Kept(errand[d])'
  <2>1. errand[d] \in Errands /\ CarriedOut(errand[d]) /\ Kept(errand[d])  BY DEF AdminInv, AdminTypeOK
  <2>2. errand[d].seen \in Nat /\ troubles \in Nat  BY <2>1 DEF Errands, AdminInv, AdminTypeOK
  <2>3. Kept(errand[d])'  BY <1>1, <1>3, <2>1, <2>2 DEF Kept
  <2> QED  BY <1>1, <2>1, <2>3 DEF CarriedOut
<1>5. (adminToken \notin valid \/ renewal = "none" => troubles > 0)'
  BY <1>1, <1>3 DEF AdminInv, AdminTypeOK
<1> QED  BY <1>2, <1>4, <1>5 DEF AdminInv
-----------------------------------------------------------------------------
(* The theorem *)

\* Whatever fails, restarts or expires, an answer says of a call what it should: one that
\* succeeds was carried out, more than once only if it is of those that are repeated, and
\* one that is refused for want of a token was refused after a restart of GNS3 or a failed
\* renewal (clients/admin/_http.py:26, 34, 108).
THEOREM AdminCallsSound == AdminSpec => []AdminSound
<1>1. ASSUME AdminInit  PROVE AdminInv
  <2>1. NoErrand \in Errands  BY AdminAssumption DEF NoErrand, Errands
  <2>2. CarriedOut(NoErrand)  BY AdminAssumption DEF CarriedOut, NoErrand
  <2>3. Kept(NoErrand)  BY <1>1, AdminAssumption DEF Kept, NoErrand, AdminInit
  <2>4. \A c \in AdminTasks : errand[c] = NoErrand  BY <1>1 DEF AdminInit
  <2>5. AdminTypeOK  BY <1>1, <2>1 DEF AdminInit, AdminTypeOK
  <2>6. adminToken \notin valid \/ renewal = "none" => troubles > 0  BY <1>1 DEF AdminInit
  <2> QED  BY <2>2, <2>3, <2>4, <2>5, <2>6 DEF AdminInv
<1>2. ASSUME AdminInv, [AdminNext]_adminVars  PROVE AdminInv'
  <2>1. CASE UNCHANGED adminVars
    BY <1>2, <2>1 DEF adminVars, AdminInv, AdminTypeOK, CarriedOut, Kept
  <2>2. CASE AdminNext
    BY <1>2, <2>2, PlaceKeeps, DoneKeeps, RefusedKeeps, AuthenticatedKeeps, TokenKeeps DEF AdminNext
  <2> QED  BY <1>2, <2>1, <2>2
<1>3. ASSUME AdminInv  PROVE AdminSound
  <2>1. \A c \in AdminTasks : errand[c] \in Errands /\ CarriedOut(errand[c]) /\ Kept(errand[c])
    BY <1>3 DEF AdminInv, AdminTypeOK
  <2>2. Tries \in Nat  BY AdminAssumption
  <2> QED  BY <1>3, <2>1, <2>2 DEF AdminInv, AdminSound, Errands, CarriedOut, Kept
<1> QED  BY <1>1, <1>2, <1>3, PTL DEF AdminSpec
-----------------------------------------------------------------------------
(* The accounts, and who is let in *)

\* Anything that is not an account, or a number, is nobody's.
Claims == [id : Nat, role : Roles, active : BOOLEAN, age : Nat]
HitRecords == [pc : {"none", "hashing", "linking", "updating"}, who : Emails \cup {None}, by : Nat \cup {None},
               id : Nat \cup {None}, links : Nat, change : Changes \cup {None}]

AccountTyped ==
  /\ account \in [Emails -> Accounts \cup {None}] /\ created \in Nat
  /\ token \in [Emails -> Claims \cup {None}]
  /\ hit \in [Hits -> HitRecords]
  /\ lapsed \in [Emails -> [Rights -> Nat]]

\* The ids are those of the accounts there are, each its own, and none comes back.
Numbered ==
  /\ enrolled = {account[e].id : e \in {d \in Emails : Known(d)}}
  /\ \A e \in Emails : Known(e) => account[e].id <= created
  /\ \A d, e \in Emails : Known(d) /\ Known(e) /\ account[d].id = account[e].id => d = e

\* A claim is not older than the right it claims is past.
Lapsing(row, claims, past) ==
  /\ row # None => /\ row.role = "admin" => past["admin"] = 0
                   /\ row.active => past["active"] = 0
  /\ claims # None => /\ claims.role = "admin" => past["admin"] <= claims.age
                      /\ claims.active => past["active"] <= claims.age
AllLapsing == \A e \in Emails : Lapsing(account[e], token[e], lapsed[e])

\* What a request has read of an account is of one there is, or of one there was; while
\* no other callback of the same person is under way, the links it has read are all.
Overlapped == "callbacks overlapped" \in story
OneLink ==
  /\ \A e \in Emails : Known(e) => account[e].links <= 1
  /\ \A h \in Hits : HitAt(h, "linking") =>
       /\ \A g \in Hits : HitAt(g, "linking") /\ hit[g].who = hit[h].who => g = h
       /\ Known(hit[h].who) /\ account[hit[h].who].id = hit[h].id => account[hit[h].who].links = hit[h].links
Underway(e) ==
  /\ e.pc # "none" => e.who \in Emails
  /\ e.pc = "linking" /\ e.id # None => e.id <= created
  /\ e.pc = "updating" => e.id \in Nat /\ e.by \in Nat
  /\ e.pc = "updating" /\ e.change # None /\ e.change.field = "role" => e.id # e.by
AllUnderway == \A h \in Hits : Underway(hit[h])

\* Somebody administers.
Administered == "administrator lost" \in story \/ Admins # {}

AccountInv ==
  AccountTyped /\ Numbered /\ AllLapsing /\ AllUnderway /\ (Overlapped \/ OneLink) /\ Administered

\* None is nobody's id and no account, and tokens live.
LEMMA NobodyIsNone == None \notin Nat /\ None \notin Accounts /\ TokenLife \in Nat /\ TokenLife > 0 /\ Long = TokenLife
BY AccountAssumption DEF Long

\* An account that changes: everybody else's stays, and no claim outlives its right by more than its age.
LEMMA PutKeeps ==
  ASSUME AccountInv, NEW e \in Emails, NEW row \in Accounts \cup {None}, Put(e, row), token' = token
  PROVE  /\ account' \in [Emails -> Accounts \cup {None}] /\ lapsed' \in [Emails -> [Rights -> Nat]]
         /\ account'[e] = row /\ \A d \in Emails : d # e => account'[d] = account[d]
         /\ AllLapsing'
<1>1. /\ account \in [Emails -> Accounts \cup {None}] /\ lapsed \in [Emails -> [Rights -> Nat]]
      /\ token \in [Emails -> Claims \cup {None}]
  BY DEF AccountInv, AccountTyped
<1>2. PICK past : past = [right \in Rights |->
                            IF Has(row, right) \/ Has(account[e], right) THEN 0 ELSE lapsed[e][right]]
  OBVIOUS
<1>3. account' = [account EXCEPT ![e] = row] /\ lapsed' = [lapsed EXCEPT ![e] = past]
  BY <1>2, Zenon DEF Put
<1>4. lapsed[e] \in [Rights -> Nat] BY <1>1
<1>5. \A right \in Rights : past[right] = IF Has(row, right) \/ Has(account[e], right) THEN 0 ELSE lapsed[e][right]
  BY <1>2, Zenon
<1>6. \A right \in Rights : past[right] \in Nat BY <1>4, <1>5
<1>7. past \in [Rights -> Nat] BY <1>2, <1>6
<1>8. /\ account' \in [Emails -> Accounts \cup {None}] /\ lapsed' \in [Emails -> [Rights -> Nat]]
      /\ account'[e] = row /\ \A d \in Emails : d # e => account'[d] = account[d]
      /\ lapsed'[e] = past /\ \A d \in Emails : d # e => lapsed'[d] = lapsed[d]
  BY <1>1, <1>3, <1>7, Zenon
<1>9. Lapsing(row, token[e], past)
  <2>1. "admin" \in Rights /\ "active" \in Rights BY DEF Rights
  <2>2. row # None => (row.role = "admin" => past["admin"] = 0) /\ (row.active => past["active"] = 0)
    BY <2>1, <1>5, Zenon DEF Has
  <2>3. past["admin"] = 0 \/ past["admin"] = lapsed[e]["admin"] BY <2>1, <1>5
  <2>4. past["active"] = 0 \/ past["active"] = lapsed[e]["active"] BY <2>1, <1>5
  <2>5. token[e] # None => token[e].age \in Nat BY <1>1 DEF Claims
  <2>6. Lapsing(account[e], token[e], lapsed[e]) BY DEF AccountInv, AllLapsing
  <2>7. token[e] # None => /\ token[e].role = "admin" => past["admin"] <= token[e].age
                           /\ token[e].active => past["active"] <= token[e].age
    BY <2>3, <2>4, <2>5, <2>6 DEF Lapsing
  <2> QED BY <2>2, <2>7, Zenon DEF Lapsing
<1>10. AllLapsing'
  <2>1. SUFFICES ASSUME NEW d \in Emails PROVE Lapsing(account'[d], token'[d], lapsed'[d]) BY Zenon DEF AllLapsing, Lapsing
  <2>2. CASE d = e BY <2>2, <1>8, <1>9
  <2>3. CASE d # e BY <2>3, <1>8, Zenon DEF AccountInv, AllLapsing
  <2> QED BY <2>2, <2>3
<1> QED BY <1>8, <1>10

\* A request at rest is one.
LEMMA NoHitTyped == NoHit \in HitRecords /\ NoHit.pc = "none" /\ Underway(NoHit) /\ Underway(NoHit)'
BY DEF NoHit, HitRecords, Underway

\* A request ends, or none moves.
LEMMA OverKeeps ==
  ASSUME AccountInv, NEW h, Over(h) \/ hit' = hit, created' \in Nat, created <= created'
  PROVE  /\ hit' \in [Hits -> HitRecords] /\ AllUnderway'
         /\ \A g \in Hits : HitAt(g, "linking")' => HitAt(g, "linking") /\ hit'[g] = hit[g]
         /\ Over(h) => \A g \in Hits : HitAt(g, "linking")' => g # h
<1>1. hit \in [Hits -> HitRecords] /\ created \in Nat BY DEF AccountInv, AccountTyped
<1>2. hit' \in [Hits -> HitRecords] /\ \A g \in Hits : hit'[g] = hit[g] \/ hit'[g] = NoHit
  BY <1>1, NoHitTyped, Zenon DEF Over
<1>3. AllUnderway'
  <2>1. SUFFICES ASSUME NEW g \in Hits, NEW e, e = hit'[g] PROVE Underway(e)' BY Zenon DEF AllUnderway
  <2>2. CASE e = NoHit BY <2>2, NoHitTyped DEF Underway
  <2>3. CASE e = hit[g]
    <3>1. Underway(e) /\ e \in HitRecords BY <2>3, <1>1 DEF AccountInv, AllUnderway
    <3>2. e.id # None => e.id \in Nat BY <3>1 DEF HitRecords
    <3> QED BY <3>1, <3>2, <1>1 DEF Underway
  <2> QED BY <2>1, <2>2, <2>3, <1>2
<1>4. \A g \in Hits : HitAt(g, "linking")' => HitAt(g, "linking") /\ hit'[g] = hit[g]
  BY <1>2, NoHitTyped DEF HitAt
<1>5. Over(h) => \A g \in Hits : HitAt(g, "linking")' => g # h
  BY <1>1, NoHitTyped DEF Over, HitAt
<1> QED BY <1>2, <1>3, <1>4, <1>5

\* An account that is there may change, but keeps its id; a new one takes the next;
\* one that goes takes its pseudonym with it.
LEMMA NumberedKeeps ==
  ASSUME AccountInv, NEW e \in Emails, NEW row \in Accounts \cup {None},
         account' \in [Emails -> Accounts \cup {None}], account'[e] = row,
         \A d \in Emails : d # e => account'[d] = account[d]
  PROVE  /\ Known(e) /\ row # None /\ row.id = account[e].id /\ UNCHANGED <<created, enrolled>> => Numbered'
         /\ ~Known(e) /\ row # None /\ row.id = created + 1 /\ created' = created + 1
              /\ enrolled' = enrolled \cup {created + 1} => Numbered'
         /\ Known(e) /\ row = None /\ created' = created /\ enrolled' = enrolled \ {account[e].id} => Numbered'
<1>1. /\ account \in [Emails -> Accounts \cup {None}] /\ created \in Nat
      /\ enrolled = {account[d].id : d \in {c \in Emails : Known(c)}}
      /\ \A d \in Emails : Known(d) => account[d].id <= created
      /\ \A c, d \in Emails : Known(c) /\ Known(d) /\ account[c].id = account[d].id => c = d
  BY DEF AccountInv, AccountTyped, Numbered
<1>2. \A d \in Emails : Known(d) => account[d].id \in Nat BY <1>1 DEF Known, Accounts
<1>3. \A d \in Emails : d # e => (Known(d)' <=> Known(d)) BY DEF Known
<1>4. Known(e)' <=> row # None BY DEF Known
<1>5. ASSUME Known(e), row # None, row.id = account[e].id, UNCHANGED <<created, enrolled>> PROVE Numbered'
  <2>1. \A d \in Emails : (Known(d)' <=> Known(d)) /\ (Known(d) => account'[d].id = account[d].id)
    BY <1>3, <1>4, <1>5
  <2>2. {account'[d].id : d \in {c \in Emails : Known(c)'}} = {account[d].id : d \in {c \in Emails : Known(c)}}
    BY <2>1, Zenon
  <2>3. \A d \in Emails : Known(d)' => account'[d].id <= created' BY <2>1, <1>1, <1>5
  <2>4. \A c, d \in Emails : Known(c)' /\ Known(d)' /\ account'[c].id = account'[d].id => c = d
    BY <2>1, <1>1, Zenon
  <2> QED BY <2>2, <2>3, <2>4, <1>1, <1>5, Zenon DEF Numbered
<1>6. ASSUME ~Known(e), row # None, row.id = created + 1, created' = created + 1,
             enrolled' = enrolled \cup {created + 1}
      PROVE  Numbered'
  <2>1. \A d \in Emails : Known(d)' <=> d = e \/ Known(d) BY <1>3, <1>4, <1>6
  <2>2. \A d \in Emails : Known(d) => d # e /\ account'[d] = account[d] BY <1>6
  <2>3. account'[e].id = created + 1 BY <1>6
  <2>4. {account'[d].id : d \in {c \in Emails : Known(c)'}}
          = {account[d].id : d \in {c \in Emails : Known(c)}} \cup {created + 1}
    BY <2>1, <2>2, <2>3, Zenon
  <2>5. \A d \in Emails : Known(d)' => account'[d].id <= created' BY <2>1, <2>2, <2>3, <1>1, <1>2, <1>6
  <2>6. \A d \in Emails : Known(d) => account[d].id # created + 1 BY <1>1, <1>2
  <2>7. \A c, d \in Emails : Known(c)' /\ Known(d)' /\ account'[c].id = account'[d].id => c = d
    BY <2>1, <2>2, <2>3, <2>6, <1>1, Zenon
  <2> QED BY <2>4, <2>5, <2>7, <1>1, <1>6, Zenon DEF Numbered
<1>7. ASSUME Known(e), row = None, created' = created, enrolled' = enrolled \ {account[e].id} PROVE Numbered'
  <2>1. \A d \in Emails : Known(d)' <=> d # e /\ Known(d) BY <1>3, <1>4, <1>7
  <2>2. \A d \in Emails : Known(d) /\ d # e => account'[d] = account[d] /\ account[d].id # account[e].id
    BY <1>1, <1>7, Zenon
  <2>4. {account'[d].id : d \in {c \in Emails : Known(c)'}}
          = {account[d].id : d \in {c \in Emails : Known(c)}} \ {account[e].id}
    BY <2>1, <2>2, <1>7, Zenon
  <2>5. \A d \in Emails : Known(d)' => account'[d].id <= created' BY <2>1, <2>2, <1>1, <1>7
  <2>7. \A c, d \in Emails : Known(c)' /\ Known(d)' /\ account'[c].id = account'[d].id => c = d
    BY <2>1, <2>2, <1>1, Zenon
  <2> QED BY <2>4, <2>5, <2>7, <1>1, <1>7, Zenon DEF Numbered
<1> QED BY <1>5, <1>6, <1>7

\* One link remains one: an account that is there keeps its links, a new one has one at
\* most, and no callback begins.
LEMMA OneLinkKeeps ==
  ASSUME AccountInv, story \subseteq story', account' \in [Emails -> Accounts \cup {None}],
         \A e \in Emails : Known(e)' =>
           \/ Known(e) /\ account'[e].id = account[e].id /\ account'[e].links = account[e].links
           \/ account'[e].id = created + 1 /\ account'[e].links <= 1,
         \A g \in Hits : HitAt(g, "linking")' => HitAt(g, "linking") /\ hit'[g] = hit[g]
  PROVE  Overlapped' \/ OneLink'
<1>1. CASE Overlapped BY <1>1 DEF Overlapped
<1>2. CASE OneLink
  <2>1. \A e \in Emails : Known(e)' => account'[e].links <= 1 BY <1>2 DEF OneLink
  <2>2. ASSUME NEW h \in Hits, HitAt(h, "linking")'
        PROVE  /\ \A g \in Hits : HitAt(g, "linking")' /\ hit'[g].who = hit'[h].who => g = h
               /\ Known(hit[h].who)' /\ account'[hit'[h].who].id = hit'[h].id
                    => account'[hit'[h].who].links = hit'[h].links
    <3>1. HitAt(h, "linking") /\ hit'[h] = hit[h] BY <2>2
    <3>2. /\ \A g \in Hits : HitAt(g, "linking") /\ hit[g].who = hit[h].who => g = h
          /\ Known(hit[h].who) /\ account[hit[h].who].id = hit[h].id => account[hit[h].who].links = hit[h].links
      BY <1>2, <3>1, Zenon DEF OneLink
    <3>3. \A g \in Hits : HitAt(g, "linking")' /\ hit'[g].who = hit'[h].who => g = h BY <3>1, <3>2, Zenon
    <3>4. ASSUME Known(hit[h].who)', account'[hit'[h].who].id = hit'[h].id
          PROVE  account'[hit'[h].who].links = hit'[h].links
      <4>1. /\ hit[h] \in HitRecords /\ hit[h].who \in Emails /\ created \in Nat
            /\ hit[h].id # None => hit[h].id <= created
        BY <3>1 DEF AccountInv, AccountTyped, AllUnderway, Underway, HitAt
      <4>2. account'[hit[h].who].id # created + 1
        <5>1. hit[h].id # None => hit[h].id \in Nat BY <4>1 DEF HitRecords
        <5> QED BY <5>1, <4>1, <3>1, <3>4, NobodyIsNone
      <4>3. Known(hit[h].who)' BY <3>1, <3>4
      <4>4. /\ Known(hit[h].who) /\ account'[hit[h].who].id = account[hit[h].who].id
            /\ account'[hit[h].who].links = account[hit[h].who].links
        BY <3>1, <4>1, <4>2, <4>3, Zenon DEF Known
      <4> QED BY <4>4, <3>1, <3>2, <3>4
    <3> QED BY <3>3, <3>4
  <2> QED BY <2>1, <2>2, Zenon DEF OneLink, Known, HitAt
<1> QED BY <1>1, <1>2 DEF AccountInv

\* Who administers goes on to.
LEMMA AdministeredKeeps ==
  ASSUME AccountInv, story \subseteq story',
         \A e \in Emails : e \in Admins => account'[e] # None /\ account'[e].role = "admin"
  PROVE  Administered'
<1>1. Admins \subseteq Admins' BY Zenon DEF Admins
<1> QED BY <1>1 DEF AccountInv, Administered

\* An account comes into being.
LEMMA NewAccountKeeps ==
  ASSUME AccountInv, NEW h \in Hits, NEW e \in Emails, NEW links \in 0 .. 1, ~Known(e), NewAccount(e, links),
         Over(h), UNCHANGED <<token, story>>
  PROVE  AccountInv'
<1>1. PICK row : row = [id |-> created + 1, role |-> "student", active |-> FALSE, links |-> links] OBVIOUS
<1>2. /\ created' = created + 1 /\ Put(e, row) /\ enrolled' = enrolled \cup {created + 1}
  BY <1>1, Zenon DEF NewAccount, Row
<1>3. created \in Nat BY DEF AccountInv, AccountTyped
<1>4. row \in Accounts /\ row.id = created + 1 /\ row.links = links BY <1>1, <1>3 DEF Accounts, Roles
<1>5. row # None BY <1>4, NobodyIsNone
<1>6. /\ account' \in [Emails -> Accounts \cup {None}] /\ lapsed' \in [Emails -> [Rights -> Nat]]
      /\ account'[e] = row /\ \A d \in Emails : d # e => account'[d] = account[d]
      /\ AllLapsing'
  BY <1>2, <1>4, PutKeeps
<1>7. Numbered' BY <1>2, <1>4, <1>5, <1>6, NumberedKeeps
<1>8. /\ hit' \in [Hits -> HitRecords] /\ AllUnderway'
      /\ \A g \in Hits : HitAt(g, "linking")' => HitAt(g, "linking") /\ hit'[g] = hit[g]
  BY <1>2, <1>3, OverKeeps
<1>9. Overlapped' \/ OneLink'
  <2>1. \A d \in Emails : Known(d)' =>
           \/ Known(d) /\ account'[d].id = account[d].id /\ account'[d].links = account[d].links
           \/ account'[d].id = created + 1 /\ account'[d].links <= 1
    BY <1>4, <1>6 DEF Known
  <2> QED BY <2>1, <1>6, <1>8, OneLinkKeeps
<1>10. Administered'
  <2>1. \A d \in Emails : d \in Admins => account'[d] # None /\ account'[d].role = "admin"
    BY <1>6, Zenon DEF Admins, Known
  <2> QED BY <2>1, AdministeredKeeps
<1>11. AccountTyped' BY <1>2, <1>3, <1>6, <1>8 DEF AccountInv, AccountTyped
<1> QED BY <1>6, <1>7, <1>8, <1>9, <1>10, <1>11 DEF AccountInv

\* A request that ends without a change of any account.
LEMMA OverInv ==
  ASSUME AccountInv, NEW h \in Hits, Over(h), UNCHANGED <<account, enrolled, token, lapsed, created>>,
         story \subseteq story'
  PROVE  AccountInv'
<1>1. created \in Nat BY DEF AccountInv, AccountTyped
<1>2. /\ hit' \in [Hits -> HitRecords] /\ AllUnderway'
      /\ \A g \in Hits : HitAt(g, "linking")' => HitAt(g, "linking") /\ hit'[g] = hit[g]
  BY <1>1, OverKeeps
<1>3. AccountTyped' BY <1>2 DEF AccountInv, AccountTyped
<1>4. Numbered' /\ AllLapsing' BY Zenon DEF AccountInv, Numbered, AllLapsing, Lapsing, Known
<1>5. Overlapped' \/ OneLink'
  BY <1>2, <1>3, OneLinkKeeps DEF Known, AccountTyped
<1>6. Administered' BY AdministeredKeeps DEF Admins
<1> QED BY <1>2, <1>3, <1>4, <1>5, <1>6 DEF AccountInv

\* Who registers is given an account, unless somebody was faster.
LEMMA CreateUserKeeps == ASSUME AccountInv, NEW h \in Hits, CreateUser(h) PROVE AccountInv'
<1>1. HitAt(h, "hashing") /\ Over(h) /\ UNCHANGED <<token, story>> BY DEF CreateUser
<1>2. hit[h].who \in Emails BY <1>1 DEF AccountInv, AllUnderway, Underway, HitAt
<1>3. CASE ~Known(hit[h].who) BY <1>1, <1>2, <1>3, NewAccountKeeps DEF CreateUser
<1>4. CASE Known(hit[h].who) BY <1>1, <1>4, OverInv DEF CreateUser
<1> QED BY <1>3, <1>4

\* An account that is there changes, but for its id and, unless a callback of its owner
\* sees to it, its links.
LEMMA ChangeKeeps ==
  ASSUME AccountInv, NEW h, NEW e \in Emails, NEW row \in Accounts, Known(e), Put(e, row),
         row.id = account[e].id, Over(h) \/ hit' = hit, UNCHANGED <<enrolled, token, created>>,
         story \subseteq story',
         \/ row.links = account[e].links
         \/ h \in Hits /\ HitAt(h, "linking") /\ hit[h].who = e /\ Over(h) /\ row.links = account[e].links + NewLinks(hit[h].links)
            /\ hit[h].id = account[e].id,
         Administered'
  PROVE  AccountInv'
<1>1. created \in Nat BY DEF AccountInv, AccountTyped
<1>2. row # None BY NobodyIsNone
<1>3. /\ account' \in [Emails -> Accounts \cup {None}] /\ lapsed' \in [Emails -> [Rights -> Nat]]
      /\ account'[e] = row /\ \A d \in Emails : d # e => account'[d] = account[d]
      /\ AllLapsing'
  BY PutKeeps
<1>4. Numbered' BY <1>2, <1>3, NumberedKeeps
<1>5. /\ hit' \in [Hits -> HitRecords] /\ AllUnderway'
      /\ \A g \in Hits : HitAt(g, "linking")' => HitAt(g, "linking") /\ hit'[g] = hit[g]
      /\ Over(h) => \A g \in Hits : HitAt(g, "linking")' => g # h
  BY <1>1, OverKeeps
<1>6. Overlapped' \/ OneLink'
  <2>1. CASE row.links = account[e].links
    <3>1. \A d \in Emails : Known(d)' =>
             \/ Known(d) /\ account'[d].id = account[d].id /\ account'[d].links = account[d].links
             \/ account'[d].id = created + 1 /\ account'[d].links <= 1
      BY <2>1, <1>3 DEF Known
    <3> QED BY <3>1, <1>3, <1>5, OneLinkKeeps
  <2>2. CASE h \in Hits /\ HitAt(h, "linking") /\ hit[h].who = e /\ Over(h) /\ hit[h].id = account[e].id
             /\ row.links = account[e].links + NewLinks(hit[h].links) /\ ~Overlapped
    <3>1. OneLink BY <2>2 DEF AccountInv
    <3>2. account[e].links = hit[h].links /\ account[e].links <= 1 BY <2>2, <3>1 DEF OneLink
    <3>3. account[e].links \in Nat BY DEF AccountInv, AccountTyped, Accounts, Known
    <3>4. row.links <= 1 BY <2>2, <3>2, <3>3 DEF NewLinks
    <3>5. \A d \in Emails : Known(d)' => account'[d].links <= 1 BY <3>1, <3>4, <1>3 DEF OneLink, Known
    <3>6. ASSUME NEW g \in Hits, HitAt(g, "linking")'
          PROVE  /\ \A f \in Hits : HitAt(f, "linking")' /\ hit'[f].who = hit'[g].who => f = g
                 /\ Known(hit[g].who)' /\ account'[hit'[g].who].id = hit'[g].id
                      => account'[hit'[g].who].links = hit'[g].links
      <4>1. HitAt(g, "linking") /\ hit'[g] = hit[g] /\ g # h BY <3>6, <1>5, <2>2
      <4>2. hit[g].who # e BY <4>1, <2>2, <3>1, Zenon DEF OneLink
      <4>3. hit[g].who \in Emails BY <4>1 DEF AccountInv, AllUnderway, Underway, HitAt
      <4>4. account'[hit[g].who] = account[hit[g].who] BY <4>2, <4>3, <1>3
      <4>5. \A f \in Hits : HitAt(f, "linking")' => HitAt(f, "linking") /\ hit'[f] = hit[f] BY <1>5
      <4>6. /\ \A f \in Hits : HitAt(f, "linking") /\ hit[f].who = hit[g].who => f = g
            /\ Known(hit[g].who) /\ account[hit[g].who].id = hit[g].id => account[hit[g].who].links = hit[g].links
        BY <4>1, <3>1, Zenon DEF OneLink
      <4>7. \A f \in Hits : HitAt(f, "linking")' /\ hit'[f].who = hit'[g].who => f = g
        BY <4>1, <4>5, <4>6, Zenon
      <4> QED BY <4>1, <4>4, <4>6, <4>7 DEF Known
    <3> QED BY <3>5, <3>6, Zenon DEF OneLink, Known, HitAt
  <2>3. CASE Overlapped BY <2>3 DEF Overlapped
  <2> QED BY <2>1, <2>2, <2>3
<1>7. AccountTyped' BY <1>1, <1>3, <1>5 DEF AccountInv, AccountTyped
<1> QED BY <1>3, <1>4, <1>5, <1>6, <1>7 DEF AccountInv

\* The callback's row is written, unless a constraint refuses it.
LEMMA UpsertGithubUserKeeps == ASSUME AccountInv, NEW h \in Hits, UpsertGithubUser(h) PROVE AccountInv'
<1>1. PICK e : e = hit[h].who OBVIOUS
<1>2. HitAt(h, "linking") /\ Over(h) /\ UNCHANGED <<token, story>> BY DEF UpsertGithubUser
<1>3. e \in Emails BY <1>1, <1>2 DEF AccountInv, AllUnderway, Underway, HitAt
<1>4. CASE hit[h].id # IdOf(e)
  <2>1. UNCHANGED <<account, lapsed, enrolled, created>> BY <1>1, <1>4, Zenon DEF UpsertGithubUser
  <2> QED BY <2>1, <1>2, OverInv
<1>5. CASE hit[h].id = IdOf(e) /\ Known(e)
  <2>1. PICK row : row = [account[e] EXCEPT !.links = @ + NewLinks(hit[h].links)] OBVIOUS
  <2>2. Put(e, row) /\ UNCHANGED <<enrolled, created>> BY <2>1, <1>1, <1>5, Zenon DEF UpsertGithubUser
  <2>3. PICK n : n = account[e].links + NewLinks(hit[h].links) OBVIOUS
  <2>4. account[e] \in Accounts BY <1>3, <1>5 DEF AccountInv, AccountTyped, Known
  <2>5. n \in Nat BY <2>3, <2>4 DEF Accounts, NewLinks
  <2>6. row = [account[e] EXCEPT !.links = n] BY <2>1, <2>3, Zenon
  <2>7. row \in Accounts BY <2>4, <2>5, <2>6, Zenon DEF Accounts
  <2>8. row.id = account[e].id /\ row.links = n /\ row.role = account[e].role BY <2>4, <2>6 DEF Accounts
  <2>9. /\ account'[e] = row /\ \A d \in Emails : d # e => account'[d] = account[d]
    BY <2>2, <2>7, <1>2, <1>3, PutKeeps
  <2>10. Administered'
    <3>1. \A d \in Emails : d \in Admins => account'[d] # None /\ account'[d].role = "admin"
      BY <2>7, <2>8, <2>9, NobodyIsNone, Zenon DEF Admins
    <3> QED BY <3>1, <1>2, AdministeredKeeps
  <2>11. hit[h].id = account[e].id BY <1>5 DEF IdOf
  <2> QED BY <2>2, <2>3, <2>7, <2>8, <2>10, <2>11, <1>1, <1>2, <1>3, <1>5, ChangeKeeps
<1>6. CASE hit[h].id = IdOf(e) /\ ~Known(e)
  <2>1. NewAccount(e, 1) BY <1>1, <1>6, Zenon DEF UpsertGithubUser
  <2> QED BY <2>1, <1>2, <1>3, <1>6, NewAccountKeeps
<1> QED BY <1>4, <1>5, <1>6

\* The activation.
LEMMA ActivateKeeps == ASSUME AccountInv, NEW h, NEW e \in Emails, Activate(e) PROVE AccountInv'
<1>1. PICK row : row = [account[e] EXCEPT !.active = TRUE] OBVIOUS
<1>2. Put(e, row) /\ Known(e) /\ UNCHANGED <<enrolled, token, hit, created, story>> BY <1>1, Zenon DEF Activate
<1>3. account[e] \in Accounts BY <1>2 DEF AccountInv, AccountTyped, Known
<1>4. row \in Accounts BY <1>1, <1>3, Zenon DEF Accounts
<1>5. row.id = account[e].id /\ row.links = account[e].links /\ row.role = account[e].role
  BY <1>1, <1>3 DEF Accounts
<1>6. account'[e] = row /\ \A d \in Emails : d # e => account'[d] = account[d] BY <1>2, <1>4, PutKeeps
<1>7. Administered'
  <2>1. \A d \in Emails : d \in Admins => account'[d] # None /\ account'[d].role = "admin"
    BY <1>4, <1>5, <1>6, NobodyIsNone, Zenon DEF Admins
  <2> QED BY <2>1, <1>2, AdministeredKeeps
<1> QED BY <1>2, <1>4, <1>5, <1>7, ChangeKeeps

\* An administrator's change is written; whoever asked remains one, or it is known.
LEMMA CommitUpdateKeeps == ASSUME AccountInv, NEW h \in Hits, CommitUpdate(h) PROVE AccountInv'
<1>1. PICK e : e = hit[h].who OBVIOUS
<1>2. PICK change : change = hit[h].change OBVIOUS
<1>3. /\ HitAt(h, "updating") /\ Over(h) /\ UNCHANGED <<enrolled, token, created>>
      /\ Happened("administrator lost", \A d \in Admins : account[d].id # hit[h].by)
  BY DEF CommitUpdate
<1>4. story \subseteq story' BY <1>3 DEF Happened
<1>5. /\ e \in Emails /\ hit[h].id \in Nat /\ hit[h] \in HitRecords
      /\ change # None /\ change.field = "role" => hit[h].id # hit[h].by
  BY <1>1, <1>2, <1>3 DEF AccountInv, AccountTyped, AllUnderway, Underway, HitAt
<1>6. CASE hit[h].id = IdOf(e) /\ change # None
  <2>1. PICK row : row = [account[e] EXCEPT ![change.field] = change.to] OBVIOUS
  <2>2. Put(e, row) BY <2>1, <1>1, <1>2, <1>6, Zenon DEF CommitUpdate
  <2>3. Known(e) /\ hit[h].id = account[e].id BY <1>5, <1>6, NobodyIsNone DEF IdOf
  <2>4. account[e] \in Accounts BY <2>3, <1>5 DEF AccountInv, AccountTyped, Known
  <2>5. change \in Changes BY <1>2, <1>5, <1>6 DEF HitRecords
  <2>6. /\ row \in Accounts /\ row.id = account[e].id /\ row.links = account[e].links
        /\ change.field # "role" => row.role = account[e].role
    <3>1. CASE change.field = "role" /\ change.to \in Roles
      <4>1. row = [account[e] EXCEPT !.role = change.to] BY <2>1, <3>1, Zenon
      <4>2. row \in Accounts BY <4>1, <3>1, <2>4, Zenon DEF Accounts
      <4> QED BY <4>1, <4>2, <3>1, <2>4 DEF Accounts
    <3>2. CASE change.field = "active" /\ change.to \in BOOLEAN
      <4>1. row = [account[e] EXCEPT !.active = change.to] BY <2>1, <3>2, Zenon
      <4>2. row \in Accounts BY <4>1, <3>2, <2>4, Zenon DEF Accounts
      <4>3. row.id = account[e].id /\ row.links = account[e].links /\ row.role = account[e].role
        BY <4>1, <2>4 DEF Accounts
      <4> QED BY <4>2, <4>3
    <3> QED BY <3>1, <3>2, <2>5, Zenon DEF Changes
  <2>7. account'[e] = row /\ \A d \in Emails : d # e => account'[d] = account[d] BY <2>2, <2>6, <1>3, <1>5, PutKeeps
  <2>8. Administered'
    <3>1. CASE "administrator lost" \in story' BY <3>1 DEF Administered
    <3>2. CASE "administrator lost" \notin story'
      <4>1. PICK d \in Admins : account[d].id = hit[h].by BY <3>2, <1>3 DEF Happened
      <4>2. d \in Emails /\ account[d] # None /\ account[d].role = "admin" BY <4>1 DEF Admins
      <4>3. CASE d # e BY <4>2, <4>3, <2>7, Zenon DEF Administered, Admins
      <4>4. CASE d = e
        <5>1. row.role = "admin" BY <4>1, <4>2, <4>4, <2>3, <2>6, <1>5, <1>6
        <5> QED BY <5>1, <4>2, <4>4, <2>6, <2>7, NobodyIsNone, Zenon DEF Administered, Admins
      <4> QED BY <4>3, <4>4
    <3> QED BY <3>1, <3>2
  <2> QED BY <2>2, <2>3, <2>6, <2>8, <1>3, <1>4, <1>5, ChangeKeeps
<1>7. CASE ~(hit[h].id = IdOf(e) /\ change # None)
  <2>1. UNCHANGED <<account, lapsed>> BY <1>1, <1>2, <1>7, Zenon DEF CommitUpdate
  <2> QED BY <2>1, <1>3, <1>4, OverInv
<1> QED BY <1>6, <1>7

\* An account is erased, with its pseudonym.
LEMMA EraseKeeps == ASSUME AccountInv, NEW h, NEW e \in Emails, NEW by \in Emails, Erase(e, by) PROVE AccountInv'
<1>1. /\ Known(e) /\ Put(e, None) /\ enrolled' = enrolled \ {account[e].id}
      /\ Happened("administrator lost", e \in Admins) /\ UNCHANGED <<token, hit, created>>
  BY DEF Erase
<1>2. created \in Nat /\ story \subseteq story' BY <1>1 DEF AccountInv, AccountTyped, Happened
<1>3. /\ account' \in [Emails -> Accounts \cup {None}] /\ lapsed' \in [Emails -> [Rights -> Nat]]
      /\ account'[e] = None /\ \A d \in Emails : d # e => account'[d] = account[d]
      /\ AllLapsing'
  BY <1>1, PutKeeps
<1>4. Numbered' BY <1>1, <1>3, NumberedKeeps
<1>5. /\ hit' \in [Hits -> HitRecords] /\ AllUnderway'
      /\ \A g \in Hits : HitAt(g, "linking")' => HitAt(g, "linking") /\ hit'[g] = hit[g]
  <2>1. Over(h) \/ hit' = hit BY <1>1
  <2>2. created' = created BY <1>1
  <2>3. created' \in Nat /\ created <= created' BY ONLY <2>2, <1>2
  <2> QED BY <2>1, <2>3, OverKeeps
<1>6. Overlapped' \/ OneLink'
  <2>1. \A d \in Emails : Known(d)' =>
           Known(d) /\ account'[d].id = account[d].id /\ account'[d].links = account[d].links
    BY <1>3, Zenon DEF Known
  <2> QED BY <2>1, <1>2, <1>3, <1>5, OneLinkKeeps
<1>7. Administered'
  <2>1. CASE e \in Admins BY <2>1, <1>1 DEF Happened, Administered
  <2>2. CASE e \notin Admins
    <3>1. \A d \in Emails : d \in Admins => account'[d] # None /\ account'[d].role = "admin"
      BY <2>2, <1>3, Zenon DEF Admins
    <3> QED BY <3>1, <1>2, AdministeredKeeps
  <2> QED BY <2>1, <2>2
<1>8. AccountTyped' BY <1>1, <1>3, <1>5 DEF AccountInv, AccountTyped
<1> QED BY <1>3, <1>4, <1>5, <1>6, <1>7, <1>8 DEF AccountInv

\* A request begins.
LEMMA HitBegins ==
  ASSUME AccountInv, NEW h \in Hits, HitAt(h, "none"), NEW e \in HitRecords, hit' = [hit EXCEPT ![h] = e], Underway(e),
         UNCHANGED <<account, enrolled, token, lapsed, created>>, story \subseteq story',
         e.pc = "linking" => \/ Overlapped'
                             \/ /\ \A g \in Hits : HitAt(g, "linking") => hit[g].who # e.who
                                /\ Known(e.who) /\ account[e.who].id = e.id => account[e.who].links = e.links
  PROVE  AccountInv'
<1>1. /\ hit' \in [Hits -> HitRecords] /\ hit'[h] = e /\ \A g \in Hits : g # h => hit'[g] = hit[g]
  BY DEF AccountInv, AccountTyped
<1>2. AccountTyped' BY <1>1 DEF AccountInv, AccountTyped
<1>3. Numbered' /\ AllLapsing' BY Zenon DEF AccountInv, Numbered, AllLapsing, Lapsing, Known
<1>4. AllUnderway' BY <1>1, Zenon DEF AccountInv, AllUnderway, Underway
<1>5. Administered' BY AdministeredKeeps DEF Admins
<1>6. Overlapped' \/ OneLink'
  <2>1. CASE Overlapped BY <2>1 DEF Overlapped
  <2>2. CASE OneLink /\ e.pc # "linking"
    <3>1. \A g \in Hits : HitAt(g, "linking")' => HitAt(g, "linking") /\ hit'[g] = hit[g] BY <1>1, <2>2 DEF HitAt
    <3> QED BY <3>1, <1>2, OneLinkKeeps DEF Known, AccountTyped
  <2>3. CASE OneLink /\ e.pc = "linking" /\ ~Overlapped'
    <3>1. /\ \A g \in Hits : HitAt(g, "linking") => hit[g].who # e.who
          /\ Known(e.who) /\ account[e.who].id = e.id => account[e.who].links = e.links
      BY <2>3
    <3>2. \A d \in Emails : Known(d)' => account'[d].links <= 1 BY <2>3 DEF OneLink, Known
    <3>3. \A g \in Hits : HitAt(g, "linking")' => g = h \/ (HitAt(g, "linking") /\ hit'[g] = hit[g])
      BY <1>1 DEF HitAt
    <3>4. ASSUME NEW g \in Hits, HitAt(g, "linking")'
          PROVE  /\ \A f \in Hits : HitAt(f, "linking")' /\ hit'[f].who = hit'[g].who => f = g
                 /\ Known(hit[g].who)' /\ account'[hit'[g].who].id = hit'[g].id
                      => account'[hit'[g].who].links = hit'[g].links
      <4>1. CASE g = h
        <5>1. \A f \in Hits : HitAt(f, "linking")' /\ hit'[f].who = e.who => f = h BY <3>1, <3>3, Zenon
        <5> QED BY <5>1, <4>1, <3>1, <1>1 DEF Known
      <4>2. CASE g # h
        <5>1. HitAt(g, "linking") /\ hit'[g] = hit[g] BY <4>2, <3>3, <3>4
        <5>2. \A f \in Hits : HitAt(f, "linking")' /\ hit'[f].who = hit[g].who => f = g
          BY <5>1, <3>1, <3>3, <1>1, <2>3, Zenon DEF OneLink
        <5>3. Known(hit[g].who) /\ account[hit[g].who].id = hit[g].id => account[hit[g].who].links = hit[g].links
          BY <5>1, <2>3, Zenon DEF OneLink
        <5> QED BY <5>1, <5>2, <5>3 DEF Known
      <4> QED BY <4>1, <4>2
    <3> QED BY <3>2, <3>4, Zenon DEF OneLink, Known, HitAt
  <2> QED BY <2>1, <2>2, <2>3 DEF AccountInv
<1> QED BY <1>2, <1>3, <1>4, <1>5, <1>6 DEF AccountInv

\* A registration begins.
LEMMA RegisterKeeps == ASSUME AccountInv, NEW h \in Hits, NEW e \in Emails, Register(h, e) PROVE AccountInv'
<1>1. PICK r : r = [NoHit EXCEPT !.pc = "hashing", !.who = e] OBVIOUS
<1>2. /\ HitAt(h, "none") /\ hit' = [hit EXCEPT ![h] = r]
      /\ UNCHANGED <<account, enrolled, token, lapsed, created, story>>
  BY <1>1, Zenon DEF Register
<1>3. r = [pc |-> "hashing", who |-> e, by |-> None, id |-> None, links |-> 0, change |-> None] BY <1>1 DEF NoHit
<1>4. r \in HitRecords BY <1>3 DEF HitRecords
<1>5. Underway(r) /\ r.pc = "hashing" BY <1>3 DEF Underway
<1> QED BY <1>2, <1>4, <1>5, HitBegins

\* A callback reads the account with its links.
LEMMA GithubCallbackKeeps == ASSUME AccountInv, NEW h \in Hits, NEW e \in Emails, GithubCallback(h, e) PROVE AccountInv'
<1>1. PICK n : n = IF Known(e) THEN account[e].links ELSE 0 OBVIOUS
<1>2. PICK r : r = [NoHit EXCEPT !.pc = "linking", !.who = e, !.id = IdOf(e), !.links = n] OBVIOUS
<1>3. /\ HitAt(h, "none") /\ hit' = [hit EXCEPT ![h] = r]
      /\ UNCHANGED <<account, enrolled, token, lapsed, created>>
      /\ Happened("callbacks overlapped", \E g \in Hits : HitAt(g, "linking") /\ hit[g].who = e)
  BY <1>1, <1>2, Zenon DEF GithubCallback
<1>4. r = [pc |-> "linking", who |-> e, by |-> None, id |-> IdOf(e), links |-> n, change |-> None]
  BY <1>2 DEF NoHit
<1>5. Known(e) => account[e] \in Accounts BY DEF AccountInv, AccountTyped, Known
<1>6. n \in Nat /\ IdOf(e) \in Nat \cup {None} BY <1>1, <1>5 DEF Accounts, IdOf
<1>7. r \in HitRecords BY <1>4, <1>6 DEF HitRecords
<1>8. Underway(r)
  <2>1. IdOf(e) # None => IdOf(e) <= created BY DEF IdOf, AccountInv, Numbered
  <2> QED BY <2>1, <1>4 DEF Underway
<1>9. r.who = e /\ r.id = IdOf(e) /\ r.links = n BY <1>4
<1>10. \/ Overlapped'
       \/ /\ \A g \in Hits : HitAt(g, "linking") => hit[g].who # r.who
          /\ Known(r.who) /\ account[r.who].id = r.id => account[r.who].links = r.links
  BY <1>1, <1>3, <1>9, Zenon DEF Happened, Overlapped
<1>11. story \subseteq story' BY <1>3 DEF Happened
<1> QED BY <1>3, <1>7, <1>8, <1>10, <1>11, HitBegins

\* An administrator's change begins: nobody changes their own role.
LEMMA UpdateUserKeeps ==
  ASSUME AccountInv, NEW h \in Hits, NEW e \in Emails, NEW target \in Emails, NEW change \in Changes,
         UpdateUser(h, e, target, change)
  PROVE  AccountInv'
<1>1. PICK c : c = IF account[target][change.field] # change.to THEN change ELSE None OBVIOUS
<1>2. PICK r : r = [NoHit EXCEPT !.pc = "updating", !.who = target, !.by = token[e].id, !.id = IdOf(target),
                                 !.change = c]
  OBVIOUS
<1>3. /\ HitAt(h, "none") /\ hit' = [hit EXCEPT ![h] = r]
      /\ UNCHANGED <<account, enrolled, token, lapsed, created, story>>
      /\ token[e] # None /\ Known(target) /\ ~(change.field = "role" /\ account[target].id = token[e].id)
  BY <1>1, <1>2, Zenon DEF UpdateUser, RequireAdmin, Verified
<1>4. r = [pc |-> "updating", who |-> target, by |-> token[e].id, id |-> IdOf(target), links |-> 0, change |-> c]
  BY <1>2 DEF NoHit
<1>5. /\ account[target] \in Accounts /\ token[e] \in Claims /\ IdOf(target) = account[target].id
  BY <1>3 DEF AccountInv, AccountTyped, Known, IdOf
<1>6. IdOf(target) \in Nat /\ token[e].id \in Nat BY <1>5 DEF Accounts, Claims
<1>7. c \in Changes \cup {None} /\ (c # None => c = change) BY <1>1
<1>8. r \in HitRecords BY <1>4, <1>6, <1>7, Zenon DEF HitRecords
<1>9. r.pc = "updating" /\ r.who = target /\ r.by = token[e].id /\ r.id = IdOf(target) /\ r.change = c BY <1>4
<1>10. Underway(r) BY <1>3, <1>5, <1>6, <1>7, <1>9 DEF Underway
<1> QED BY <1>3, <1>8, <1>9, <1>10, HitBegins

\* Steps of the tokens and of time leave the accounts and the requests alone.
LEMMA OthersStay ==
  ASSUME AccountInv, UNCHANGED <<account, enrolled, hit, created, story>>,
         token' \in [Emails -> Claims \cup {None}], lapsed' \in [Emails -> [Rights -> Nat]], AllLapsing'
  PROVE  AccountInv'
<1>1. AccountTyped' BY DEF AccountInv, AccountTyped
<1>2. Numbered' BY Zenon DEF AccountInv, Numbered, Known
<1>3. AllUnderway' BY Zenon DEF AccountInv, AllUnderway, Underway
<1>4. Overlapped' \/ OneLink' BY Zenon DEF AccountInv, Overlapped, OneLink, Known, HitAt
<1>5. Administered' BY AdministeredKeeps DEF Admins
<1> QED BY <1>1, <1>2, <1>3, <1>4, <1>5 DEF AccountInv

\* A login is exchanged for claims that are true at this moment.
LEMMA ExchangeKeeps == ASSUME AccountInv, NEW e \in Emails, Exchange(e) PROVE AccountInv'
<1>1. PICK t : t = [id |-> account[e].id, role |-> account[e].role, active |-> account[e].active, age |-> 0]
  OBVIOUS
<1>2. /\ Known(e) /\ token' = [token EXCEPT ![e] = t]
      /\ UNCHANGED <<account, enrolled, hit, lapsed, created, story>>
  BY <1>1, Zenon DEF Exchange
<1>3. /\ account[e] \in Accounts /\ token \in [Emails -> Claims \cup {None}]
      /\ lapsed \in [Emails -> [Rights -> Nat]]
  BY <1>2 DEF AccountInv, AccountTyped, Known
<1>4. t \in Claims BY <1>1, <1>3, Zenon DEF Accounts, Claims
<1>5. t.role = account[e].role /\ t.age = 0 /\ (t.active <=> account[e].active) BY <1>1
<1>6. token' \in [Emails -> Claims \cup {None}] /\ token'[e] = t /\ \A d \in Emails : d # e => token'[d] = token[d]
  BY <1>2, <1>3, <1>4, Zenon
<1>7. Lapsing(account[e], t, lapsed[e])
  <2>1. Lapsing(account[e], token[e], lapsed[e]) BY DEF AccountInv, AllLapsing
  <2>2. account[e] # None BY <1>2 DEF Known
  <2>3. /\ account[e].role = "admin" => lapsed[e]["admin"] = 0
        /\ account[e].active => lapsed[e]["active"] = 0
    BY <2>1, <2>2, Zenon DEF Lapsing
  <2>4. 0 <= 0 OBVIOUS
  <2> QED BY <2>2, <2>3, <2>4, <1>5, Zenon DEF Lapsing
<1>8. AllLapsing'
  <2>1. SUFFICES ASSUME NEW d \in Emails PROVE Lapsing(account'[d], token'[d], lapsed'[d])
    BY Zenon DEF AllLapsing, Lapsing
  <2>2. CASE d = e BY <2>2, <1>2, <1>6, <1>7
  <2>3. CASE d # e BY <2>3, <1>2, <1>6, Zenon DEF AccountInv, AllLapsing
  <2> QED BY <2>2, <2>3
<1> QED BY <1>2, <1>3, <1>6, <1>8, OthersStay

\* A tick: every claim ages as much as any right lapses, at least.
LEMMA MinuteKeeps == ASSUME AccountInv, Minute PROVE AccountInv'
<1>1. /\ account \in [Emails -> Accounts \cup {None}] /\ token \in [Emails -> Claims \cup {None}]
      /\ lapsed \in [Emails -> [Rights -> Nat]] /\ UNCHANGED <<account, enrolled, hit, created, story>>
  BY DEF AccountInv, AccountTyped, Minute
<1>2. /\ token' = [e \in Emails |-> IF Verified(e) THEN [token[e] EXCEPT !.age = @ + 1] ELSE None]
      /\ lapsed' = [e \in Emails |-> [right \in Rights |->
           IF Has(account[e], right) THEN 0 ELSE IF lapsed[e][right] < Long THEN lapsed[e][right] + 1 ELSE Long]]
  BY Zenon DEF Minute
<1>3. ASSUME NEW e \in Emails
      PROVE  /\ token'[e] \in Claims \cup {None} /\ lapsed'[e] \in [Rights -> Nat]
             /\ Lapsing(account[e], token'[e], lapsed'[e])
  <2>1. Lapsing(account[e], token[e], lapsed[e]) BY DEF AccountInv, AllLapsing
  <2>2. lapsed[e] \in [Rights -> Nat] /\ token[e] \in Claims \cup {None} BY <1>1
  <2>3. lapsed'[e] = [right \in Rights |->
          IF Has(account[e], right) THEN 0 ELSE IF lapsed[e][right] < Long THEN lapsed[e][right] + 1 ELSE Long]
    BY <1>2, Zenon
  <2>4. \A right \in Rights :
          /\ Has(account[e], right) => lapsed'[e][right] = 0
          /\ lapsed'[e][right] \in Nat /\ lapsed'[e][right] <= lapsed[e][right] + 1
    BY <2>2, <2>3, NobodyIsNone
  <2>5. lapsed'[e] \in [Rights -> Nat] BY <2>3, <2>4, Zenon
  <2>6. "admin" \in Rights /\ "active" \in Rights BY DEF Rights
  <2>7. account[e] # None => /\ account[e].role = "admin" => lapsed'[e]["admin"] = 0
                             /\ account[e].active => lapsed'[e]["active"] = 0
    BY <2>4, <2>6, Zenon DEF Has
  <2>8. CASE Verified(e)
    <3>1. token[e] # None /\ token[e] \in Claims BY <2>8, <2>2 DEF Verified
    <3>2. PICK n : n = token[e].age + 1 OBVIOUS
    <3>3. token'[e] = [token[e] EXCEPT !.age = n] BY <2>8, <1>2, <3>2, Zenon
    <3>4. token[e].age \in Nat /\ n \in Nat BY <3>1, <3>2 DEF Claims
    <3>5. token'[e] \in Claims BY <3>1, <3>3, <3>4, Zenon DEF Claims
    <3>6. token'[e].age = n /\ token'[e].role = token[e].role /\ token'[e].active = token[e].active
      BY <3>1, <3>3 DEF Claims
    <3>7. /\ token[e].role = "admin" => lapsed[e]["admin"] <= token[e].age
          /\ token[e].active => lapsed[e]["active"] <= token[e].age
      BY <2>1, <3>1, Zenon DEF Lapsing
    <3>8. lapsed[e]["admin"] \in Nat /\ lapsed[e]["active"] \in Nat BY <2>2, <2>6
    <3>9. /\ lapsed[e]["admin"] <= token[e].age => lapsed'[e]["admin"] <= n
          /\ lapsed[e]["active"] <= token[e].age => lapsed'[e]["active"] <= n
      BY <2>4, <2>6, <3>2, <3>4, <3>8
    <3>10. Lapsing(account[e], token'[e], lapsed'[e]) BY <2>7, <3>6, <3>7, <3>9, Zenon DEF Lapsing
    <3> QED BY <2>5, <3>5, <3>10
  <2>9. CASE ~Verified(e)
    <3>1. token'[e] = None BY <2>9, <1>2, Zenon
    <3>2. Lapsing(account[e], token'[e], lapsed'[e]) BY <2>7, <3>1, Zenon DEF Lapsing
    <3> QED BY <2>5, <3>1, <3>2
  <2> QED BY <2>8, <2>9
<1>4. token' \in [Emails -> Claims \cup {None}] /\ lapsed' \in [Emails -> [Rights -> Nat]]
  <2>1. token' = [e \in Emails |-> token'[e]] /\ lapsed' = [e \in Emails |-> lapsed'[e]] BY <1>2, Zenon
  <2> QED BY <2>1, <1>3, Zenon
<1>5. AllLapsing' BY <1>1, <1>3, Zenon DEF AllLapsing, Lapsing
<1> QED BY <1>1, <1>4, <1>5, OthersStay

\* Numbers that are different, and no more than there are, are all taken.
LEMMA AllNumbers ==
  ASSUME NEW S, IsFiniteSet(S), NEW f \in [S -> 1 .. Cardinality(S)], \A x, y \in S : f[x] = f[y] => x = y
  PROVE  \A n \in 1 .. Cardinality(S) : \E x \in S : f[x] = n
<1>1. Cardinality(S) \in Nat BY FS_CardinalityType
<1>2. IsFiniteSet(1 .. Cardinality(S)) /\ Cardinality(1 .. Cardinality(S)) = Cardinality(S) BY <1>1, FS_Interval
<1>3. f \in Injection(S, 1 .. Cardinality(S)) BY DEF Injection, IsInjective
<1>4. f \in Surjection(S, 1 .. Cardinality(S)) BY <1>2, <1>3, FS_Injection
<1> QED BY <1>4 DEF Surjection

\* The first administrators are there, with the first ids; or nobody is.
LEMMA AccountInitInv == AccountInit => AccountInv
<1> SUFFICES ASSUME AccountInit PROVE AccountInv OBVIOUS
<1>1. PICK admins \in SUBSET FirstAdmins, number \in [Emails -> 0 .. Cardinality(FirstAdmins)] :
       /\ \A e \in Emails : number[e] = 0 <=> e \notin admins
       /\ \A d, e \in admins : number[d] = number[e] => d = e
       /\ \A e \in admins : number[e] <= Cardinality(admins)
       /\ account = [e \in Emails |-> IF e \in admins THEN Row(number[e], "admin", TRUE, 0) ELSE None]
       /\ story = IF admins = {} THEN {"administrator lost"} ELSE {}
       /\ enrolled = 1 .. Cardinality(admins) /\ created = Cardinality(admins)
       /\ lapsed = [e \in Emails |-> [right \in Rights |-> IF e \in admins THEN 0 ELSE Long]]
  BY Zenon DEF AccountInit
<1>2. token = [e \in Emails |-> None] /\ hit = [h \in Hits |-> NoHit] BY DEF AccountInit
<1>3. IsFiniteSet(admins) /\ admins \subseteq Emails BY AccountAssumption, FS_Subset
<1>4. Cardinality(admins) \in Nat /\ Cardinality(FirstAdmins) \in Nat BY <1>3, AccountAssumption, FS_CardinalityType
<1>5. \A e \in admins : number[e] \in 1 .. Cardinality(admins)
  <2>1. SUFFICES ASSUME NEW e \in admins PROVE number[e] \in 1 .. Cardinality(admins) OBVIOUS
  <2>2. number[e] \in 0 .. Cardinality(FirstAdmins) BY <1>1, <1>3
  <2>3. number[e] # 0 /\ number[e] <= Cardinality(admins) BY <1>1, <1>3
  <2> QED BY ONLY <2>2, <2>3, <1>4
<1>6. \A e \in admins : /\ account[e] = [id |-> number[e], role |-> "admin", active |-> TRUE, links |-> 0]
                        /\ account[e] \in Accounts /\ Known(e)
                        /\ account[e].id = number[e] /\ account[e].role = "admin" /\ account[e].links = 0
  <2>1. SUFFICES ASSUME NEW e \in admins
                 PROVE  /\ account[e] = [id |-> number[e], role |-> "admin", active |-> TRUE, links |-> 0]
                        /\ account[e] \in Accounts /\ Known(e)
                        /\ account[e].id = number[e] /\ account[e].role = "admin" /\ account[e].links = 0
    OBVIOUS
  <2>2. account[e] = [id |-> number[e], role |-> "admin", active |-> TRUE, links |-> 0] BY <1>1, <1>3 DEF Row
  <2>3. number[e] \in Nat BY <1>4, <1>5
  <2>4. account[e] \in Accounts BY <2>2, <2>3 DEF Accounts, Roles
  <2>5. account[e].id = number[e] /\ account[e].role = "admin" /\ account[e].links = 0 BY <2>2
  <2>6. Known(e) BY <2>4, NobodyIsNone DEF Known
  <2> QED BY <2>2, <2>4, <2>5, <2>6
<1>7. \A e \in Emails : e \notin admins => account[e] = None BY <1>1
<1>8. \A e \in Emails : Known(e) <=> e \in admins BY <1>6, <1>7 DEF Known
<1>9. AccountTyped
  <2>1. \A e \in Emails : account[e] \in Accounts \cup {None} BY <1>6, <1>7
  <2>2. account \in [Emails -> Accounts \cup {None}] BY <2>1, <1>1
  <2>3. lapsed \in [Emails -> [Rights -> Nat]] BY <1>1, NobodyIsNone
  <2>4. hit \in [Hits -> HitRecords] BY <1>2, NoHitTyped
  <2> QED BY <2>2, <2>3, <2>4, <1>1, <1>2, <1>4 DEF AccountTyped
<1>10. Numbered
  <2>1. \A e \in admins : account[e].id = number[e] BY <1>6, Zenon
  <2>2. PICK f : f = [e \in admins |-> number[e]] OBVIOUS
  <2>3. /\ f \in [admins -> 1 .. Cardinality(admins)] /\ \A e \in admins : f[e] = number[e] BY <2>2, <1>5
  <2>4. \A n \in 1 .. Cardinality(admins) : \E e \in admins : f[e] = n
    <3>1. \A d, e \in admins : f[d] = f[e] => d = e BY <2>3, <1>1
    <3> QED BY <3>1, <2>3, <1>3, AllNumbers
  <2>5. 1 .. Cardinality(admins) = {account[e].id : e \in {d \in Emails : Known(d)}}
    <3>1. \A n \in 1 .. Cardinality(admins) : n \in {account[e].id : e \in {d \in Emails : Known(d)}}
      BY <2>1, <2>3, <2>4, <1>3, <1>8, Zenon
    <3>2. \A n \in {account[e].id : e \in {d \in Emails : Known(d)}} : n \in 1 .. Cardinality(admins)
      BY <2>1, <1>5, <1>8, Zenon
    <3> QED BY <3>1, <3>2, Zenon
  <2>6. \A e \in Emails : Known(e) => account[e].id <= created BY <2>1, <1>1, <1>8
  <2>7. \A d, e \in Emails : Known(d) /\ Known(e) /\ account[d].id = account[e].id => d = e
    <3>1. \A d, e \in admins : number[d] = number[e] => d = e BY <1>1
    <3> QED BY <3>1, <2>1, <1>8, Zenon
  <2> QED BY <2>5, <2>6, <2>7, <1>1, Zenon DEF Numbered
<1>11. AllLapsing
  <2>1. SUFFICES ASSUME NEW e \in Emails PROVE Lapsing(account[e], token[e], lapsed[e]) BY DEF AllLapsing
  <2>2. token[e] = None BY <1>2
  <2>3. "admin" \in Rights /\ "active" \in Rights BY DEF Rights
  <2>4. CASE e \in admins
    <3>1. lapsed[e]["admin"] = 0 /\ lapsed[e]["active"] = 0 BY <1>1, <2>3, <2>4
    <3> QED BY <3>1, <2>2, Zenon DEF Lapsing
  <2>5. CASE e \notin admins BY <2>2, <2>5, <1>7, Zenon DEF Lapsing
  <2> QED BY <2>4, <2>5
<1>12. AllUnderway BY <1>2, NoHitTyped DEF AllUnderway
<1>13. OneLink
  <2>1. \A h \in Hits : ~HitAt(h, "linking") BY <1>2, NoHitTyped DEF HitAt
  <2>2. \A e \in Emails : Known(e) => account[e].links = 0 BY <1>6, <1>8, Zenon
  <2>3. \A e \in Emails : Known(e) => account[e].links <= 1 BY <2>2
  <2> QED BY <2>1, <2>3, Zenon DEF OneLink
<1>14. Administered
  <2>1. CASE admins = {} BY <2>1, <1>1 DEF Administered
  <2>2. CASE admins # {}
    <3>1. PICK e \in admins : TRUE BY <2>2
    <3>2. account[e].role = "admin" /\ account[e] # None BY <1>6, Zenon DEF Known
    <3> QED BY <3>1, <3>2, <1>3, Zenon DEF Administered, Admins
  <2> QED BY <2>1, <2>2
<1> QED BY <1>9, <1>10, <1>11, <1>12, <1>13, <1>14 DEF AccountInv

\* Every step keeps the invariant.
LEMMA AccountNextInv == AccountInv /\ [AccountNext]_accountVars => AccountInv'
<1> SUFFICES ASSUME AccountInv, [AccountNext]_accountVars PROVE AccountInv' OBVIOUS
<1>1. ASSUME NEW h \in Hits, NEW e \in Emails, Register(h, e) \/ GithubCallback(h, e) PROVE AccountInv'
  BY <1>1, RegisterKeeps, GithubCallbackKeeps
<1>2. ASSUME NEW h \in Hits, CreateUser(h) \/ UpsertGithubUser(h) \/ CommitUpdate(h) PROVE AccountInv'
  BY <1>2, CreateUserKeeps, UpsertGithubUserKeeps, CommitUpdateKeeps
<1>3. ASSUME NEW h \in Hits, NEW e \in Emails, NEW target \in Emails, NEW change \in Changes,
             UpdateUser(h, e, target, change)
      PROVE  AccountInv'
  BY <1>3, UpdateUserKeeps
<1>4. ASSUME NEW e \in Emails, Activate(e) \/ Exchange(e) PROVE AccountInv'
  BY <1>4, ActivateKeeps, ExchangeKeeps, Zenon
<1>5. ASSUME NEW e \in Emails, NEW by \in Emails, Erase(e, by) PROVE AccountInv' BY <1>5, EraseKeeps, Zenon
<1>6. CASE Minute BY <1>6, MinuteKeeps
<1>7. CASE UNCHANGED accountVars
  <2>1. UNCHANGED <<account, enrolled, hit, created, story, token, lapsed>> BY <1>7 DEF accountVars
  <2>2. AllLapsing' BY <2>1, Zenon DEF AccountInv, AllLapsing, Lapsing
  <2> QED BY <2>1, <2>2, OthersStay DEF AccountInv, AccountTyped
<1> QED BY <1>1, <1>2, <1>3, <1>4, <1>5, <1>6, <1>7, Zenon DEF AccountNext

\* Whoever is let in has the right, or had it not longer ago than a token lives; accounts and
\* pseudonyms match; a link stays single and an administrator remains, but for the named
\* stories (dependencies.py:149, service.py:105, admin/router.py:156).
THEOREM AccessAlwaysSound == AccountSpec => []AccessSound
<1>1. AccountInv => AccessSound
  <2> SUFFICES ASSUME AccountInv PROVE AccessSound OBVIOUS
  <2>1. ASSUME NEW e \in Emails
        PROVE  /\ RequireActiveUser(e) => lapsed[e].active < TokenLife
               /\ RequireAdmin(e) => lapsed[e].admin < TokenLife
               /\ Verified(e) /\ IdOf(e) = token[e].id /\ account[e].active => RequireActiveUser(e)
               /\ Known(e) /\ "callbacks overlapped" \notin story => account[e].links <= 1
    <3>1. /\ Lapsing(account[e], token[e], lapsed[e]) /\ lapsed[e] \in [Rights -> Nat]
          /\ token[e] # None => token[e] \in Claims
      BY DEF AccountInv, AccountTyped, AllLapsing
    <3>2. lapsed[e]["admin"] \in Nat /\ lapsed[e]["active"] \in Nat BY <3>1 DEF Rights
    <3>3. ASSUME RequireActiveUser(e) PROVE lapsed[e]["active"] < TokenLife
      <4>1. token[e] # None /\ token[e] \in Claims /\ token[e].age < TokenLife
        BY <3>1, <3>3 DEF RequireActiveUser, Verified
      <4>2. CASE token[e].active
        <5>1. lapsed[e]["active"] <= token[e].age BY <4>1, <4>2, <3>1, Zenon DEF Lapsing
        <5>2. token[e].age \in Nat BY <4>1 DEF Claims
        <5> QED BY ONLY <5>1, <5>2, <4>1, <3>2, NobodyIsNone
      <4>3. CASE IdOf(e) = token[e].id /\ account[e].active
        <5>1. token[e].id \in Nat BY <4>1 DEF Claims
        <5>2. account[e] # None BY <5>1, <4>3, NobodyIsNone DEF IdOf, Known
        <5>3. lapsed[e]["active"] = 0 BY <5>2, <4>3, <3>1, Zenon DEF Lapsing
        <5> QED BY ONLY <5>3, NobodyIsNone
      <4> QED BY <4>2, <4>3, <3>3, Zenon DEF RequireActiveUser
    <3>4. ASSUME RequireAdmin(e) PROVE lapsed[e]["admin"] < TokenLife
      <4>1. token[e] # None /\ token[e] \in Claims /\ token[e].age < TokenLife /\ token[e].role = "admin"
        BY <3>1, <3>4 DEF RequireAdmin, Verified
      <4>2. lapsed[e]["admin"] <= token[e].age BY <4>1, <3>1, Zenon DEF Lapsing
      <4>3. token[e].age \in Nat BY <4>1 DEF Claims
      <4> QED BY ONLY <4>1, <4>2, <4>3, <3>2, NobodyIsNone
    <3>5. Known(e) /\ "callbacks overlapped" \notin story => account[e].links <= 1
      BY DEF AccountInv, Overlapped, OneLink
    <3> QED BY <3>3, <3>4, <3>5, Zenon DEF RequireActiveUser
  <2>2. enrolled = {account[e].id : e \in {d \in Emails : Known(d)}} BY Zenon DEF AccountInv, Numbered
  <2> QED BY <2>1, <2>2, Zenon DEF AccessSound, AccountInv, Administered
<1> QED BY <1>1, AccountInitInv, AccountNextInv, PTL DEF AccountSpec
-----------------------------------------------------------------------------
(* What is asked of a lab through the tool server *)

Plans == {<<>>, <<"stop">>, <<"start">>, <<"odd">>, RestartLab, <<"component">>, <<"logs">>}
Steps == 1 .. 2
Gated == {"observe", "act"}
ToolCalls == [pc : {"idle", "send", "wait", "links", "done"}, for : Tenants \cup {None},
         via : {"none", "direct"} \cup Gated, plan : Plans, step : Steps, try : 1 .. Sends,
         ran : [Steps -> Nat], told : 0 .. 1, seen : {"none", "node", "link", "gone"}, lines : SUBSET Tenants,
         answer : {None} \cup Answers]
Requests == [of : Askers, try : 1 .. Sends, step : Steps, wish : {"stop", "start"}]

ToolTyped ==
  /\ ask \in [Askers -> ToolCalls]
  /\ pending \in SUBSET Requests /\ IsFiniteSet(pending)
  /\ running \subseteq Tenants /\ late \subseteq Tenants
  /\ component \in {"node", "link", "gone"}

\* A request at rest has done nothing; one that is done has its answer, the others have none.
Course(a) ==
  /\ a.pc = "idle" => a = NoAsk
  /\ a.pc # "idle" => a.for \in Tenants /\ a.via # "none" /\ a.step \in 1 .. Len(a.plan)
  /\ a.pc = "done" <=> a.answer # None
  /\ a.told = 1 => a.pc = "done"
  /\ a.pc = "links" => a.plan = <<"component">>
  /\ a.step = 2 => a.ran[1] >= 1
  /\ a.answer = "ok" => a.step = Len(a.plan) /\ (a.plan[a.step] \in {"stop", "start"} => a.ran[a.step] >= 1)
  /\ a.answer = "not_found" => component # "link"
  /\ a.lines \subseteq {a.for}
AllInCourse == \A c \in Askers : Course(ask[c])

\* What GNS3 may still carry out of a step was sent, and what it has carried out as well.
StillOpen(c, i) == {p \in pending : p.of = c /\ p.step = i}
Sent(a, i) ==
  IF a.answer = "denied" \/ a.plan = <<"odd">> \/ a.pc = "idle" \/ i > a.step THEN 0
  ELSE IF i < a.step THEN Sends ELSE IF a.pc = "send" THEN a.try - 1 ELSE a.try
Counted == \A c \in Askers, i \in Steps : ask[c].ran[i] + Cardinality(StillOpen(c, i)) <= Sent(ask[c], i)

\* What is pending is part of the plan, and is waited for or was given up.
Expected(p, a) ==
  /\ p.step <= a.step /\ p.step \in 1 .. Len(a.plan) /\ p.wish = a.plan[p.step]
  /\ a.for \in late \/ (a.pc = "wait" /\ a.try = p.try /\ a.step = p.step)
AllExpected == \A p \in pending : Expected(p, ask[p.of])

\* Who restarts a lab alone, and gives nothing up, leaves it running.
Restarted(c, a) ==
  a.plan = RestartLab /\ a.answer = "ok" /\ Rivals(c) = {} /\ a.for \notin late => a.for \in running
AllRestarted == \A c \in Askers : Restarted(c, ask[c])

Audited ==
  /\ \A c \in Askers : ask[c].via \in Gated /\ ask[c].pc = "done" <=> \E r \in audit : r.of = c
  /\ \A r, s \in audit : r.of = s.of => r = s

Buffered == \A t \in Tenants : logs[t].listens \in {t, None} /\ logs[t].holds \subseteq {t}
BuffersKept == logs \in [Tenants -> [listens : Tenants \cup {None}, holds : SUBSET Tenants]] /\ Buffered

ToolInv ==
  ToolTyped /\ AllInCourse /\ Counted /\ AllExpected /\ AllRestarted /\ Audited /\ BuffersKept

\* The number of tries is one; nobody's lab is None.
LEMMA SendsNat == Sends \in Nat /\ Sends > 0 /\ None \notin Tenants /\ None \notin Answers
BY ToolAssumption

\* A plan has two steps at most, and only a restart has two.
LEMMA PlanFacts ==
  ASSUME NEW plan \in Plans
  PROVE  /\ Len(plan) \in 0 .. 2 /\ DOMAIN plan = 1 .. Len(plan)
         /\ Len(plan) = 2 <=> plan = RestartLab
         /\ plan = RestartLab => plan[1] = "stop" /\ plan[2] = "start"
         /\ plan = <<"odd">> => Len(plan) = 1 /\ plan[1] = "odd"
         /\ plan = <<"component">> => Len(plan) = 1 /\ plan[1] = "component"
         /\ plan = <<"logs">> => Len(plan) = 1 /\ plan[1] = "logs"
         /\ plan = <<"stop">> => Len(plan) = 1 /\ plan[1] = "stop"
         /\ plan = <<"start">> => Len(plan) = 1 /\ plan[1] = "start"
         /\ plan = <<>> <=> Len(plan) = 0
BY DEF Plans, RestartLab

\* At rest nothing was carried out.
LEMMA NoAskTyped ==
  /\ NoAsk \in ToolCalls /\ NoAsk.pc = "idle" /\ NoAsk.plan = <<>> /\ NoAsk.step = 1 /\ NoAsk.try = 1 /\ NoAsk.told = 0
  /\ NoAsk.answer = None /\ NoAsk.lines = {} /\ NoAsk.via = "none" /\ NoAsk.ran[1] = 0 /\ NoAsk.ran[2] = 0
  /\ NoAsk.for = None
<1>1. <<0, 0>> \in [Steps -> Nat] BY DEF Steps
<1>2. <<>> \in Plans BY DEF Plans
<1> QED BY <1>1, <1>2, SendsNat DEF NoAsk, ToolCalls, Steps

\* A set that is given an element, or loses one.
LEMMA OneMore ==
  ASSUME NEW S, IsFiniteSet(S), NEW x
  PROVE  /\ IsFiniteSet(S \cup {x}) /\ Cardinality(S) \in Nat /\ Cardinality(S \cup {x}) \in Nat
         /\ Cardinality(S \cup {x}) <= Cardinality(S) + 1
BY FS_AddElement, FS_CardinalityType

\* And one that loses an element.
LEMMA OneLess ==
  ASSUME NEW S, IsFiniteSet(S), NEW x \in S
  PROVE  /\ IsFiniteSet(S \ {x}) /\ Cardinality(S) \in Nat /\ Cardinality(S \ {x}) \in Nat
         /\ Cardinality(S \ {x}) = Cardinality(S) - 1
BY FS_RemoveElement, FS_CardinalityType

\* What is open of a step is finite.
LEMMA OpenFinite ==
  ASSUME IsFiniteSet(pending), NEW c, NEW i
  PROVE  IsFiniteSet(StillOpen(c, i)) /\ Cardinality(StillOpen(c, i)) \in Nat
<1>1. StillOpen(c, i) \in SUBSET pending BY DEF StillOpen
<1> QED BY <1>1, FS_Subset, FS_CardinalityType

\* Whose plan acts upon the nodes.
Acts(plan) == ToSet(plan) \cap {"stop", "start"} # {}

\* Rivals stay rivals.
LEMMA RivalsStay ==
  ASSUME ToolInv, NEW c \in Askers, NEW a \in ToolCalls, ask' = [ask EXCEPT ![c] = a],
         ask[c].pc # "idle" => a.for = ask[c].for /\ a.plan = ask[c].plan
  PROVE  /\ \A d \in Askers : d # c /\ Rivals(d)' = {} => Rivals(d) = {}
         /\ ask[c].pc # "idle" /\ Rivals(c)' = {} => Rivals(c) = {}
<1>1. ask'[c] = a /\ \A d \in Askers : d # c => ask'[d] = ask[d] BY DEF ToolInv, ToolTyped
<1>2. \A d \in Askers : Rivals(d) = {e \in Askers \ {d} : ask[e].for = ask[d].for /\ Acts(ask[e].plan)}
  BY Zenon DEF Rivals, Acts
<1>3. \A d \in Askers : Rivals(d)' = {e \in Askers \ {d} : ask'[e].for = ask'[d].for /\ Acts(ask'[e].plan)}
  BY Zenon DEF Rivals, Acts
<1>4. ask[c].pc = "idle" => ~Acts(ask[c].plan)
  <2>1. ToSet(<<>>) = {} BY DEF ToSet
  <2>2. ask[c].pc = "idle" => ask[c].plan = <<>> BY NoAskTyped DEF ToolInv, AllInCourse, Course
  <2> QED BY <2>1, <2>2, Zenon DEF Acts
<1>5. ASSUME NEW d \in Askers, d # c, Rivals(d)' = {} PROVE Rivals(d) = {}
  <2>1. SUFFICES ASSUME NEW e \in Askers, e # d, ask[e].for = ask[d].for, Acts(ask[e].plan) PROVE FALSE
    BY <1>2, <1>5, Zenon
  <2>2. ask'[e].for = ask'[d].for /\ Acts(ask'[e].plan)
    <3>1. CASE e # c BY <3>1, <2>1, <1>1, <1>5
    <3>2. CASE e = c
      <4>1. ask'[e].for = ask[e].for /\ ask'[e].plan = ask[e].plan BY <3>2, <2>1, <1>1, <1>4
      <4> QED BY <4>1, <2>1, <1>1, <1>5
    <3> QED BY <3>1, <3>2
  <2> QED BY <2>1, <2>2, <1>3, <1>5, Zenon
<1>6. ASSUME ask[c].pc # "idle", Rivals(c)' = {} PROVE Rivals(c) = {}
  <2>1. SUFFICES ASSUME NEW e \in Askers, e # c, ask[e].for = ask[c].for, Acts(ask[e].plan) PROVE FALSE
    BY <1>2, <1>6, Zenon
  <2>2. ask'[e].for = ask'[c].for /\ Acts(ask'[e].plan) BY <2>1, <1>1, <1>6
  <2> QED BY <2>1, <2>2, <1>3, <1>6, Zenon
<1> QED BY <1>5, <1>6

\* One request moves on: what is to be shown of it, of what is open of it and of its audit.
LEMMA AskMoves ==
  ASSUME ToolInv, NEW c \in Askers, NEW a \in ToolCalls, ask' = [ask EXCEPT ![c] = a],
         ask[c].pc # "idle" => a.for = ask[c].for /\ a.plan = ask[c].plan,
         Course(a), component' = component,
         pending' \in SUBSET Requests, IsFiniteSet(pending'),
         \A p \in Requests : p.of # c => (p \in pending' <=> p \in pending),
         \A i \in Steps : a.ran[i] + Cardinality(StillOpen(c, i)') <= Sent(a, i),
         late \subseteq late', late' \subseteq Tenants, running' \subseteq Tenants,
         \A p \in pending' : p.of = c => Expected(p, a)',
         running' = running \/ (ask[c].pc # "idle" /\ Acts(a.plan)),
         \A t \in Tenants : t # a.for => (t \in running' <=> t \in running),
         a.answer = "ok" => ask[c].pc # "idle",
         a.plan = RestartLab /\ a.answer = "ok" /\ Rivals(c) = {} /\ a.for \notin late' => a.for \in running',
         a.via \in Gated /\ a.pc = "done" <=> \E r \in audit' : r.of = c,
         \A d \in Askers : d # c => ((\E r \in audit' : r.of = d) <=> (\E r \in audit : r.of = d)),
         \A r, q \in audit' : r.of = q.of => r = q,
         BuffersKept'
  PROVE  ToolInv'
<1>1. /\ ask'[c] = a /\ \A d \in Askers : d # c => ask'[d] = ask[d]
      /\ ask' \in [Askers -> ToolCalls] /\ ask \in [Askers -> ToolCalls]
  BY DEF ToolInv, ToolTyped
<1>2. ToolTyped' BY <1>1 DEF ToolInv, ToolTyped
<1>3. AllInCourse'
  <2>1. SUFFICES ASSUME NEW d \in Askers, NEW e, e = ask'[d] PROVE Course(e)' BY Zenon DEF AllInCourse
  <2>2. Course(e) BY <2>1, <1>1, Zenon DEF ToolInv, AllInCourse
  <2> QED BY <2>2, Zenon DEF Course
<1>4. Counted'
  <2>1. ASSUME NEW d \in Askers, d # c, NEW i \in Steps PROVE StillOpen(d, i)' = StillOpen(d, i)
    <3>1. pending \in SUBSET Requests BY DEF ToolInv, ToolTyped
    <3> QED BY <3>1, <2>1, Zenon DEF StillOpen
  <2>2. SUFFICES ASSUME NEW d \in Askers, NEW i \in Steps
                 PROVE  ask'[d].ran[i] + Cardinality(StillOpen(d, i)') <= Sent(ask'[d], i)
    BY Zenon DEF Counted, Sent
  <2>3. CASE d = c BY <2>3, <1>1
  <2>4. CASE d # c BY <2>1, <2>4, <1>1, Zenon DEF ToolInv, Counted
  <2> QED BY <2>3, <2>4
<1>5. AllExpected'
  <2>1. SUFFICES ASSUME NEW p \in pending', NEW e, e = ask'[p.of] PROVE Expected(p, e)' BY Zenon DEF AllExpected
  <2>2. CASE p.of = c BY <2>2, <2>1, <1>1
  <2>3. CASE p.of # c
    <3>1. p \in pending /\ p \in Requests BY <2>3
    <3>2. p.of \in Askers BY <3>1 DEF Requests
    <3>3. e = ask[p.of] BY <2>1, <2>3, <3>2, <1>1
    <3>4. Expected(p, e) BY <3>1, <3>3 DEF ToolInv, AllExpected
    <3> QED BY <3>4, Zenon DEF Expected
  <2> QED BY <2>2, <2>3
<1>6. AllRestarted'
  <2>1. SUFFICES ASSUME NEW d \in Askers, ask'[d].plan = RestartLab, ask'[d].answer = "ok", Rivals(d)' = {},
                        ask'[d].for \notin late'
                 PROVE  ask'[d].for \in running'
    BY Zenon DEF AllRestarted, Restarted
  <2>2. CASE d = c
    <3>1. Rivals(c) = {} BY <2>1, <2>2, <1>1, RivalsStay
    <3> QED BY <3>1, <2>1, <2>2, <1>1
  <2>3. CASE d # c
    <3>1. Rivals(d) = {} /\ ask'[d] = ask[d] BY <2>1, <2>3, <1>1, RivalsStay
    <3>2. ask[d].for \in running BY <2>1, <3>1, Zenon DEF ToolInv, AllRestarted, Restarted
    <3>3. CASE running' = running BY <3>1, <3>2, <3>3
    <3>4. CASE ask[c].pc # "idle" /\ Acts(a.plan)
      <4>1. a.for # ask[d].for
        <5>1. SUFFICES ASSUME a.for = ask[d].for PROVE FALSE OBVIOUS
        <5>2. ask[c].for = ask[d].for /\ Acts(ask[c].plan) BY <5>1, <3>4
        <5>3. c \in Rivals(d) BY <5>2, <2>3, Zenon DEF Rivals, Acts
        <5> QED BY <5>3, <3>1
      <4>2. ask[d].for \in Tenants BY <3>2 DEF ToolInv, ToolTyped
      <4> QED BY <4>1, <4>2, <3>1, <3>2
    <3> QED BY <3>3, <3>4
  <2> QED BY <2>2, <2>3
<1>7. Audited'
  <2>1. ASSUME NEW d \in Askers
        PROVE  ask'[d].via \in Gated /\ ask'[d].pc = "done" <=> \E r \in audit' : r.of = d
    <3>1. CASE d = c BY <3>1, <1>1, Zenon
    <3>2. CASE d # c BY <3>2, <1>1, Zenon DEF ToolInv, Audited
    <3> QED BY <3>1, <3>2
  <2> QED BY <2>1, Zenon DEF Audited
<1> QED BY <1>2, <1>3, <1>4, <1>5, <1>6, <1>7 DEF ToolInv

\* One row of audit for each call that comes to an end, if it went through the gates.
LEMMA AuditKept ==
  ASSUME ToolInv, NEW c \in Askers, NEW via, via = ask[c].via, ask[c].pc \notin {"idle", "done"}
  PROVE  /\ \A verdict : AuditRow(c, verdict) =>
                   /\ via \in Gated <=> \E r \in audit' : r.of = c
                   /\ \A d \in Askers : d # c => ((\E r \in audit' : r.of = d) <=> (\E r \in audit : r.of = d))
                   /\ \A r, q \in audit' : r.of = q.of => r = q
         /\ audit' = audit =>
                   /\ ~\E r \in audit' : r.of = c
                   /\ \A r, q \in audit' : r.of = q.of => r = q
<1>1. /\ ~\E r \in audit : r.of = c
      /\ \A r, q \in audit : r.of = q.of => r = q
  BY DEF ToolInv, Audited
<1>2. via \in {"direct"} \cup Gated BY DEF ToolInv, ToolTyped, AllInCourse, Course, ToolCalls
<1>3. ASSUME NEW verdict, AuditRow(c, verdict)
      PROVE  /\ via \in Gated <=> \E r \in audit' : r.of = c
             /\ \A d \in Askers : d # c => ((\E r \in audit' : r.of = d) <=> (\E r \in audit : r.of = d))
             /\ \A r, q \in audit' : r.of = q.of => r = q
  <2>1. CASE via = "direct"
    <3>1. audit' = audit BY <2>1, <1>3 DEF AuditRow
    <3>2. via \notin Gated BY <2>1 DEF Gated
    <3> QED BY <3>1, <3>2, <1>1
  <2>2. CASE via \in Gated
    <3>1. via # "direct" BY <2>2 DEF Gated
    <3>2. PICK row : row = [of |-> c, verdict |-> verdict] OBVIOUS
    <3>3. audit' = audit \cup {row} /\ row.of = c BY <3>1, <3>2, <1>3 DEF AuditRow
    <3>4. \E r \in audit' : r.of = c BY <3>3, Zenon
    <3>5. \A d \in Askers : d # c => ((\E r \in audit' : r.of = d) <=> (\E r \in audit : r.of = d))
      BY <3>3, Zenon
    <3>6. \A r, q \in audit' : r.of = q.of => r = q BY <3>3, <1>1, Zenon
    <3> QED BY <3>4, <3>5, <3>6, <2>2
  <2> QED BY <2>1, <2>2, <1>2
<1> QED BY <1>1, <1>3

\* A request that was sent moves on; what is still open of it was given up.
LEMMA WaitMoves ==
  ASSUME ToolInv, NEW c \in Askers, NEW a \in ToolCalls, ask' = [ask EXCEPT ![c] = a], ask[c].pc \in {"wait", "links"},
         a.for = ask[c].for, a.plan = ask[c].plan, a.via = ask[c].via, ask[c].step <= a.step,
         Course(a), component' = component,
         pending' \subseteq pending, \A p \in pending : p.of # c => p \in pending',
         \A p \in pending' : p.of = c => a.for \in late',
         \A i \in Steps : a.ran[i] + Cardinality(StillOpen(c, i)') <= Sent(a, i),
         late \subseteq late', late' \subseteq Tenants, running' \subseteq Tenants,
         running' = running \/ Acts(a.plan),
         \A t \in Tenants : t # a.for => (t \in running' <=> t \in running),
         a.plan = RestartLab /\ a.answer = "ok" /\ Rivals(c) = {} /\ a.for \notin late' => a.for \in running',
         NEW verdict, (a.pc = "done" /\ AuditRow(c, verdict)) \/ (a.pc # "done" /\ audit' = audit),
         BuffersKept'
  PROVE  ToolInv'
<1>1. ask[c].pc \notin {"idle", "done"} OBVIOUS
<1>2. pending \in SUBSET Requests /\ IsFiniteSet(pending) /\ ask[c] \in ToolCalls BY DEF ToolInv, ToolTyped
<1>3. pending' \in SUBSET Requests /\ IsFiniteSet(pending')
  <2>1. pending' \in SUBSET pending OBVIOUS
  <2> QED BY <2>1, <1>2, FS_Subset
<1>4. \A p \in Requests : p.of # c => (p \in pending' <=> p \in pending) OBVIOUS
<1>5. \A p \in pending' : p.of = c => Expected(p, a)'
  <2>1. SUFFICES ASSUME NEW p \in pending', p.of = c PROVE Expected(p, a)' OBVIOUS
  <2>2. Expected(p, ask[c]) /\ p \in Requests BY <2>1, <1>2 DEF ToolInv, AllExpected
  <2>3. p.step \in Nat /\ a.step \in Nat /\ ask[c].step \in Nat BY <2>2, <1>2 DEF Requests, ToolCalls, Steps
  <2>4. a.for \in late' BY <2>1
  <2>5. p.step <= a.step BY <2>2, <2>3 DEF Expected
  <2> QED BY <2>2, <2>4, <2>5, Zenon DEF Expected
<1>6. /\ a.via \in Gated /\ a.pc = "done" <=> \E r \in audit' : r.of = c
      /\ \A d \in Askers : d # c => ((\E r \in audit' : r.of = d) <=> (\E r \in audit : r.of = d))
      /\ \A r, q \in audit' : r.of = q.of => r = q
  <2>1. CASE a.pc = "done" /\ AuditRow(c, verdict) BY <2>1, <1>1, AuditKept, Zenon
  <2>2. CASE a.pc # "done" /\ audit' = audit BY <2>2, <1>1, AuditKept, Zenon
  <2> QED BY <2>1, <2>2
<1> QED BY <1>1, <1>3, <1>4, <1>5, <1>6, AskMoves

\* Whoever moves on has been allowed to send as much as before.
LEMMA SentGrows ==
  ASSUME ToolInv, NEW c \in Askers, NEW a \in ToolCalls, ask[c].pc \in {"wait", "links"}, a.plan = ask[c].plan,
         a.answer # "denied",
         \/ a.step = ask[c].step /\ a.try = ask[c].try /\ a.pc \in {"done", "links"}
         \/ a.step = ask[c].step /\ a.try = ask[c].try + 1 /\ a.pc = "send"
         \/ a.step = ask[c].step + 1 /\ a.try = 1 /\ a.pc = "send",
         NEW i \in Steps
  PROVE  Sent(ask[c], i) <= Sent(a, i)
<1>1. ask[c] \in ToolCalls /\ ask[c].answer # "denied" BY SendsNat DEF ToolInv, ToolTyped, AllInCourse, Course, Answers
<1>2. /\ ask[c].step \in Nat /\ ask[c].try \in 1 .. Sends /\ a.step \in Nat /\ a.try \in 1 .. Sends /\ i \in Nat
  BY <1>1 DEF ToolCalls, Steps
<1> QED BY <1>1, <1>2, SendsNat DEF Sent

\* GNS3 is through with something pending.
LEMMA OpenLess ==
  ASSUME ToolInv, NEW p \in pending, pending' = pending \ {p}, NEW i \in Steps
  PROVE  /\ Cardinality(StillOpen(p.of, i)) \in Nat /\ Cardinality(StillOpen(p.of, i)') \in Nat
         /\ i = p.step => Cardinality(StillOpen(p.of, i)') = Cardinality(StillOpen(p.of, i)) - 1
         /\ i # p.step => Cardinality(StillOpen(p.of, i)') = Cardinality(StillOpen(p.of, i))
<1>1. IsFiniteSet(pending) BY DEF ToolInv, ToolTyped
<1>2. IsFiniteSet(StillOpen(p.of, i)) /\ Cardinality(StillOpen(p.of, i)) \in Nat BY <1>1, OpenFinite
<1>3. CASE i = p.step
  <2>1. p \in StillOpen(p.of, i) /\ StillOpen(p.of, i)' = StillOpen(p.of, i) \ {p} BY <1>3, Zenon DEF StillOpen
  <2> QED BY <2>1, <1>2, <1>3, OneLess
<1>4. CASE i # p.step
  <2>1. StillOpen(p.of, i)' = StillOpen(p.of, i) BY <1>4, Zenon DEF StillOpen
  <2> QED BY <2>1, <1>2, <1>4
<1> QED BY <1>3, <1>4

\* The call goes on, or ends, with these fields: it is the same call.
SameCall(c, f) ==
  /\ f \in ToolCalls /\ f.for = ask[c].for /\ f.plan = ask[c].plan /\ f.via = ask[c].via /\ f.step = ask[c].step
  /\ f.try = ask[c].try /\ f.lines \subseteq {f.for} /\ \A i \in Steps : ask[c].ran[i] <= f.ran[i]

\* What is open becomes less at most, and is late if the call does not wait for it.
GivenUp(c, f) ==
  /\ pending' \subseteq pending /\ \A p \in pending : p.of # c => p \in pending'
  /\ \A p \in pending' : p.of = c => f.for \in late'
  /\ late \subseteq late' /\ late' \subseteq Tenants
  /\ \A i \in Steps : f.ran[i] + Cardinality(StillOpen(c, i)') <= Sent(ask[c], i)

\* GNS3 acts upon the lab of the call at most.
OwnLab(f) ==
  /\ running' \subseteq Tenants /\ (running' = running \/ Acts(f.plan))
  /\ \A t \in Tenants : t # f.for => (t \in running' <=> t \in running)

\* A call ends.
LEMMA EndsKeeps ==
  ASSUME ToolInv, NEW c \in Askers, NEW f, NEW answer \in {"ok", "lost", "error", "not_found"},
         ask[c].pc \in {"wait", "links"}, SameCall(c, f), GivenUp(c, f), OwnLab(f), Ends(c, f, answer),
         answer = "ok" => f.step = Len(f.plan) /\ (f.plan[f.step] \in {"stop", "start"} => f.ran[f.step] >= 1),
         answer = "not_found" => component # "link",
         f.plan = RestartLab /\ answer = "ok" /\ Rivals(c) = {} /\ f.for \notin late' => f.for \in running',
         component' = component, BuffersKept'
  PROVE  ToolInv'
<1>1. PICK a : a = [f EXCEPT !.pc = "done", !.answer = answer] OBVIOUS
<1>2. ask' = [ask EXCEPT ![c] = a] /\ AuditRow(c, answer) BY <1>1, Zenon DEF Ends
<1>3. f \in ToolCalls BY DEF SameCall
<1>4. answer \in Answers BY DEF Answers
<1>5. a \in ToolCalls BY <1>1, <1>3, <1>4 DEF ToolCalls
<1>6. /\ a.pc = "done" /\ a.answer = answer /\ a.for = f.for /\ a.plan = f.plan /\ a.via = f.via /\ a.step = f.step
      /\ a.try = f.try /\ a.ran = f.ran /\ a.told = f.told /\ a.lines = f.lines
  BY <1>1, <1>3 DEF ToolCalls
<1>7. Course(ask[c]) /\ ask[c].pc # "idle" /\ ask[c] \in ToolCalls BY DEF ToolInv, ToolTyped, AllInCourse
<1>8. Course(a)
  <2>1. answer # None BY <1>4, SendsNat
  <2>2. a.for \in Tenants /\ a.via # "none" /\ a.step \in 1 .. Len(a.plan) BY <1>6, <1>7 DEF SameCall, Course
  <2>3. a.step = 2 => a.ran[1] >= 1
    <3>1. a.step = 2 => ask[c].ran[1] >= 1 BY <1>6, <1>7 DEF SameCall, Course
    <3>2. ask[c].ran[1] <= a.ran[1] /\ ask[c].ran[1] \in Nat /\ a.ran[1] \in Nat
      BY <1>5, <1>6, <1>7 DEF SameCall, Steps, ToolCalls
    <3> QED BY <3>1, <3>2
  <2>4. a.lines \subseteq {a.for} BY <1>6 DEF SameCall
  <2> QED BY <2>1, <2>2, <2>3, <2>4, <1>6 DEF Course
<1>9. \A i \in Steps : a.ran[i] + Cardinality(StillOpen(c, i)') <= Sent(a, i)
  <2>1. SUFFICES ASSUME NEW i \in Steps PROVE a.ran[i] + Cardinality(StillOpen(c, i)') <= Sent(a, i) OBVIOUS
  <2>2. Sent(a, i) = Sent(ask[c], i)
    <3>1. ask[c].answer # "denied" BY <1>7, SendsNat DEF Course, Answers
    <3> QED BY <3>1, <1>6 DEF Sent, SameCall
  <2> QED BY <2>2, <1>6 DEF GivenUp
<1>10. ask[c].step <= a.step BY <1>6, <1>7 DEF SameCall, ToolCalls, Steps
<1>11. a.for = ask[c].for /\ a.plan = ask[c].plan /\ a.via = ask[c].via BY <1>6 DEF SameCall
<1>12. /\ pending' \subseteq pending /\ \A p \in pending : p.of # c => p \in pending'
       /\ \A p \in pending' : p.of = c => a.for \in late'
       /\ late \subseteq late' /\ late' \subseteq Tenants
  BY <1>6 DEF GivenUp
<1>13. /\ running' \subseteq Tenants /\ (running' = running \/ Acts(a.plan))
       /\ \A t \in Tenants : t # a.for => (t \in running' <=> t \in running)
  BY <1>6 DEF OwnLab
<1>14. a.plan = RestartLab /\ a.answer = "ok" /\ Rivals(c) = {} /\ a.for \notin late' => a.for \in running'
  BY <1>6
<1>15. (a.pc = "done" /\ AuditRow(c, answer)) \/ (a.pc # "done" /\ audit' = audit) BY <1>2, <1>6
<1> QED BY <1>2, <1>5, <1>8, <1>9, <1>10, <1>11, <1>12, <1>13, <1>14, <1>15, WaitMoves, Zenon

\* A call that has its answer goes on to the next step of its plan, or ends well.
LEMMA GoesKeeps ==
  ASSUME ToolInv, NEW c \in Askers, NEW f, ask[c].pc \in {"wait", "links"},
         SameCall(c, f), GivenUp(c, f), OwnLab(f), Goes(c, f),
         f.told = 0, f.answer = None,
         f.plan[f.step] \in {"stop", "start"} => f.ran[f.step] >= 1,
         f.plan = RestartLab /\ f.step = 2 /\ Rivals(c) = {} /\ f.for \notin late' => f.for \in running',
         component' = component, BuffersKept'
  PROVE  ToolInv'
<1>1. Course(ask[c]) /\ ask[c].pc # "idle" /\ ask[c] \in ToolCalls BY DEF ToolInv, ToolTyped, AllInCourse
<1>2. f \in ToolCalls /\ f.plan \in Plans BY DEF SameCall, ToolCalls
<1>3. f.step \in 1 .. Len(f.plan) /\ Len(f.plan) \in 0 .. 2 BY <1>1, <1>2, PlanFacts DEF SameCall, Course
<1>4. CASE f.step < Len(f.plan)
  <2>1. f.step = 1 /\ Len(f.plan) = 2 /\ f.plan = RestartLab /\ f.plan[1] = "stop"
    <3>1. f.step = 1 /\ Len(f.plan) = 2
      <4>1. PICK n \in 0 .. 2 : n = Len(f.plan) BY <1>3
      <4>2. PICK m \in 1 .. n : m = f.step BY <4>1, <1>3
      <4>3. m < n BY <4>1, <4>2, <1>4
      <4>4. m = 1 /\ n = 2 BY <4>3
      <4> QED BY <4>1, <4>2, <4>4
    <3>2. f.plan = RestartLab BY <3>1, <1>2, PlanFacts
    <3> QED BY <3>1, <3>2 DEF RestartLab
  <2>2. PICK a : a = [f EXCEPT !.pc = "send", !.step = f.step + 1, !.try = 1] OBVIOUS
  <2>3. ask' = [ask EXCEPT ![c] = a] /\ audit' = audit BY <2>2, <1>4, Zenon DEF Goes
  <2>4. a \in ToolCalls
    <3>1. f.step + 1 \in Steps /\ 1 \in 1 .. Sends BY <2>1, SendsNat DEF Steps
    <3> QED BY <3>1, <2>2, <1>2 DEF ToolCalls
  <2>5. /\ a.pc = "send" /\ a.answer = None /\ a.for = f.for /\ a.plan = f.plan /\ a.via = f.via /\ a.step = 2
        /\ a.try = 1 /\ a.ran = f.ran /\ a.told = f.told /\ a.lines = f.lines
    BY <2>1, <2>2, <1>2 DEF ToolCalls
  <2>6. Course(a)
    <3>1. a.for \in Tenants /\ a.via # "none" BY <2>5, <1>1 DEF SameCall, Course
    <3>2. a.step \in 1 .. Len(a.plan) BY <2>1, <2>5
    <3>3. a.ran[1] >= 1 BY <2>1, <2>5
    <3>4. a.lines \subseteq {a.for} BY <2>5 DEF SameCall
    <3>5. a.answer # "ok" /\ a.answer # "not_found" BY <2>5, SendsNat DEF Answers
    <3> QED BY <3>1, <3>2, <3>3, <3>4, <3>5, <2>5 DEF Course
  <2>7. \A i \in Steps : a.ran[i] + Cardinality(StillOpen(c, i)') <= Sent(a, i)
    <3>1. SUFFICES ASSUME NEW i \in Steps PROVE a.ran[i] + Cardinality(StillOpen(c, i)') <= Sent(a, i) OBVIOUS
    <3>2. a.answer # "denied" BY <2>5, SendsNat DEF Answers
    <3>3. Sent(ask[c], i) <= Sent(a, i)
      <4>1. a.plan = ask[c].plan /\ a.step = ask[c].step + 1 BY <2>1, <2>5 DEF SameCall
      <4> QED BY <4>1, <3>2, <2>4, <2>5, SentGrows
    <3>4. /\ Sent(ask[c], i) \in Int /\ Sent(a, i) \in Int
      BY <1>1, <2>4, SendsNat DEF Sent, ToolCalls, Steps
    <3>5. a.ran[i] + Cardinality(StillOpen(c, i)') <= Sent(ask[c], i) BY <2>5 DEF GivenUp
    <3>6. a.ran[i] \in Nat /\ Cardinality(StillOpen(c, i)') \in Nat
      <4>1. IsFiniteSet(pending)  BY DEF ToolInv, ToolTyped
      <4>2. StillOpen(c, i)' \in SUBSET pending BY Zenon DEF StillOpen, GivenUp
      <4> QED BY <4>1, <4>2, <2>4, FS_Subset, FS_CardinalityType DEF ToolCalls
    <3> QED BY <3>3, <3>4, <3>5, <3>6
  <2>8. ask[c].step <= a.step BY <2>1, <2>5 DEF SameCall
  <2>9. a.plan = RestartLab /\ a.answer = "ok" /\ Rivals(c) = {} /\ a.for \notin late' => a.for \in running'
    BY <2>5, SendsNat DEF Answers
  <2>10. a.for = ask[c].for /\ a.plan = ask[c].plan /\ a.via = ask[c].via /\ a.pc # "done" BY <2>5 DEF SameCall
  <2>11. /\ pending' \subseteq pending /\ \A p \in pending : p.of # c => p \in pending'
         /\ \A p \in pending' : p.of = c => a.for \in late'
         /\ late \subseteq late' /\ late' \subseteq Tenants
    BY <2>5 DEF GivenUp
  <2>12. /\ running' \subseteq Tenants /\ (running' = running \/ Acts(a.plan))
         /\ \A t \in Tenants : t # a.for => (t \in running' <=> t \in running)
    BY <2>5 DEF OwnLab
  <2>13. (a.pc = "done" /\ AuditRow(c, None)) \/ (a.pc # "done" /\ audit' = audit) BY <2>3, <2>10
  <2> QED BY <2>3, <2>4, <2>6, <2>7, <2>8, <2>9, <2>10, <2>11, <2>12, <2>13, WaitMoves, Zenon
<1>5. CASE ~(f.step < Len(f.plan))
  <2>1. f.step = Len(f.plan) BY <1>3, <1>5
  <2>2. Ends(c, f, "ok") BY <1>5, Zenon DEF Goes
  <2>3. f.plan = RestartLab => f.step = 2 BY <2>1, <1>2, PlanFacts
  <2> QED BY <2>1, <2>2, <2>3, EndsKeeps
<1> QED BY <1>4, <1>5

\* Calls that are under way.
LEMMA UnderWay ==
  ASSUME ToolInv, NEW c \in Askers, ask[c].pc \in {"send", "wait", "links"}
  PROVE  /\ ask[c] \in ToolCalls /\ Course(ask[c]) /\ ask[c].told = 0 /\ ask[c].answer = None
         /\ ask[c].for \in Tenants /\ ask[c].step \in 1 .. Len(ask[c].plan) /\ ask[c].lines \subseteq {ask[c].for}
<1>1. ask[c] \in ToolCalls /\ Course(ask[c]) BY DEF ToolInv, ToolTyped, AllInCourse
<1>2. ask[c].told \in 0 .. 1 BY <1>1 DEF ToolCalls
<1> QED BY <1>1, <1>2 DEF Course

\* As nothing but what is given up is left open, nothing has changed.
LEMMA SameGivenUp ==
  ASSUME ToolInv, NEW c \in Askers, NEW f, SameCall(c, f), f.ran = ask[c].ran, pending' = pending,
         late \subseteq late', late' \subseteq Tenants, \A p \in pending : p.of = c => f.for \in late'
  PROVE  GivenUp(c, f)
<1>1. \A i \in Steps : StillOpen(c, i)' = StillOpen(c, i) BY Zenon DEF StillOpen
<1>2. \A i \in Steps : f.ran[i] + Cardinality(StillOpen(c, i)') <= Sent(ask[c], i)
  BY <1>1, Zenon DEF ToolInv, Counted
<1> QED BY <1>2 DEF GivenUp

\* A call of tools that GNS3 does not act for has nothing open.
LEMMA NothingOpen ==
  ASSUME ToolInv, NEW c \in Askers, ask[c].plan \in {<<"odd">>, <<"component">>, <<"logs">>}
  PROVE  \A p \in pending : p.of # c
<1>1. SUFFICES ASSUME NEW p \in pending, p.of = c PROVE FALSE OBVIOUS
<1>2. p \in Requests /\ Expected(p, ask[c]) BY <1>1 DEF ToolInv, ToolTyped, AllExpected
<1>3. p.wish \in {"stop", "start"} /\ p.step \in 1 .. Len(ask[c].plan) /\ p.wish = ask[c].plan[p.step]
  BY <1>2 DEF Requests, Expected
<1>4. ask[c].plan \in Plans BY DEF Plans
<1>5. Len(ask[c].plan) = 1 /\ ask[c].plan[1] \notin {"stop", "start"} BY <1>4, PlanFacts
<1> QED BY <1>3, <1>5

\* And a wish that is no action of GNS3's is a plan of its own.
LEMMA WishPlan ==
  ASSUME ToolInv, NEW c \in Askers, ask[c].pc \in {"send", "wait", "links"},
         Wish(c) \in {"odd", "component", "logs"}
  PROVE  ask[c].plan \in {<<"odd">>, <<"component">>, <<"logs">>} /\ ask[c].step = 1 /\ Len(ask[c].plan) = 1
         /\ ask[c].plan[1] \notin {"stop", "start"}
<1>1. /\ ask[c].plan \in Plans /\ ask[c].step \in 1 .. Len(ask[c].plan) BY UnderWay DEF ToolCalls
<1>2. ask[c].plan = RestartLab => ask[c].step \in {1, 2}
  <2>1. SUFFICES ASSUME ask[c].plan = RestartLab PROVE ask[c].step \in {1, 2} OBVIOUS
  <2>2. PICK n : n = Len(ask[c].plan) OBVIOUS
  <2>3. PICK m \in 1 .. n : m = ask[c].step BY <2>2, <1>1
  <2>4. n = 2 BY <2>1, <2>2, <1>1, PlanFacts
  <2> QED BY <2>3, <2>4
<1>3. ask[c].plan # RestartLab => ask[c].step = 1 /\ Len(ask[c].plan) = 1
  <2>1. Len(ask[c].plan) \in 0 .. 2 BY <1>1, PlanFacts
  <2>2. ask[c].plan # RestartLab => Len(ask[c].plan) # 2 BY <1>1, PlanFacts
  <2>3. PICK n \in 0 .. 2 : n = Len(ask[c].plan) BY <2>1
  <2>4. PICK m \in 1 .. n : m = ask[c].step BY <2>3, <1>1
  <2>5. n # 2 => m = 1 /\ n = 1 OBVIOUS
  <2> QED BY <2>2, <2>3, <2>4, <2>5
<1>4. Wish(c) = ask[c].plan[ask[c].step] BY DEF Wish
<1>5. ask[c].plan # RestartLab BY <1>1, <1>2, <1>4, PlanFacts
<1> QED BY <1>1, <1>3, <1>4, <1>5, PlanFacts DEF Plans

\* A request is sent: GNS3 may carry it out from now on.
LEMMA SendWishKeeps == ASSUME ToolInv, NEW c \in Askers, SendWish(c) PROVE ToolInv'
<1>1. PICK a : a = [ask[c] EXCEPT !.pc = "wait"] OBVIOUS
<1>2. PICK p : p = [of |-> c, try |-> ask[c].try, step |-> ask[c].step, wish |-> Wish(c)] OBVIOUS
<1>3. /\ ask[c].pc = "send" /\ ask' = [ask EXCEPT ![c] = a]
      /\ pending' = IF Wish(c) \in {"stop", "start"} THEN pending \cup {p} ELSE pending
      /\ UNCHANGED <<running, late, consents, stamped, audit, logs, component>>
  BY <1>1, <1>2, Zenon DEF SendWish, AskAt
<1>4. /\ ask[c] \in ToolCalls /\ Course(ask[c]) /\ ask[c].told = 0 /\ ask[c].answer = None
      /\ ask[c].for \in Tenants /\ ask[c].step \in 1 .. Len(ask[c].plan) /\ ask[c].lines \subseteq {ask[c].for}
  BY <1>3, UnderWay
<1>5. a \in ToolCalls BY <1>1, <1>4 DEF ToolCalls
<1>6. /\ a.pc = "wait" /\ a.answer = None /\ a.for = ask[c].for /\ a.plan = ask[c].plan /\ a.via = ask[c].via
      /\ a.step = ask[c].step /\ a.try = ask[c].try /\ a.ran = ask[c].ran /\ a.told = 0 /\ a.lines = ask[c].lines
  BY <1>1, <1>4 DEF ToolCalls
<1>7. Course(a) BY <1>3, <1>4, <1>6, SendsNat DEF Course, Answers
<1>8. pending \in SUBSET Requests /\ IsFiniteSet(pending) /\ AllExpected /\ Counted /\ Audited BY DEF ToolInv, ToolTyped
<1>9. /\ p.of = c /\ p.try = ask[c].try /\ p.step = ask[c].step /\ p.wish = ask[c].plan[ask[c].step]
      /\ Wish(c) \in {"stop", "start"} => p \in Requests
  BY <1>2, <1>4 DEF Wish, Requests, ToolCalls
<1>10. pending' \in SUBSET Requests /\ IsFiniteSet(pending') BY <1>3, <1>8, <1>9, OneMore
<1>11. \A q \in Requests : q.of # c => (q \in pending' <=> q \in pending) BY <1>3, <1>9
<1>12. \A q \in pending' : q.of = c => Expected(q, a)'
  <2>1. SUFFICES ASSUME NEW q \in pending', q.of = c PROVE Expected(q, a)' OBVIOUS
  <2>2. CASE q = p
    <3>1. p.step <= a.step BY <1>4, <1>6, <1>9 DEF ToolCalls, Steps
    <3> QED BY <2>2, <3>1, <1>4, <1>6, <1>9 DEF Expected
  <2>3. CASE q \in pending
    <3>1. Expected(q, ask[c]) BY <2>1, <2>3, <1>8 DEF AllExpected
    <3>2. q.step <= a.step /\ q.step \in 1 .. Len(a.plan) /\ q.wish = a.plan[q.step] /\ a.for \in late
      BY <3>1, <1>3, <1>6 DEF Expected
    <3> QED BY <3>2, <1>3, Zenon DEF Expected
  <2> QED BY <2>2, <2>3, <1>3
<1>13. \A i \in Steps : a.ran[i] + Cardinality(StillOpen(c, i)') <= Sent(a, i)
  <2>1. SUFFICES ASSUME NEW i \in Steps PROVE a.ran[i] + Cardinality(StillOpen(c, i)') <= Sent(a, i) OBVIOUS
  <2>2. /\ ask[c].ran[i] + Cardinality(StillOpen(c, i)) <= Sent(ask[c], i) /\ ask[c].ran[i] \in Nat
        /\ IsFiniteSet(StillOpen(c, i)) /\ Cardinality(StillOpen(c, i)) \in Nat
    BY <1>4, <1>8, OpenFinite DEF Counted, ToolCalls
  <2>3. /\ ask[c].answer # "denied" /\ a.answer # "denied" /\ i \in Nat /\ ask[c].step \in Nat
        /\ ask[c].try \in Nat
    BY <1>4, <1>6, SendsNat DEF Answers, ToolCalls, Steps
  <2>4. CASE Wish(c) \in {"stop", "start"} /\ i = ask[c].step
    <3>1. StillOpen(c, i)' = StillOpen(c, i) \cup {p} BY <2>4, <1>3, <1>9, Zenon DEF StillOpen
    <3>2. /\ Cardinality(StillOpen(c, i)') \in Nat
          /\ Cardinality(StillOpen(c, i)') <= Cardinality(StillOpen(c, i)) + 1
      BY <3>1, <2>2, OneMore
    <3>3. ask[c].plan # <<"odd">>
      <4>1. ask[c].plan = <<"odd">> => ask[c].plan[ask[c].step] = "odd" BY <1>4, PlanFacts
      <4> QED BY <4>1, <2>4 DEF Wish
    <3>4. Sent(ask[c], i) = ask[c].try - 1 /\ Sent(a, i) = ask[c].try
      BY <3>3, <2>3, <2>4, <1>3, <1>6 DEF Sent
    <3> QED BY <3>2, <3>4, <2>2, <2>3, <1>6
  <2>5. CASE ~(Wish(c) \in {"stop", "start"} /\ i = ask[c].step)
    <3>1. StillOpen(c, i)' = StillOpen(c, i) BY <2>5, <1>3, <1>9, Zenon DEF StillOpen
    <3>2. Sent(ask[c], i) <= Sent(a, i) /\ Sent(ask[c], i) \in Int /\ Sent(a, i) \in Int
      BY <2>3, <1>3, <1>6, SendsNat DEF Sent
    <3> QED BY <3>1, <3>2, <2>2, <1>6
  <2> QED BY <2>4, <2>5
<1>14. /\ late \subseteq late' /\ late' \subseteq Tenants /\ running' \subseteq Tenants /\ running' = running
       /\ component' = component
  BY <1>3 DEF ToolInv, ToolTyped
<1>15. a.answer # "ok" BY <1>6, SendsNat DEF Answers
<1>16. /\ a.via \in Gated /\ a.pc = "done" <=> \E r \in audit' : r.of = c
       /\ \A d \in Askers : d # c => ((\E r \in audit' : r.of = d) <=> (\E r \in audit : r.of = d))
       /\ \A r, q \in audit' : r.of = q.of => r = q
  BY <1>3, <1>6, <1>8, Zenon DEF Audited
<1>17. BuffersKept' BY <1>3 DEF ToolInv, BuffersKept, Buffered
<1> QED BY <1>3, <1>5, <1>6, <1>7, <1>10, <1>11, <1>12, <1>13, <1>14, <1>15, <1>16, <1>17, AskMoves, Zenon

\* What leaves the labs and the logs as they are.
LEMMA SameLabs ==
  ASSUME ToolInv, NEW f
  PROVE  /\ running' = running => OwnLab(f)
         /\ logs' = logs => BuffersKept'
BY DEF ToolInv, ToolTyped, OwnLab, BuffersKept, Buffered

\* The same call, told of a failure, or not.
LEMMA ToldCall ==
  ASSUME ToolInv, NEW c \in Askers, ask[c].pc \in {"wait", "links"}
  PROVE  /\ SameCall(c, ask[c])
         /\ \A f : f = [ask[c] EXCEPT !.told = @ + 1] => SameCall(c, f) /\ f.ran = ask[c].ran
<1>1. /\ ask[c] \in ToolCalls /\ ask[c].told = 0 /\ ask[c].lines \subseteq {ask[c].for} BY UnderWay
<1>2. \A i \in Steps : ask[c].ran[i] <= ask[c].ran[i]
  <2>1. \A i \in Steps : ask[c].ran[i] \in Nat BY <1>1 DEF ToolCalls
  <2> QED BY <2>1
<1>3. ASSUME NEW f, f = [ask[c] EXCEPT !.told = @ + 1] PROVE SameCall(c, f) /\ f.ran = ask[c].ran
  <2>1. f = [ask[c] EXCEPT !.told = 1] BY <1>1, <1>3
  <2>2. /\ f \in ToolCalls /\ f.for = ask[c].for /\ f.plan = ask[c].plan /\ f.via = ask[c].via /\ f.step = ask[c].step
        /\ f.try = ask[c].try /\ f.lines = ask[c].lines /\ f.ran = ask[c].ran
    BY <2>1, <1>1 DEF ToolCalls
  <2> QED BY <2>2, <1>1, <1>2 DEF SameCall
<1> QED BY <1>1, <1>2, <1>3 DEF SameCall

\* The server refuses, or fails: the call ends.
LEMMA RefusalKeeps ==
  ASSUME ToolInv, NEW c \in Askers, ask[c].pc \in {"wait", "links"},
         NEW f, f = [ask[c] EXCEPT !.told = @ + 1], NEW answer \in {"error", "not_found"}, Ends(c, f, answer),
         answer = "not_found" => component # "link",
         UNCHANGED <<running, component, logs>>,
         pending' \subseteq pending, \A p \in pending : p.of # c => p \in pending',
         late \subseteq late', late' \subseteq Tenants, \A p \in pending' : p.of = c => ask[c].for \in late'
  PROVE  ToolInv'
<1>1. SameCall(c, f) /\ f.ran = ask[c].ran /\ f.for = ask[c].for BY ToldCall DEF SameCall
<1>2. GivenUp(c, f)
  <2>1. ASSUME NEW i \in Steps PROVE f.ran[i] + Cardinality(StillOpen(c, i)') <= Sent(ask[c], i)
    <3>1. /\ IsFiniteSet(StillOpen(c, i)) /\ Cardinality(StillOpen(c, i)) \in Nat
          /\ ask[c].ran[i] + Cardinality(StillOpen(c, i)) <= Sent(ask[c], i)
      BY OpenFinite DEF ToolInv, ToolTyped, Counted
    <3>2. StillOpen(c, i)' \in SUBSET StillOpen(c, i) BY Zenon DEF StillOpen
    <3>3. Cardinality(StillOpen(c, i)') <= Cardinality(StillOpen(c, i)) /\ Cardinality(StillOpen(c, i)') \in Nat
      BY <3>1, <3>2, FS_Subset, FS_CardinalityType
    <3>4. ask[c].ran[i] \in Nat /\ Sent(ask[c], i) \in Int
      BY SendsNat DEF ToolInv, ToolTyped, ToolCalls, Sent, Steps
    <3> QED BY <3>1, <3>3, <3>4, <1>1
  <2> QED BY <2>1, <1>1 DEF GivenUp
<1>3. OwnLab(f) /\ BuffersKept' BY SameLabs
<1>4. answer # "ok" /\ answer \in {"ok", "lost", "error", "not_found"} OBVIOUS
<1> QED BY <1>1, <1>2, <1>3, <1>4, EndsKeeps

\* What the server refuses unsent: of this call only what was given up before stays open.
LEMMA RefuseUnsentKeeps == ASSUME ToolInv, NEW c \in Askers, RefuseUnsent(c) PROVE ToolInv'
<1>1. PICK f : f = [ask[c] EXCEPT !.told = @ + 1] OBVIOUS
<1>2. /\ ask[c].pc = "wait" /\ Ends(c, f, "error") /\ pending' = {p \in pending : p.of # c \/ ~Waiting(p)}
      /\ UNCHANGED <<running, late, logs, component>>
  BY <1>1, Zenon DEF RefuseUnsent, Refused, AskAt
<1>3. \A p \in pending' : p.of = c => ask[c].for \in late'
  <2>1. SUFFICES ASSUME NEW p \in pending, p.of = c, ~Waiting(p) PROVE ask[c].for \in late BY <1>2
  <2>2. Expected(p, ask[c]) BY <2>1 DEF ToolInv, AllExpected
  <2>3. ~(ask[c].try = p.try /\ ask[c].step = p.step) BY <1>2, <2>1, Zenon DEF Waiting, AskAt
  <2> QED BY <2>2, <2>3, <1>2 DEF Expected
<1>4. late' \subseteq Tenants /\ late \subseteq late' BY <1>2 DEF ToolInv, ToolTyped
<1>5. pending' \subseteq pending /\ \A p \in pending : p.of # c => p \in pending' BY <1>2
<1> QED BY <1>1, <1>2, <1>3, <1>4, <1>5, RefusalKeeps

\* The server waits no longer: what is open is late from now on.
LEMMA TimeOutKeeps == ASSUME ToolInv, NEW p \in pending, TimeOut(p) PROVE ToolInv'
<1>1. PICK c : c = p.of OBVIOUS
<1>2. c \in Askers BY <1>1 DEF ToolInv, ToolTyped, Requests
<1>3. PICK f : f = [ask[c] EXCEPT !.told = @ + 1] OBVIOUS
<1>4. /\ ask[c].pc = "wait" /\ Ends(c, f, "error") /\ late' = late \cup {ask[c].for}
      /\ UNCHANGED <<pending, running, logs, component>>
  BY <1>1, <1>3, Zenon DEF TimeOut, Refused, AskAt, Waiting
<1>5. ask[c].for \in Tenants BY <1>2, <1>4, UnderWay
<1>6. late \subseteq late' /\ late' \subseteq Tenants BY <1>4, <1>5 DEF ToolInv, ToolTyped
<1> QED BY <1>2, <1>3, <1>4, <1>6, RefusalKeeps

\* What is pending of a step that is waited for is one.
LEMMA OneWaitedFor ==
  ASSUME ToolInv, NEW p \in pending, Waiting(p), NEW q \in pending, q.of = p.of, ask[p.of].for \notin late
  PROVE  q = p
<1>1. /\ p \in Requests /\ q \in Requests /\ Expected(p, ask[p.of]) /\ Expected(q, ask[p.of])
  BY DEF ToolInv, ToolTyped, AllExpected
<1>2. /\ ask[p.of].try = p.try /\ ask[p.of].step = p.step /\ ask[p.of].try = q.try /\ ask[p.of].step = q.step
      /\ p.wish = ask[p.of].plan[p.step] /\ q.wish = ask[p.of].plan[q.step]
  BY <1>1 DEF Waiting, Expected
<1>3. q.try = p.try /\ q.step = p.step /\ q.wish = p.wish BY <1>2
<1>4. /\ q = [of |-> q.of, try |-> q.try, step |-> q.step, wish |-> q.wish]
      /\ p = [of |-> p.of, try |-> p.try, step |-> p.step, wish |-> p.wish]
  BY <1>1 DEF Requests
<1> QED BY <1>3, <1>4

\* GNS3 refuses what it was sent.
LEMMA RefuseSentKeeps == ASSUME ToolInv, NEW p \in pending, RefuseSent(p) PROVE ToolInv'
<1>1. PICK c : c = p.of OBVIOUS
<1>2. /\ c \in Askers /\ p \in Requests /\ late \subseteq Tenants /\ running \subseteq Tenants
      /\ pending \in SUBSET Requests /\ IsFiniteSet(pending)
  BY <1>1 DEF ToolInv, ToolTyped, Requests
<1>3. /\ pending' = pending \ {p} /\ UNCHANGED <<running, late, logs, component>> BY DEF RefuseSent
<1>4. CASE Waiting(p)
  <2>1. PICK f : f = [ask[c] EXCEPT !.told = @ + 1] OBVIOUS
  <2>2. ask[c].pc = "wait" /\ Ends(c, f, "error") BY <1>1, <1>4, <2>1, Zenon DEF RefuseSent, Refused, AskAt, Waiting
  <2>3. \A q \in pending' : q.of = c => ask[c].for \in late' BY <1>1, <1>3, <1>4, OneWaitedFor, Zenon
  <2> QED BY <1>1, <1>2, <1>3, <2>1, <2>2, <2>3, RefusalKeeps
<1>5. CASE ~Waiting(p)
  <2>1. UNCHANGED <<ask, stamped, audit>> BY <1>5, Zenon DEF RefuseSent
  <2>2. ToolTyped'
    <3>1. pending' \in SUBSET pending BY <1>3
    <3>2. IsFiniteSet(pending') BY <3>1, <1>2, FS_Subset
    <3> QED BY <3>2, <2>1, <1>2, <1>3 DEF ToolInv, ToolTyped
  <2>3. Counted'
    <3>1. SUFFICES ASSUME NEW d \in Askers, NEW i \in Steps
                   PROVE  ask[d].ran[i] + Cardinality(StillOpen(d, i)') <= Sent(ask[d], i)
      BY <2>1, Zenon DEF Counted, Sent
    <3>2. /\ IsFiniteSet(StillOpen(d, i)) /\ Cardinality(StillOpen(d, i)) \in Nat
          /\ ask[d].ran[i] + Cardinality(StillOpen(d, i)) <= Sent(ask[d], i)
      BY <1>2, OpenFinite DEF ToolInv, Counted
    <3>3. StillOpen(d, i)' \in SUBSET StillOpen(d, i) BY <1>3, Zenon DEF StillOpen
    <3>4. Cardinality(StillOpen(d, i)') <= Cardinality(StillOpen(d, i)) /\ Cardinality(StillOpen(d, i)') \in Nat
      BY <3>2, <3>3, FS_Subset, FS_CardinalityType
    <3>5. ask[d].ran[i] \in Nat /\ Sent(ask[d], i) \in Int
      BY SendsNat DEF ToolInv, ToolTyped, ToolCalls, Sent, Steps
    <3> QED BY <3>2, <3>4, <3>5
  <2>4. AllExpected' BY <1>3, <2>1, Zenon DEF ToolInv, AllExpected, Expected
  <2>5. AllInCourse' BY <1>3, <2>1, Zenon DEF ToolInv, AllInCourse, Course
  <2>6. AllRestarted' BY <1>3, <2>1, Zenon DEF ToolInv, AllRestarted, Restarted, Rivals
  <2>7. Audited' /\ BuffersKept' BY <1>3, <2>1, Zenon DEF ToolInv, Audited, BuffersKept, Buffered
  <2> QED BY <2>2, <2>3, <2>4, <2>5, <2>6, <2>7 DEF ToolInv
<1> QED BY <1>4, <1>5

\* GNS3 carries out what it was sent: the call that waits for it goes on.
LEMMA CarryOutKeeps == ASSUME ToolInv, NEW p \in pending, CarryOut(p) PROVE ToolInv'
<1>1. PICK c : c = p.of OBVIOUS
<1>2. /\ c \in Askers /\ p \in Requests /\ late \subseteq Tenants /\ running \subseteq Tenants
      /\ pending \in SUBSET Requests /\ IsFiniteSet(pending) /\ Expected(p, ask[c]) /\ ask[c] \in ToolCalls
      /\ Course(ask[c])
  BY <1>1 DEF ToolInv, ToolTyped, AllInCourse, AllExpected, Requests
<1>3. PICK f : f = [ask[c] EXCEPT !.ran[p.step] = @ + 1] OBVIOUS
<1>4. /\ pending' = pending \ {p} /\ UNCHANGED <<late, logs, component>>
      /\ running' = IF p.wish = "start" THEN running \cup {ask[c].for} ELSE running \ {ask[c].for}
      /\ Waiting(p) => Goes(c, f)
      /\ ~Waiting(p) => ask' = [ask EXCEPT ![c] = f] /\ audit' = audit
  BY <1>1, <1>3, Zenon DEF CarryOut
<1>5. PICK ran : ran = [ask[c].ran EXCEPT ![p.step] = @ + 1] OBVIOUS
<1>6. p.step \in Steps /\ ask[c].ran \in [Steps -> Nat] /\ p.wish \in {"stop", "start"} BY <1>2 DEF Requests, ToolCalls
<1>7. /\ ran \in [Steps -> Nat] /\ ran[p.step] = ask[c].ran[p.step] + 1
      /\ \A i \in Steps : ask[c].ran[i] <= ran[i] /\ (i # p.step => ran[i] = ask[c].ran[i])
  BY <1>5, <1>6
<1>8. f = [ask[c] EXCEPT !.ran = ran] BY <1>2, <1>3, <1>5 DEF ToolCalls
<1>9. /\ f \in ToolCalls /\ f.for = ask[c].for /\ f.plan = ask[c].plan /\ f.via = ask[c].via /\ f.step = ask[c].step
      /\ f.try = ask[c].try /\ f.lines = ask[c].lines /\ f.ran = ran /\ f.pc = ask[c].pc /\ f.told = ask[c].told
      /\ f.answer = ask[c].answer
  BY <1>2, <1>7, <1>8 DEF ToolCalls
<1>10. ask[c].pc # "idle"
  <2>1. SUFFICES ASSUME ask[c].pc = "idle" PROVE FALSE OBVIOUS
  <2>2. ask[c].plan = <<>> BY <2>1, <1>2, NoAskTyped DEF Course
  <2>3. p.step \in 1 .. 0 BY <2>2, <1>2 DEF Expected
  <2> QED BY <2>3
<1>11. ask[c].for \in Tenants /\ SameCall(c, f) BY <1>2, <1>7, <1>9, <1>10 DEF Course, SameCall
<1>12. Acts(f.plan)
  <2>1. p.step \in DOMAIN f.plan /\ f.plan[p.step] \in {"stop", "start"}
    <3>1. f.plan \in Plans /\ p.step \in 1 .. Len(f.plan) /\ p.wish = f.plan[p.step] BY <1>2, <1>9 DEF Expected, ToolCalls
    <3> QED BY <3>1, <1>6, PlanFacts
  <2>2. f.plan[p.step] \in ToSet(f.plan) BY <2>1, Zenon DEF ToSet
  <2> QED BY <2>1, <2>2 DEF Acts
<1>13. OwnLab(f) BY <1>2, <1>4, <1>9, <1>11, <1>12 DEF OwnLab
<1>14. \A i \in Steps : f.ran[i] + Cardinality(StillOpen(c, i)') <= Sent(ask[c], i)
  <2>1. SUFFICES ASSUME NEW i \in Steps PROVE ran[i] + Cardinality(StillOpen(c, i)') <= Sent(ask[c], i) BY <1>9
  <2>2. ask[c].ran[i] + Cardinality(StillOpen(c, i)) <= Sent(ask[c], i) BY <1>2 DEF ToolInv, Counted
  <2>3. /\ Cardinality(StillOpen(c, i)) \in Nat /\ Cardinality(StillOpen(c, i)') \in Nat
        /\ i = p.step => Cardinality(StillOpen(c, i)') = Cardinality(StillOpen(c, i)) - 1
        /\ i # p.step => Cardinality(StillOpen(c, i)') = Cardinality(StillOpen(c, i))
    BY <1>1, <1>4, OpenLess
  <2>4. ask[c].ran[i] \in Nat /\ Sent(ask[c], i) \in Int BY <1>2, <1>6, SendsNat DEF Sent, ToolCalls, Steps
  <2> QED BY <2>2, <2>3, <2>4, <1>6, <1>7
<1>15. BuffersKept' BY <1>4, SameLabs
<1>16. CASE Waiting(p)
  <2>1. ask[c].pc = "wait" /\ ask[c].step = p.step BY <1>1, <1>16 DEF Waiting, AskAt
  <2>2. \A q \in pending' : q.of = c => f.for \in late' BY <1>1, <1>4, <1>9, <1>16, OneWaitedFor, Zenon
  <2>3. GivenUp(c, f) BY <1>1, <1>2, <1>4, <1>14, <2>2 DEF GivenUp
  <2>4. f.told = 0 /\ f.answer = None BY <1>2, <1>9, <2>1, UnderWay
  <2>5. f.ran[f.step] >= 1 BY <1>6, <1>7, <1>9, <2>1
  <2>6. f.plan = RestartLab /\ f.step = 2 => f.for \in running'
    <3>1. f.plan = RestartLab /\ f.step = 2 => p.wish = "start" BY <1>2, <1>9, <2>1, PlanFacts DEF Expected, ToolCalls
    <3> QED BY <3>1, <1>4, <1>9
  <2> QED BY <1>2, <1>4, <1>11, <1>13, <1>15, <1>16, <2>1, <2>3, <2>4, <2>5, <2>6, GoesKeeps
<1>17. CASE ~Waiting(p)
  <2>1. ask' = [ask EXCEPT ![c] = f] /\ audit' = audit BY <1>4, <1>17
  <2>2. ask[c].for \in late BY <1>1, <1>2, <1>17 DEF Expected, Waiting, AskAt
  <2>3. Course(f)
    <3>1. f.step = 2 => f.ran[1] >= 1
      <4>1. ask[c].step = 2 => ask[c].ran[1] >= 1 BY <1>2 DEF Course
      <4>2. ask[c].ran[1] \in Nat /\ ran[1] \in Nat /\ ask[c].ran[1] <= ran[1] BY <1>6, <1>7 DEF Steps
      <4> QED BY <4>1, <4>2, <1>9
    <3>2. f.answer = "ok" => f.step = Len(f.plan) /\ (f.plan[f.step] \in {"stop", "start"} => f.ran[f.step] >= 1)
      <4>1. ask[c].step \in Steps BY <1>2 DEF ToolCalls
      <4>2. ask[c].ran[ask[c].step] \in Nat /\ ran[ask[c].step] \in Nat /\ ask[c].ran[ask[c].step] <= ran[ask[c].step]
        BY <4>1, <1>6, <1>7
      <4>3. ask[c].answer = "ok" => /\ ask[c].step = Len(ask[c].plan)
                                    /\ ask[c].plan[ask[c].step] \in {"stop", "start"} => ask[c].ran[ask[c].step] >= 1
        BY <1>2 DEF Course
      <4> QED BY <4>2, <4>3, <1>9
    <3> QED BY <3>1, <3>2, <1>2, <1>9, <1>10 DEF Course
  <2>4. \A q \in pending' : q.of = c => Expected(q, f)'
    <3>1. SUFFICES ASSUME NEW q \in pending', q.of = c PROVE Expected(q, f)' OBVIOUS
    <3>2. Expected(q, ask[c]) BY <3>1, <1>4 DEF ToolInv, AllExpected
    <3>3. q.step <= f.step /\ q.step \in 1 .. Len(f.plan) /\ q.wish = f.plan[q.step] /\ f.for \in late'
      BY <3>2, <2>2, <1>4, <1>9 DEF Expected
    <3> QED BY <3>3, Zenon DEF Expected
  <2>5. \A i \in Steps : f.ran[i] + Cardinality(StillOpen(c, i)') <= Sent(f, i) BY <1>9, <1>14 DEF Sent
  <2>6. pending' \in SUBSET Requests /\ IsFiniteSet(pending')
    <3>1. pending' \in SUBSET pending BY <1>4
    <3> QED BY <3>1, <1>2, FS_Subset
  <2>7. \A q \in Requests : q.of # c => (q \in pending' <=> q \in pending) BY <1>1, <1>4
  <2>8. /\ f.via \in Gated /\ f.pc = "done" <=> \E r \in audit' : r.of = c
        /\ \A d \in Askers : d # c => ((\E r \in audit' : r.of = d) <=> (\E r \in audit : r.of = d))
        /\ \A r, q \in audit' : r.of = q.of => r = q
    BY <2>1, <1>2, <1>9, Zenon DEF ToolInv, Audited
  <2>9. /\ running' \subseteq Tenants /\ (running' = running \/ (ask[c].pc # "idle" /\ Acts(f.plan)))
        /\ \A t \in Tenants : t # f.for => (t \in running' <=> t \in running)
    BY <1>10, <1>12, <1>13 DEF OwnLab
  <2>10. late \subseteq late' /\ late' \subseteq Tenants /\ f.for \in late' BY <1>2, <1>4, <1>9, <2>2
  <2> QED BY <1>2, <1>4, <1>9, <1>10, <1>15, <2>1, <2>3, <2>4, <2>5, <2>6, <2>7, <2>8, <2>9, <2>10, AskMoves, Zenon
<1> QED BY <1>16, <1>17

\* What is open of a step, and what it may come to, are numbers.
LEMMA CountsTyped ==
  ASSUME ToolInv, NEW c \in Askers, NEW i \in Steps
  PROVE  /\ Cardinality(StillOpen(c, i)) \in Nat /\ ask[c].ran[i] \in Nat /\ Sent(ask[c], i) \in Int
         /\ ask[c].ran[i] + Cardinality(StillOpen(c, i)) <= Sent(ask[c], i)
         /\ \A a \in ToolCalls : Sent(a, i) \in Int
BY SendsNat, OpenFinite DEF ToolInv, ToolTyped, Counted, Sent, ToolCalls, Steps

\* A call that has no answer yet is asked again, or goes on to the links, with nothing carried out.
LEMMA AgainKeeps ==
  ASSUME ToolInv, NEW c \in Askers, NEW a \in ToolCalls, ask[c].pc \in {"wait", "links"}, ask' = [ask EXCEPT ![c] = a],
         a.for = ask[c].for, a.plan = ask[c].plan, a.via = ask[c].via, a.step = ask[c].step, a.ran = ask[c].ran,
         a.told = ask[c].told, a.lines = ask[c].lines, a.answer = None,
         \/ a.pc = "send" /\ a.try = ask[c].try + 1
         \/ a.pc = "links" /\ a.try = ask[c].try /\ a.plan = <<"component">>,
         late \subseteq late', late' \subseteq Tenants, \A p \in pending : p.of = c => ask[c].for \in late',
         UNCHANGED <<pending, running, audit, logs, component>>
  PROVE  ToolInv'
<1>1. /\ ask[c] \in ToolCalls /\ Course(ask[c]) /\ ask[c].told = 0 /\ ask[c].answer = None
      /\ ask[c].for \in Tenants /\ ask[c].step \in 1 .. Len(ask[c].plan) /\ ask[c].lines \subseteq {ask[c].for}
  BY UnderWay
<1>2. a.answer \notin Answers /\ a.answer = None BY SendsNat
<1>3. Course(a) BY <1>1, <1>2 DEF Course, Answers
<1>4. \A i \in Steps : a.ran[i] + Cardinality(StillOpen(c, i)') <= Sent(a, i)
  <2>1. SUFFICES ASSUME NEW i \in Steps PROVE a.ran[i] + Cardinality(StillOpen(c, i)') <= Sent(a, i) OBVIOUS
  <2>2. StillOpen(c, i)' = StillOpen(c, i) BY Zenon DEF StillOpen
  <2>3. a.answer # "denied" BY <1>2 DEF Answers
  <2>4. Sent(ask[c], i) <= Sent(a, i) BY <2>3, SentGrows
  <2> QED BY <2>2, <2>4, CountsTyped
<1>5. ask[c].step <= a.step BY <1>1 DEF ToolCalls, Steps
<1>6. a.answer # "ok" /\ a.pc # "done" /\ running' \subseteq Tenants /\ running' = running BY <1>2 DEF Answers, ToolInv, ToolTyped
<1>7. BuffersKept' BY SameLabs
<1>8. \A t \in Tenants : t # a.for => (t \in running' <=> t \in running) BY <1>6
<1>9. (a.pc = "done" /\ AuditRow(c, None)) \/ (a.pc # "done" /\ audit' = audit) BY <1>6
<1>10. /\ pending' \subseteq pending /\ \A p \in pending : p.of # c => p \in pending'
       /\ \A p \in pending' : p.of = c => a.for \in late'
  OBVIOUS
<1> QED BY <1>3, <1>4, <1>5, <1>6, <1>7, <1>8, <1>9, <1>10, WaitMoves, Zenon

\* The stream breaks: what was sent may still be carried out, and is late from now on.
LEMMA StreamBreaksKeeps == ASSUME ToolInv, NEW c \in Askers, StreamBreaks(c) PROVE ToolInv'
<1>1. PICK f : f = ask[c] OBVIOUS
<1>2. /\ f.pc \in {"wait", "links"} /\ Loses(c, f) /\ UNCHANGED <<pending, running, logs, component>>
      /\ late' = IF \E p \in pending : p.of = c THEN late \cup {f.for} ELSE late
  BY <1>1, Zenon DEF StreamBreaks, AskAt
<1>3. /\ f \in ToolCalls /\ f.told = 0 /\ f.answer = None /\ f.for \in Tenants BY <1>1, <1>2, UnderWay
<1>4. /\ late \subseteq late' /\ late' \subseteq Tenants /\ \A p \in pending : p.of = c => f.for \in late'
  BY <1>2, <1>3 DEF ToolInv, ToolTyped
<1>5. SameCall(c, f) BY <1>1, <1>2, ToldCall
<1>6. CASE Ends(c, f, "lost")
  <2>1. GivenUp(c, f) BY <1>1, <1>2, <1>4, <1>5, SameGivenUp
  <2>2. OwnLab(f) /\ BuffersKept' BY <1>2, SameLabs
  <2> QED BY <1>1, <1>2, <1>5, <1>6, <2>1, <2>2, EndsKeeps
<1>7. CASE ~Ends(c, f, "lost")
  <2>1. PICK a : a = [f EXCEPT !.pc = "send", !.try = f.try + 1] OBVIOUS
  <2>2. SendsAgain(c) /\ ask' = [ask EXCEPT ![c] = a] /\ audit' = audit BY <1>2, <1>7, <2>1, Zenon DEF Loses
  <2>3. f.try + 1 \in 1 .. Sends BY <1>1, <1>3, <2>2, SendsNat DEF SendsAgain, ToolCalls
  <2>4. /\ a \in ToolCalls /\ a.for = f.for /\ a.plan = f.plan /\ a.via = f.via /\ a.step = f.step /\ a.ran = f.ran
        /\ a.told = f.told /\ a.lines = f.lines /\ a.answer = None /\ a.pc = "send" /\ a.try = f.try + 1
    BY <1>3, <2>1, <2>3 DEF ToolCalls
  <2> QED BY <1>1, <1>2, <1>4, <2>2, <2>4, AgainKeeps
<1> QED BY <1>6, <1>7

\* What a call that GNS3 does not act for comes to, with what it has seen and read.
LEMMA LookedUp ==
  ASSUME ToolInv, NEW c \in Askers, ask[c].pc \in {"wait", "links"}, ask[c].plan \in {<<"component">>, <<"logs">>},
         NEW f \in ToolCalls, f.for = ask[c].for, f.plan = ask[c].plan, f.via = ask[c].via, f.step = ask[c].step,
         f.try = ask[c].try, f.ran = ask[c].ran, f.told = 0, f.answer = None, f.lines \subseteq {f.for}, Goes(c, f),
         UNCHANGED <<pending, running, late, component>>, BuffersKept'
  PROVE  ToolInv'
<1>1. \A p \in pending : p.of # c BY NothingOpen
<1>2. late \subseteq late' /\ late' \subseteq Tenants BY DEF ToolInv, ToolTyped
<1>3. SameCall(c, f)
  <2>1. \A i \in Steps : ask[c].ran[i] \in Nat BY CountsTyped
  <2> QED BY <2>1 DEF SameCall
<1>4. GivenUp(c, f) BY <1>1, <1>2, <1>3, SameGivenUp
<1>5. OwnLab(f) BY SameLabs
<1>6. f.plan # RestartLab /\ f.plan[f.step] \notin {"stop", "start"}
  <2>1. f.plan \in Plans BY DEF ToolCalls
  <2>2. Len(f.plan) = 1 /\ f.plan[1] \in {"component", "logs"} BY <2>1, PlanFacts
  <2>3. f.step \in 1 .. Len(f.plan) BY UnderWay
  <2> QED BY <2>2, <2>3, <2>1, PlanFacts
<1> QED BY <1>3, <1>4, <1>5, <1>6, GoesKeeps

\* The plan of a call is the tool that it asks for.
LEMMA LookPlan ==
  ASSUME ToolInv, NEW c \in Askers, ask[c].pc \in {"send", "wait", "links"}
  PROVE  /\ Wish(c) = "component" => ask[c].plan = <<"component">>
         /\ Wish(c) = "logs" => ask[c].plan = <<"logs">>
<1>1. SUFFICES ASSUME Wish(c) \in {"component", "logs"}
               PROVE  /\ Wish(c) = "component" => ask[c].plan = <<"component">>
                      /\ Wish(c) = "logs" => ask[c].plan = <<"logs">>
  OBVIOUS
<1>2. ask[c].plan \in {<<"odd">>, <<"component">>, <<"logs">>} /\ ask[c].step = 1 BY <1>1, WishPlan
<1>3. ask[c].plan \in Plans BY <1>2 DEF Plans
<1>4. Wish(c) = ask[c].plan[1] BY <1>2 DEF Wish
<1> QED BY <1>2, <1>3, <1>4, PlanFacts

\* A node is read, or taken for a link.
LEMMA ReadNodeKeeps == ASSUME ToolInv, NEW c \in Askers, ReadNode(c) PROVE ToolInv'
<1>1. ask[c].pc = "wait" /\ Wish(c) = "component" /\ UNCHANGED <<pending, running, late, logs, component>>
  BY Zenon DEF ReadNode, AskAt
<1>2. ask[c].plan = <<"component">> BY <1>1, LookPlan
<1>3. \A p \in pending : p.of # c BY <1>2, NothingOpen
<1>4. /\ ask[c] \in ToolCalls /\ ask[c].told = 0 /\ ask[c].answer = None /\ ask[c].lines \subseteq {ask[c].for} BY <1>1, UnderWay
<1>5. late \subseteq late' /\ late' \subseteq Tenants BY <1>1 DEF ToolInv, ToolTyped
<1>6. BuffersKept' BY <1>1, SameLabs
<1>7. CASE Found(c, "node")
  <2>1. PICK f : f = [ask[c] EXCEPT !.seen = "node"] OBVIOUS
  <2>2. Goes(c, f) BY <1>7, <2>1, Zenon DEF Found
  <2>3. /\ f \in ToolCalls /\ f.for = ask[c].for /\ f.plan = ask[c].plan /\ f.via = ask[c].via /\ f.step = ask[c].step
        /\ f.try = ask[c].try /\ f.ran = ask[c].ran /\ f.told = 0 /\ f.answer = None /\ f.lines \subseteq {f.for}
    BY <2>1, <1>4 DEF ToolCalls
  <2> QED BY <1>1, <1>2, <1>6, <2>2, <2>3, LookedUp
<1>8. CASE NoNode(c)
  <2>1. PICK a : a = [ask[c] EXCEPT !.pc = "links"] OBVIOUS
  <2>2. ask' = [ask EXCEPT ![c] = a] /\ audit' = audit BY <1>8, <2>1 DEF NoNode
  <2>3. /\ a \in ToolCalls /\ a.for = ask[c].for /\ a.plan = ask[c].plan /\ a.via = ask[c].via /\ a.step = ask[c].step
        /\ a.ran = ask[c].ran /\ a.told = ask[c].told /\ a.lines = ask[c].lines /\ a.answer = None /\ a.pc = "links"
        /\ a.try = ask[c].try /\ a.plan = <<"component">>
    BY <2>1, <1>2, <1>4 DEF ToolCalls
  <2> QED BY <1>1, <1>3, <1>5, <2>2, <2>3, AgainKeeps
<1> QED BY <1>7, <1>8, Zenon DEF ReadNode

\* What is no link either is not found.
LEMMA ReadLinksKeeps == ASSUME ToolInv, NEW c \in Askers, ReadLinks(c) PROVE ToolInv'
<1>1. ask[c].pc = "links" /\ UNCHANGED <<pending, running, late, logs, component>> BY Zenon DEF ReadLinks, AskAt
<1>2. ask[c].plan = <<"component">> BY <1>1 DEF ToolInv, AllInCourse, Course
<1>3. \A p \in pending : p.of # c BY <1>2, NothingOpen
<1>4. /\ ask[c] \in ToolCalls /\ ask[c].told = 0 /\ ask[c].answer = None /\ ask[c].lines \subseteq {ask[c].for} BY <1>1, UnderWay
<1>5. late \subseteq late' /\ late' \subseteq Tenants BY <1>1 DEF ToolInv, ToolTyped
<1>6. BuffersKept' BY <1>1, SameLabs
<1>7. CASE Found(c, "link")
  <2>1. PICK f : f = [ask[c] EXCEPT !.seen = "link"] OBVIOUS
  <2>2. Goes(c, f) BY <1>7, <2>1, Zenon DEF Found
  <2>3. /\ f \in ToolCalls /\ f.for = ask[c].for /\ f.plan = ask[c].plan /\ f.via = ask[c].via /\ f.step = ask[c].step
        /\ f.try = ask[c].try /\ f.ran = ask[c].ran /\ f.told = 0 /\ f.answer = None /\ f.lines \subseteq {f.for}
    BY <2>1, <1>4 DEF ToolCalls
  <2> QED BY <1>1, <1>2, <1>6, <2>2, <2>3, LookedUp
<1>8. CASE ~Found(c, "link")
  <2>1. PICK f : f = [ask[c] EXCEPT !.told = @ + 1] OBVIOUS
  <2>2. (component # "link" /\ Ends(c, f, "not_found")) \/ Ends(c, f, "error")
    BY <1>8, <2>1, Zenon DEF ReadLinks, Refused
  <2>3. \A p \in pending' : p.of = c => ask[c].for \in late' BY <1>1, <1>3
  <2>4. CASE component # "link" /\ Ends(c, f, "not_found")
    BY <1>1, <1>5, <2>1, <2>3, <2>4, RefusalKeeps
  <2>5. CASE Ends(c, f, "error")
    BY <1>1, <1>5, <2>1, <2>3, <2>5, RefusalKeeps
  <2> QED BY <2>2, <2>4, <2>5
<1> QED BY <1>7, <1>8

\* The log lines of a call are those of the buffer of its own lab.
LEMMA ReadLogsKeeps == ASSUME ToolInv, NEW c \in Askers, ReadLogs(c) PROVE ToolInv'
<1>1. PICK b : b = ask[c].for OBVIOUS
<1>2. PICK lines : lines = logs[b].holds OBVIOUS
<1>3. PICK f : f = [ask[c] EXCEPT !.lines = lines] OBVIOUS
<1>4. /\ ask[c].pc = "wait" /\ Wish(c) = "logs" /\ UNCHANGED <<pending, running, late, component>>
      /\ logs' = IF logs[b].listens = None THEN [logs EXCEPT ![b].listens = b] ELSE logs
      /\ Goes(c, f)
  BY <1>1, <1>2, <1>3, Zenon DEF ReadLogs, AskAt, BufferOf
<1>5. ask[c].plan = <<"logs">> BY <1>4, LookPlan
<1>6. /\ ask[c] \in ToolCalls /\ ask[c].told = 0 /\ ask[c].answer = None /\ b \in Tenants BY <1>1, <1>4, UnderWay
<1>7. lines \subseteq {b} /\ lines \in SUBSET Tenants BY <1>2, <1>6 DEF ToolInv, BuffersKept, Buffered
<1>8. /\ f \in ToolCalls /\ f.for = ask[c].for /\ f.plan = ask[c].plan /\ f.via = ask[c].via /\ f.step = ask[c].step
      /\ f.try = ask[c].try /\ f.ran = ask[c].ran /\ f.told = 0 /\ f.answer = None /\ f.lines \subseteq {f.for}
  BY <1>1, <1>3, <1>6, <1>7 DEF ToolCalls
<1>9. BuffersKept' BY <1>4, <1>6 DEF ToolInv, BuffersKept, Buffered
<1> QED BY <1>4, <1>5, <1>8, <1>9, LookedUp

\* A call at rest has nothing open, and no row of audit.
LEMMA AtRest ==
  ASSUME ToolInv, NEW c \in Askers, ask[c].pc = "idle"
  PROVE  /\ ask[c] = NoAsk /\ \A p \in pending : p.of # c
         /\ \A i \in Steps : Cardinality(StillOpen(c, i)) = 0
         /\ ~\E r \in audit : r.of = c
<1>1. ask[c] = NoAsk BY DEF ToolInv, AllInCourse, Course
<1>2. ASSUME NEW p \in pending, p.of = c PROVE FALSE
  <2>1. Expected(p, ask[c]) BY <1>2 DEF ToolInv, AllExpected
  <2>2. p.step \in 1 .. Len(<<>>) BY <2>1, <1>1, NoAskTyped DEF Expected
  <2> QED BY <2>2
<1>3. \A i \in Steps : StillOpen(c, i) = {} BY <1>2, Zenon DEF StillOpen
<1>4. ~\E r \in audit : r.of = c BY DEF ToolInv, Audited
<1> QED BY <1>1, <1>2, <1>3, <1>4, FS_EmptySet

\* A call begins, or is denied.
LEMMA BeginsKeeps ==
  ASSUME ToolInv, NEW c \in Askers, ask[c].pc = "idle", NEW t \in Tenants, NEW plan \in Plans \ {<<>>},
         NEW via \in {"direct"} \cup Gated, NEW pc, NEW answer,
         (pc = "send" /\ answer = None) \/ (pc = "done" /\ answer = "denied"),
         NEW a, a = [NoAsk EXCEPT !.pc = pc, !.for = t, !.via = via, !.plan = plan, !.answer = answer],
         ask' = [ask EXCEPT ![c] = a],
         UNCHANGED <<pending, running, late, logs, component>>,
         via \in Gated /\ pc = "done" <=> \E r \in audit' : r.of = c,
         \A d \in Askers : d # c => ((\E r \in audit' : r.of = d) <=> (\E r \in audit : r.of = d)),
         \A r, q \in audit' : r.of = q.of => r = q
  PROVE  ToolInv'
<1>1. answer \in {None} \cup Answers BY DEF Answers
<1>2. /\ a \in ToolCalls /\ a.pc = pc /\ a.for = t /\ a.via = via /\ a.plan = plan /\ a.answer = answer /\ a.step = 1
      /\ a.try = 1 /\ a.told = 0 /\ a.lines = {} /\ a.ran[1] = 0 /\ a.ran[2] = 0
  BY <1>1, NoAskTyped DEF ToolCalls
<1>3. 1 \in 1 .. Len(plan)
  <2>1. Len(plan) \in 0 .. 2 /\ Len(plan) # 0 BY PlanFacts
  <2> QED BY <2>1
<1>4. a.answer # "ok" /\ a.answer # "not_found" /\ (pc = "done" <=> answer # None) /\ via # "none"
  BY <1>2, SendsNat DEF Answers, Gated
<1>5. Course(a) BY <1>2, <1>3, <1>4 DEF Course
<1>6. \A p \in pending' : p.of # c BY AtRest
<1>7. \A i \in Steps : a.ran[i] + Cardinality(StillOpen(c, i)') <= Sent(a, i)
  <2>1. SUFFICES ASSUME NEW i \in Steps PROVE a.ran[i] + Cardinality(StillOpen(c, i)') <= Sent(a, i) OBVIOUS
  <2>2. StillOpen(c, i)' = StillOpen(c, i) BY Zenon DEF StillOpen
  <2>3. Cardinality(StillOpen(c, i)') = 0 BY <2>2, AtRest
  <2>4. a.ran[i] = 0 BY <1>2 DEF Steps
  <2>5. Sent(a, i) = 0 BY <1>2 DEF Sent, Steps
  <2> QED BY <2>3, <2>4, <2>5
<1>8. pending' \in SUBSET Requests /\ IsFiniteSet(pending') /\ running' \subseteq Tenants /\ running' = running
      /\ late \subseteq late' /\ late' \subseteq Tenants /\ component' = component
  BY DEF ToolInv, ToolTyped
<1>9. BuffersKept' BY SameLabs
<1>10. /\ a.via \in Gated /\ a.pc = "done" <=> \E r \in audit' : r.of = c
       /\ \A d \in Askers : d # c => ((\E r \in audit' : r.of = d) <=> (\E r \in audit : r.of = d))
       /\ \A r, q \in audit' : r.of = q.of => r = q
  BY <1>2, Zenon
<1>11. \A p \in Requests : p.of # c => (p \in pending' <=> p \in pending) BY Zenon
<1>12. \A u \in Tenants : u # a.for => (u \in running' <=> u \in running) BY <1>8
<1>13. \A p \in pending' : p.of = c => Expected(p, a)' BY <1>6
<1>14. ask[c].pc # "idle" => a.for = ask[c].for /\ a.plan = ask[c].plan OBVIOUS
<1> QED BY <1>2, <1>4, <1>5, <1>7, <1>8, <1>9, <1>10, <1>11, <1>12, <1>13, <1>14, AskMoves, Zenon

\* Who begins has no answer.
LEMMA NoneAnswered ==
  ASSUME NEW t, NEW via, NEW plan
  PROVE  [NoAsk EXCEPT !.pc = "send", !.for = t, !.via = via, !.plan = plan, !.answer = None]
           = [NoAsk EXCEPT !.pc = "send", !.for = t, !.via = via, !.plan = plan]
<1>1. PICK n : n = NoAsk OBVIOUS
<1>2. n \in ToolCalls /\ n.answer = None BY <1>1, NoAskTyped
<1>3. [n EXCEPT !.pc = "send", !.for = t, !.via = via, !.plan = plan, !.answer = None]
        = [n EXCEPT !.pc = "send", !.for = t, !.via = via, !.plan = plan]
  BY <1>2 DEF ToolCalls
<1> QED BY <1>1, <1>3

\* A learner, or the backend for them, asks directly: of the gates there is nothing to audit.
LEMMA AskDirectlyKeeps ==
  ASSUME ToolInv, NEW c \in Askers, NEW t \in Tenants, NEW plan \in DirectTools, AskDirectly(c, t, plan)
  PROVE  ToolInv'
<1>1. plan \in Plans \ {<<>>} BY DEF DirectTools, ObserveTools, Plans, RestartLab
<1>2. PICK a : a = [NoAsk EXCEPT !.pc = "send", !.for = t, !.via = "direct", !.plan = plan, !.answer = None] OBVIOUS
<1>3. ask[c].pc = "idle" /\ UNCHANGED <<pending, running, late, audit, logs, component>>
  BY Zenon DEF AskDirectly, AskAt
<1>4. ask[c] = NoAsk /\ ~\E r \in audit : r.of = c BY <1>3, AtRest
<1>5. a = [NoAsk EXCEPT !.pc = "send", !.for = t, !.via = "direct", !.plan = plan] BY <1>2, NoneAnswered
<1>6. ask' = [ask EXCEPT ![c] = a] BY <1>4, <1>5 DEF AskDirectly
<1>7. "direct" \notin Gated BY DEF Gated
<1>8. \A r, q \in audit' : r.of = q.of => r = q BY <1>3 DEF ToolInv, Audited
<1> QED BY <1>1, <1>2, <1>3, <1>4, <1>6, <1>7, <1>8, BeginsKeeps

\* The gates let a call pass, or deny it with the one row of audit that it leaves.
LEMMA AskGatedKeeps ==
  ASSUME ToolInv, NEW c \in Askers, NEW t \in Tenants, NEW via \in Gated, NEW plan \in ObserveTools \cup Actions,
         AskGated(c, t, via, plan)
  PROVE  ToolInv'
<1>1. plan \in Plans \ {<<>>} BY DEF ObserveTools, Actions, SimpleTools, Plans, RestartLab
<1>2. ask[c].pc = "idle" /\ UNCHANGED <<pending, running, late, logs, component>> BY Zenon DEF AskGated, AskAt
<1>3. ask[c] = NoAsk /\ ~\E r \in audit : r.of = c BY <1>2, AtRest
<1>4. \A r, q \in audit : r.of = q.of => r = q BY DEF ToolInv, Audited
<1>5. CASE ask' = [ask EXCEPT ![c].pc = "send", ![c].for = t, ![c].via = via, ![c].plan = plan] /\ audit' = audit
  <2>1. PICK a : a = [NoAsk EXCEPT !.pc = "send", !.for = t, !.via = via, !.plan = plan, !.answer = None] OBVIOUS
  <2>2. a = [NoAsk EXCEPT !.pc = "send", !.for = t, !.via = via, !.plan = plan] BY <2>1, NoneAnswered
  <2>3. ask' = [ask EXCEPT ![c] = a] BY <1>3, <1>5, <2>2
  <2>4. PICK pc, answer : pc = "send" /\ answer = None OBVIOUS
  <2>5. /\ via \in {"direct"} \cup Gated /\ ask' = [ask EXCEPT ![c] = a]
        /\ (pc = "send" /\ answer = None) \/ (pc = "done" /\ answer = "denied")
        /\ a = [NoAsk EXCEPT !.pc = pc, !.for = t, !.via = via, !.plan = plan, !.answer = answer]
    BY <2>1, <2>3, <2>4
  <2>6. via \in Gated /\ pc = "done" <=> \E r \in audit' : r.of = c BY <1>3, <1>5, <2>4
  <2>7. \A d \in Askers : d # c => ((\E r \in audit' : r.of = d) <=> (\E r \in audit : r.of = d)) BY <1>5
  <2>8. \A r, q \in audit' : r.of = q.of => r = q BY <1>4, <1>5
  <2>9. \A x : x = [NoAsk EXCEPT !.pc = pc, !.for = t, !.via = via, !.plan = plan, !.answer = answer]
               /\ ask' = [ask EXCEPT ![c] = x] => ToolInv'
    BY <1>1, <1>2, <2>4, <2>5, <2>6, <2>7, <2>8, BeginsKeeps
  <2> QED BY <2>5, <2>9
<1>6. ASSUME NEW verdict,
             ask' = [ask EXCEPT ![c].pc = "done", ![c].for = t, ![c].via = via, ![c].plan = plan,
                                ![c].answer = "denied"],
             audit' = audit \cup {[of |-> c, verdict |-> verdict]}
      PROVE  ToolInv'
  <2>1. PICK a : a = [NoAsk EXCEPT !.pc = "done", !.for = t, !.via = via, !.plan = plan, !.answer = "denied"] OBVIOUS
  <2>2. ask' = [ask EXCEPT ![c] = a] BY <1>3, <1>6, <2>1
  <2>3. PICK row : row = [of |-> c, verdict |-> verdict] OBVIOUS
  <2>4. audit' = audit \cup {row} /\ row.of = c BY <1>6, <2>3
  <2>5. /\ \E r \in audit' : r.of = c
        /\ \A d \in Askers : d # c => ((\E r \in audit' : r.of = d) <=> (\E r \in audit : r.of = d))
        /\ \A r, q \in audit' : r.of = q.of => r = q
    BY <2>4, <1>3, <1>4, Zenon
  <2> QED BY <1>1, <1>2, <2>1, <2>2, <2>5, BeginsKeeps
<1> QED BY <1>5, <1>6, Zenon DEF AskGated

\* What is neither a call nor a request of it.
LEMMA AsideKeeps ==
  ASSUME ToolInv, UNCHANGED <<ask, pending, running, late, audit>>, component' = component \/ component' = "gone",
         BuffersKept'
  PROVE  ToolInv'
<1>1. ToolTyped' BY DEF ToolInv, ToolTyped
<1>2. AllInCourse'
  <2>1. SUFFICES ASSUME NEW c \in Askers PROVE Course(ask[c])' BY Zenon DEF AllInCourse
  <2>2. Course(ask[c]) BY DEF ToolInv, AllInCourse
  <2> QED BY <2>2 DEF Course
<1>3. Counted' BY Zenon DEF ToolInv, Counted, Sent, StillOpen
<1>4. AllExpected' BY Zenon DEF ToolInv, AllExpected, Expected
<1>5. AllRestarted' BY Zenon DEF ToolInv, AllRestarted, Restarted, Rivals
<1>6. Audited' BY Zenon DEF ToolInv, Audited
<1> QED BY <1>1, <1>2, <1>3, <1>4, <1>5, <1>6 DEF ToolInv

\* A line comes to the buffers that listen to its lab: its own.
LEMMA LineKeeps == ASSUME ToolInv, NEW t \in Tenants, Line(t) PROVE ToolInv'
<1>1. UNCHANGED <<ask, pending, running, late, audit, component>> BY DEF Line
<1>2. logs' = [b \in Tenants |-> IF logs[b].listens = t THEN [logs[b] EXCEPT !.holds = @ \cup {t}] ELSE logs[b]]
  BY DEF Line
<1>3. logs \in [Tenants -> [listens : Tenants \cup {None}, holds : SUBSET Tenants]] /\ Buffered BY DEF ToolInv, BuffersKept
<1>4. ASSUME NEW b \in Tenants
      PROVE  /\ logs'[b] \in [listens : Tenants \cup {None}, holds : SUBSET Tenants]
             /\ logs'[b].listens \in {b, None} /\ logs'[b].holds \subseteq {b}
  <2>1. logs[b].listens = t => t = b BY <1>3, SendsNat DEF Buffered
  <2> QED BY <2>1, <1>2, <1>3 DEF Buffered
<1>5. BuffersKept' BY <1>2, <1>4 DEF BuffersKept, Buffered
<1> QED BY <1>1, <1>5, AsideKeeps

\* A log buffer loses its listener.
LEMMA StopsListeningKeeps == ASSUME ToolInv, NEW b \in Tenants, StopsListening(b) PROVE ToolInv'
<1>1. BuffersKept' BY DEF StopsListening, ToolInv, BuffersKept, Buffered
<1> QED BY <1>1, AsideKeeps DEF StopsListening

\* At first.
LEMMA ToolInitInv == ToolInit => ToolInv
<1>1. SUFFICES ASSUME ToolInit PROVE ToolInv OBVIOUS
<1>2. /\ \A c \in Askers : ask[c] = NoAsk
      /\ ask \in [Askers -> ToolCalls] /\ pending = {} /\ running = Tenants /\ late = {} /\ audit = {}
      /\ component \in {"node", "link"} /\ logs = [t \in Tenants |-> Unheard]
  BY <1>1, NoAskTyped DEF ToolInit
<1>3. ToolTyped BY <1>2, FS_EmptySet DEF ToolTyped
<1>4. AllInCourse
  <2>1. Course(NoAsk) BY NoAskTyped, SendsNat DEF Course, Answers
  <2> QED BY <2>1, <1>2 DEF AllInCourse
<1>5. Counted
  <2>1. \A c \in Askers, i \in Steps : StillOpen(c, i) = {} BY <1>2, Zenon DEF StillOpen
  <2>2. \A i \in Steps : NoAsk.ran[i] = 0 /\ Sent(NoAsk, i) = 0 BY NoAskTyped DEF Steps, Sent
  <2> QED BY <2>1, <2>2, <1>2, FS_EmptySet DEF Counted
<1>6. AllExpected BY <1>2 DEF AllExpected
<1>7. AllRestarted
  <2>1. NoAsk.answer # "ok" BY NoAskTyped, SendsNat DEF Answers
  <2> QED BY <2>1, <1>2 DEF AllRestarted, Restarted
<1>8. Audited
  <2>1. NoAsk.pc # "done" BY NoAskTyped
  <2> QED BY <2>1, <1>2 DEF Audited
<1>9. BuffersKept BY <1>2 DEF BuffersKept, Buffered, Unheard
<1> QED BY <1>3, <1>4, <1>5, <1>6, <1>7, <1>8, <1>9 DEF ToolInv

\* No step breaks it.
LEMMA ToolNextInv == ToolInv /\ [ToolNext]_toolVars => ToolInv'
<1>1. SUFFICES ASSUME ToolInv, [ToolNext]_toolVars PROVE ToolInv' OBVIOUS
<1>2. ASSUME NEW c \in Askers, NEW t \in Tenants, NEW plan \in DirectTools, AskDirectly(c, t, plan) PROVE ToolInv'
  BY <1>1, <1>2, AskDirectlyKeeps
<1>3. ASSUME NEW c \in Askers, NEW t \in Tenants, NEW via \in Gated, NEW plan \in ObserveTools \cup Actions,
             AskGated(c, t, via, plan)
      PROVE  ToolInv'
  BY <1>1, <1>3, AskGatedKeeps
<1>4. ASSUME NEW c \in Askers,
             \/ SendWish(c) \/ StreamBreaks(c) \/ RefuseUnsent(c) \/ ReadNode(c) \/ ReadLinks(c) \/ ReadLogs(c)
      PROVE  ToolInv'
  BY <1>1, <1>4, SendWishKeeps, StreamBreaksKeeps, RefuseUnsentKeeps, ReadNodeKeeps, ReadLinksKeeps, ReadLogsKeeps
<1>5. ASSUME NEW p \in pending, RefuseSent(p) \/ TimeOut(p) \/ CarryOut(p) PROVE ToolInv'
  BY <1>1, <1>5, RefuseSentKeeps, TimeOutKeeps, CarryOutKeeps
<1>6. ASSUME NEW t \in Tenants, Withdraw(t) \/ CoolsDown(t) \/ Line(t) \/ StopsListening(t) PROVE ToolInv'
  <2>1. CASE Withdraw(t) \/ CoolsDown(t)
    <3>1. UNCHANGED <<ask, pending, running, late, audit, logs, component>> BY <2>1 DEF Withdraw, CoolsDown
    <3> QED BY <3>1, <1>1, SameLabs, AsideKeeps
  <2>2. CASE Line(t) BY <2>2, <1>1, LineKeeps
  <2>3. CASE StopsListening(t) BY <2>3, <1>1, StopsListeningKeeps
  <2> QED BY <1>6, <2>1, <2>2, <2>3
<1>7. CASE RemoveComponent
  <2>1. UNCHANGED <<ask, pending, running, late, audit, logs>> /\ component' = "gone" BY <1>7 DEF RemoveComponent
  <2> QED BY <2>1, <1>1, SameLabs, AsideKeeps
<1>8. CASE UNCHANGED toolVars
  <2>1. UNCHANGED <<ask, pending, running, late, audit, logs, component>> BY <1>8 DEF toolVars
  <2> QED BY <2>1, <1>1, SameLabs, AsideKeeps
<1>9. "observe" \in Gated /\ "act" \in Gated BY DEF Gated
<1> QED BY <1>1, <1>2, <1>3, <1>4, <1>5, <1>6, <1>7, <1>8, <1>9, Zenon DEF ToolNext

\* The invariant says what is promised of the calls.
LEMMA ToolInvSound == ToolInv => ToolsSound
<1>1. SUFFICES ASSUME ToolInv PROVE ToolsSound OBVIOUS
<1>2. ASSUME NEW c \in Askers, NEW a, a = ask[c]
      PROVE  /\ a.answer = "ok" => \A i \in DOMAIN a.plan : a.plan[i] \in {"stop", "start"} => a.ran[i] >= 1
             /\ \A i \in DOMAIN a.plan : a.ran[i] <= (IF i = a.step THEN a.try ELSE Sends)
             /\ a.told <= 1 /\ a.try <= Sends
             /\ a.answer = "denied" \/ a.plan = <<"odd">> => a.ran = <<0, 0>>
             /\ a.ran[2] > 0 => a.ran[1] > 0
             /\ a.plan = RestartLab /\ a.answer = "ok" /\ Rivals(c) = {} /\ a.for \notin late => a.for \in running
             /\ a.lines \subseteq {a.for}
             /\ a.answer = "not_found" => component # "link"
  <2>1. /\ a \in ToolCalls /\ Course(a) /\ a.plan \in Plans /\ a.step \in Steps /\ a.try \in 1 .. Sends
        /\ a.told \in 0 .. 1 /\ a.ran \in [Steps -> Nat]
    BY <1>1, <1>2 DEF ToolInv, ToolTyped, AllInCourse, ToolCalls
  <2>2. \A i \in Steps : a.ran[i] \in Nat /\ a.ran[i] <= Sent(a, i) /\ Sent(a, i) \in Int
    <3>1. SUFFICES ASSUME NEW i \in Steps PROVE a.ran[i] \in Nat /\ a.ran[i] <= Sent(a, i) /\ Sent(a, i) \in Int OBVIOUS
    <3>2. /\ Cardinality(StillOpen(c, i)) \in Nat /\ a.ran[i] \in Nat /\ Sent(a, i) \in Int
          /\ a.ran[i] + Cardinality(StillOpen(c, i)) <= Sent(a, i)
      BY <1>1, <1>2, CountsTyped
    <3> QED BY <3>2
  <2>3. DOMAIN a.plan \subseteq Steps /\ \A i \in DOMAIN a.plan : i \in 1 .. Len(a.plan)
    <3>1. PICK n \in 0 .. 2 : n = Len(a.plan) /\ DOMAIN a.plan = 1 .. n BY <2>1, PlanFacts
    <3>2. \A i \in 1 .. n : i \in 1 .. 2 OBVIOUS
    <3> QED BY <3>1, <3>2 DEF Steps
  <2>4. a.answer = "ok" => \A i \in DOMAIN a.plan : a.plan[i] \in {"stop", "start"} => a.ran[i] >= 1
    <3>1. SUFFICES ASSUME a.answer = "ok", NEW i \in DOMAIN a.plan, a.plan[i] \in {"stop", "start"} PROVE a.ran[i] >= 1
      OBVIOUS
    <3>2. a.step = Len(a.plan) /\ (a.plan[a.step] \in {"stop", "start"} => a.ran[a.step] >= 1) BY <3>1, <2>1 DEF Course
    <3>3. PICK n \in 0 .. 2 : n = Len(a.plan) /\ DOMAIN a.plan = 1 .. n BY <2>1, PlanFacts
    <3>4. i = a.step \/ (i = 1 /\ a.step = 2) BY <3>1, <3>2, <3>3
    <3> QED BY <3>1, <3>2, <3>4, <2>1 DEF Course
  <2>5. \A i \in Steps : a.ran[i] <= (IF i = a.step THEN a.try ELSE Sends)
    <3>1. SUFFICES ASSUME NEW i \in Steps PROVE a.ran[i] <= (IF i = a.step THEN a.try ELSE Sends) OBVIOUS
    <3>2. i \in Nat /\ a.step \in Nat /\ a.try \in Nat /\ a.try <= Sends /\ a.try >= 1 BY <2>1 DEF Steps
    <3>3. Sent(a, i) <= (IF i = a.step THEN a.try ELSE Sends) BY <3>2, SendsNat DEF Sent
    <3>4. (IF i = a.step THEN a.try ELSE Sends) \in Int BY <3>2, SendsNat
    <3> QED BY <3>3, <3>4, <2>2
  <2>6. a.answer = "denied" \/ a.plan = <<"odd">> => a.ran = <<0, 0>>
    <3>1. SUFFICES ASSUME a.answer = "denied" \/ a.plan = <<"odd">> PROVE a.ran = <<0, 0>> OBVIOUS
    <3>2. \A i \in Steps : Sent(a, i) = 0 BY <3>1 DEF Sent
    <3>3. \A i \in Steps : a.ran[i] = 0 BY <3>2, <2>2
    <3> QED BY <3>3, <2>1 DEF Steps
  <2>7. a.ran[2] > 0 => a.ran[1] > 0
    <3>1. SUFFICES ASSUME a.ran[2] > 0, a.step = 1 PROVE FALSE BY <2>1, <2>2 DEF Course, Steps
    <3>2. Sent(a, 2) = 0 BY <3>1 DEF Sent
    <3>3. 2 \in Steps BY DEF Steps
    <3> QED BY <3>1, <3>2, <3>3, <2>2
  <2>8. a.plan = RestartLab /\ a.answer = "ok" /\ Rivals(c) = {} /\ a.for \notin late => a.for \in running
    BY <1>1, <1>2 DEF ToolInv, AllRestarted, Restarted
  <2>9. a.lines \subseteq {a.for} /\ (a.answer = "not_found" => component # "link") BY <2>1 DEF Course
  <2>10. a.told <= 1 /\ a.try <= Sends BY <2>1, SendsNat
  <2>11. \A i \in DOMAIN a.plan : a.ran[i] <= (IF i = a.step THEN a.try ELSE Sends) BY <2>3, <2>5
  <2> QED BY <2>4, <2>6, <2>7, <2>8, <2>9, <2>10, <2>11, Zenon
<1>3. \A c \in Askers : ask[c].via \in {"observe", "act"} /\ AskAt(c, "done") <=> \E r \in audit : r.of = c
  BY <1>1 DEF ToolInv, Audited, Gated, AskAt
<1>4. \A r, s \in audit : r.of = s.of => r = s BY <1>1 DEF ToolInv, Audited
<1> QED BY <1>2, <1>3, <1>4, Zenon DEF ToolsSound

\* Every reachable state keeps what is promised of the calls of tools.
THEOREM ToolsAlwaysSound == ToolSpec => []ToolsSound
BY ToolInitInv, ToolNextInv, ToolInvSound, PTL DEF ToolSpec
-----------------------------------------------------------------------------
(* The readers of the back office *)

OfficeRow == [row : Nat, ts : Nat]
WalkPcs == {"new", "paging", "counted", "over"}
Walks == [pc : WalkPcs, page : Nat \ {0}, before : Nat \cup {None}, got : SUBSET OfficeRow,
          twice : BOOLEAN, start : SUBSET OfficeRow, edges : SUBSET Nat, count : Nat,
          arrived : BOOLEAN, removed : SUBSET OfficeRow]
FactKinds == {"session", "progress", "hint", "message"}
OfficeTypeOK ==
  /\ desk \in {"card", "overview", "audit", "browse"}
  /\ facts \in Seq([kind : FactKinds, lab : CardLabs]) /\ card \in Seq(SUBSET Nat)
  /\ table \in SUBSET OfficeRow /\ IsFiniteSet(table)
  /\ instant \in Nat /\ walk \in Walks
  /\ sweep \in {None} \cup [cutoff : Nat, done : BOOLEAN]

\* A figure counts what is there to be counted still; what is left in a session has one;
\* and the figures that a card compares were read in the order that makes them fit.
CountedBy(i) == Of(Kind(Queries[i]))
FiguresHeld ==
  /\ Len(card) <= Len(Queries)
  /\ \A i \in DOMAIN card : card[i] \subseteq CountedBy(i)
  /\ Of("hint") # {} => Of("session") # {}
  /\ desk = "card" =>
       /\ Len(card) >= 5 => card[2] \subseteq card[5]
       /\ Len(card) >= 6 => card[3] \subseteq card[6]
  /\ desk = "overview" /\ Len(card) = 3 /\ card[2] # {} => card[3] # {}

\* What a walk has seen is there or was removed, and a sweep stays ahead of what arrives.
RowsHeld ==
  /\ walk.start \subseteq table \cup walk.removed
  /\ sweep # None => sweep.cutoff <= instant
  /\ sweep # None /\ sweep.done => \A t \in table : t.ts >= sweep.cutoff

\* All that was shown is no older than where the last page ended, and what was there and
\* is neither shown nor newer than that shares the timestamp of the end of a page.
AuditHeld ==
  /\ walk.pc \in {"new", "paging", "over"} /\ ~walk.twice
  /\ walk.before = None => walk.got = {} /\ walk.pc # "paging"
  /\ walk.before # None => \A t \in walk.got : t.ts >= walk.before
  /\ walk.before # None => walk.before \in walk.edges
  /\ walk.pc = "new" => walk.start = {} /\ walk.got = {} /\ walk.before = None
  /\ \A t \in Missed :
       t.ts \in walk.edges \/ (walk.pc # "over" /\ (walk.before # None => t.ts < walk.before))

\* Rank: how many rows a row follows when they are sorted.
Newer(t) == {u \in table : u.ts > t.ts}

\* As long as nothing disturbs the walk, its pages are the rows up to a rank.
PagesHeld ==
  /\ walk.pc = "new" => walk.page = 1 /\ walk.got = {} /\ walk.start = {} /\ ~walk.twice
  /\ walk.count <= CountCap
  /\ walk.pc \in {"paging", "counted"} => walk.page = 1 \/ (walk.page - 1) * PageSize < CountCap
  /\ walk.pc # "new" /\ ~walk.arrived => table \subseteq walk.start
  /\ walk.pc # "new" /\ ~Disturbed =>
       /\ ~walk.twice
       /\ \A t \in table : t \in walk.got <=> Cardinality(Newer(t)) < (walk.page - 1) * PageSize
       /\ walk.count < CountCap => walk.count = Cardinality(table)
       /\ walk.pc = "over" => (walk.page - 1) * PageSize >= walk.count

OfficeInv ==
  /\ OfficeTypeOK /\ FiguresHeld /\ RowsHeld
  /\ desk = "audit" => AuditHeld
  /\ desk = "browse" => PagesHeld

\* The bounds are positive numbers.
LEMMA OfficeNumbers ==
  /\ PageSize \in Nat /\ PageSize > 0 /\ CountCap \in Nat /\ CountCap > 0
  /\ SweepSize \in Nat /\ SweepSize > 0 /\ TableRows \in Nat /\ TableRows > 0
  /\ LastTs \in Nat /\ LastTs > 0 /\ None \notin Nat
BY OfficeAssumption

\* Every set of numbers has a least one, and Min is it.
LEMMA LeastNumber ==
  ASSUME NEW S, S \subseteq Nat, S # {} PROVE Min(S) \in S /\ \A y \in S : Min(S) <= y
<1>1. PICK x \in S : \A y \in S : ~(<<y, x>> \in OpToRel(<, Nat))
  BY NatLessThanWellFounded, WFMin
<1>2. \A y \in S : ~(y < x) BY <1>1 DEF OpToRel
<1>3. \E z \in S : \A y \in S : z <= y BY <1>2
<1> QED BY <1>3 DEF Min

LEMMA LesserOf ==
  ASSUME NEW a \in Nat, NEW b \in Nat
  PROVE  Min({a, b}) \in Nat /\ Min({a, b}) = IF a <= b THEN a ELSE b
<1>1. Min({a, b}) \in {a, b} /\ \A y \in {a, b} : Min({a, b}) <= y
  <2>1. {a, b} \subseteq Nat /\ {a, b} # {} OBVIOUS
  <2> QED BY <2>1, LeastNumber
<1> QED BY <1>1

\* What is taken as far as there is enough is all of it, when it is not enough.
LEMMA TakenAtMost ==
  ASSUME NEW S, IsFiniteSet(S), NEW n \in Nat, NEW T \in kSubset(Min({n, Cardinality(S)}), S)
  PROVE  /\ T \subseteq S /\ IsFiniteSet(T)
         /\ Cardinality(T) < n => T = S
         /\ n > 0 /\ T = {} => S = {}
<1>1. Cardinality(S) \in Nat BY FS_CardinalityType
<1>2. Min({n, Cardinality(S)}) = IF n <= Cardinality(S) THEN n ELSE Cardinality(S)
  BY <1>1, LesserOf
<1>3. T \in SUBSET S /\ Cardinality(T) = Min({n, Cardinality(S)}) BY DEF kSubset
<1>4. IsFiniteSet(T) /\ (Cardinality(S) = Cardinality(T) => S = T) BY <1>3, FS_Subset
<1>5. T = {} => Cardinality(T) = 0 BY FS_EmptySet
<1>6. Cardinality(S) = 0 => S = {} BY FS_EmptySet
<1> QED BY <1>1, <1>2, <1>3, <1>4, <1>5, <1>6

\* The rows before a place of an order are those newer than the row in that place,
\* and every row has one.
LEMMA PlacesAreRanks ==
  ASSUME table \in SUBSET OfficeRow, IsFiniteSet(table), ~Ties, NEW p \in Orders
  PROVE  /\ DOMAIN p = 1 .. Cardinality(table) /\ Cardinality(table) \in Nat
         /\ \A t \in table : \E i \in DOMAIN p : p[i] = t
         /\ \A i \in DOMAIN p : p[i] \in table /\ Cardinality(Newer(p[i])) = i - 1
<1> DEFINE n == Cardinality(table)
<1>1. n \in Nat BY FS_CardinalityType
<1>2. p \in [1 .. n -> table] /\ DOMAIN p = 1 .. n BY DEF Orders
<1>3. \A i, j \in 1 .. n : i < j => p[i] # p[j] /\ p[i].ts >= p[j].ts BY <1>2 DEF Orders
<1>4. \A i \in 1 .. n : p[i] \in table /\ p[i].ts \in Nat BY <1>2 DEF OfficeRow
<1> HIDE DEF n
<1>5. \A i, j \in 1 .. n : i < j => p[i].ts > p[j].ts
  <2>1. SUFFICES ASSUME NEW i \in 1 .. n, NEW j \in 1 .. n, i < j PROVE p[i].ts > p[j].ts OBVIOUS
  <2>2. p[i] # p[j] /\ p[i].ts >= p[j].ts BY <2>1, <1>3
  <2>3. p[i].ts # p[j].ts BY <2>2, <1>4 DEF Ties
  <2> QED BY <2>2, <2>3, <1>4
<1>6. \A i, j \in 1 .. n : p[i] = p[j] => i = j
  <2>1. SUFFICES ASSUME NEW i \in 1 .. n, NEW j \in 1 .. n, p[i] = p[j], i # j PROVE FALSE OBVIOUS
  <2>2. i < j \/ j < i BY <2>1, <1>1
  <2> QED BY <2>1, <2>2, <1>3
<1>7. p \in Injection(1 .. n, table) BY <1>2, <1>6 DEF Injection, IsInjective
<1>8. IsFiniteSet(1 .. n) /\ Cardinality(1 .. n) = n
  BY <1>1, FS_Interval
<1>9. p \in Surjection(1 .. n, table)
  <2>1. Cardinality(1 .. n) = Cardinality(table) BY <1>8 DEF n
  <2> QED BY <2>1, <1>7, FS_Injection
<1>10. \A t \in table : \E i \in 1 .. n : p[i] = t BY <1>9 DEF Surjection
<1>11. ASSUME NEW i \in 1 .. n PROVE Cardinality(Newer(p[i])) = i - 1
  <2>1. i \in Nat /\ 1 <= i /\ i <= n BY <1>1
  <2>2. \A j \in 1 .. n : p[j].ts > p[i].ts <=> j \in 1 .. (i - 1)
    <3>1. SUFFICES ASSUME NEW j \in 1 .. n PROVE p[j].ts > p[i].ts <=> j \in 1 .. (i - 1) OBVIOUS
    <3>2. j \in Nat BY <1>1
    <3>3. CASE j < i BY <3>3, <3>2, <2>1, <1>5
    <3>4. CASE j = i BY <3>4, <3>2, <2>1, <1>4
    <3>5. CASE j > i
      <4>1. p[i].ts > p[j].ts BY <3>5, <2>1, <1>5
      <4> QED BY <4>1, <3>5, <3>2, <2>1, <1>4
    <3> QED BY <3>2, <2>1, <3>3, <3>4, <3>5
  <2>3. 1 .. (i - 1) \subseteq 1 .. n BY <2>1, <1>1
  <2> DEFINE g == [j \in 1 .. (i - 1) |-> p[j]]
  <2>4. g \in [1 .. (i - 1) -> Newer(p[i])]
    BY <2>2, <2>3, <1>4 DEF Newer
  <2>5. \A u \in Newer(p[i]) : \E j \in 1 .. (i - 1) : g[j] = u
    <3>1. SUFFICES ASSUME NEW u \in Newer(p[i]) PROVE \E j \in 1 .. (i - 1) : g[j] = u OBVIOUS
    <3>2. u \in table /\ u.ts > p[i].ts BY <3>1 DEF Newer
    <3>3. PICK j \in 1 .. n : p[j] = u BY <3>2, <1>10
    <3>4. j \in 1 .. (i - 1) BY <3>2, <3>3, <2>2
    <3> QED BY <3>3, <3>4
  <2>6. \A j, k \in 1 .. (i - 1) : g[j] = g[k] => j = k BY <2>3, <1>6
  <2> HIDE DEF g
  <2>7. g \in Bijection(1 .. (i - 1), Newer(p[i]))
    BY <2>4, <2>5, <2>6 DEF Bijection, Injection, IsInjective, Surjection
  <2>8. IsFiniteSet(1 .. (i - 1)) /\ Cardinality(1 .. (i - 1)) = i - 1
    <3>1. i - 1 \in Int /\ (1 > i - 1 => i - 1 = 0) /\ i - 1 - 1 + 1 = i - 1 BY <2>1
    <3>2. IsFiniteSet(1 .. (i - 1)) /\ Cardinality(1 .. (i - 1)) = IF 1 > i - 1 THEN 0 ELSE (i - 1) - 1 + 1
      BY <3>1, FS_Interval
    <3> QED BY <3>1, <3>2
  <2>9. ExistsBijection(1 .. (i - 1), Newer(p[i])) BY <2>7 DEF ExistsBijection
  <2> QED BY <2>8, <2>9, FS_Bijection
<1> QED BY <1>1, <1>2, <1>4, <1>10, <1>11 DEF n

\* A row follows fewer rows than there are.
LEMMA RankBelow ==
  ASSUME table \in SUBSET OfficeRow, IsFiniteSet(table), NEW t \in table
  PROVE  /\ Cardinality(Newer(t)) \in Nat /\ Cardinality(table) \in Nat
         /\ Cardinality(Newer(t)) < Cardinality(table)
<1>1. Newer(t) \in SUBSET table /\ t \notin Newer(t)
  <2>1. t.ts \in Nat BY DEF OfficeRow
  <2> QED BY <2>1 DEF Newer
<1>2. /\ IsFiniteSet(Newer(t)) /\ Cardinality(Newer(t)) <= Cardinality(table)
      /\ Cardinality(table) = Cardinality(Newer(t)) => table = Newer(t)
  BY <1>1, FS_Subset
<1>3. Cardinality(Newer(t)) \in Nat /\ Cardinality(table) \in Nat BY <1>2, FS_CardinalityType
<1> QED BY <1>1, <1>2, <1>3

\* Which rows the queries that are compared count.
LEMMA QueriesCompared ==
  /\ desk = "card" =>
       /\ Len(Queries) = 6
       /\ Kind(Queries[2]) = "hint" /\ Kind(Queries[5]) = "hint"
       /\ Kind(Queries[3]) = "session" /\ Kind(Queries[6]) = "session"
  /\ desk # "card" => Len(Queries) = 3 /\ Kind(Queries[2]) = "hint" /\ Kind(Queries[3]) = "session"
BY DEF Queries, DetailQueries, OverviewQueries, Kind

LEMMA FiguresStay ==
  ASSUME FiguresHeld, UNCHANGED <<desk, facts, card>> PROVE FiguresHeld'
BY DEF FiguresHeld, CountedBy, Queries, Of

LEMMA WalkStays ==
  ASSUME UNCHANGED <<table, walk>> PROVE (AuditHeld => AuditHeld') /\ (PagesHeld => PagesHeld')
BY DEF AuditHeld, PagesHeld, Missed, Disturbed, Ties, Newer

\* Nothing has been read yet.
LEMMA OfficeInitInv == OfficeInit => OfficeInv
<1> SUFFICES ASSUME OfficeInit PROVE OfficeInv OBVIOUS
<1>1. PICK n \in 0 .. TableRows - 1, ts \in [1 .. TableRows - 1 -> 0 .. LastTs - 1] :
        table = {[row |-> i, ts |-> ts[i]] : i \in 1 .. n}
  BY DEF OfficeInit
<1>2. table \in SUBSET OfficeRow BY <1>1, OfficeNumbers DEF OfficeRow
<1>3. IsFiniteSet(table)
  <2>1. n \in Nat BY OfficeNumbers
  <2>2. IsFiniteSet(1 .. n) BY <2>1, FS_Interval
  <2> DEFINE stored == [i \in 1 .. n |-> [row |-> i, ts |-> ts[i]]]
  <2>3. stored \in Surjection(1 .. n, table) BY <1>1 DEF Surjection
  <2> HIDE DEF stored
  <2> QED BY <2>2, <2>3, FS_Surjection
<1>4. walk \in Walks
  BY DEF OfficeInit, NoWalk, Walks, WalkPcs
<1>5. OfficeTypeOK
  <2>1. facts \in Seq([kind : FactKinds, lab : CardLabs]) /\ card \in Seq(SUBSET Nat)
    BY DEF OfficeInit
  <2>2. instant \in Nat BY OfficeNumbers DEF OfficeInit
  <2> QED BY <1>2, <1>3, <1>4, <2>1, <2>2 DEF OfficeTypeOK, OfficeInit
<1>6. FiguresHeld
  <2>1. Len(card) = 0 /\ DOMAIN card = {} /\ DOMAIN facts = {} BY DEF OfficeInit
  <2>2. Len(Queries) >= 0 BY QueriesCompared
  <2> QED BY <2>1, <2>2 DEF FiguresHeld, Of
<1>7. RowsHeld BY DEF RowsHeld, OfficeInit, NoWalk
<1>8. AuditHeld /\ PagesHeld BY OfficeNumbers DEF AuditHeld, PagesHeld, Missed, OfficeInit, NoWalk
<1> QED BY <1>5, <1>6, <1>7, <1>8 DEF OfficeInv

\* What the learner leaves is counted by the queries to come only, and nothing is left
\* in a session that did not begin.
LEMMA LeavesInv ==
  ASSUME OfficeInv, NEW kind \in {"session", "progress", "hint", "message"}, NEW lab \in CardLabs,
         Leaves(kind, lab)
  PROVE  OfficeInv'
<1> DEFINE fact == [kind |-> kind, lab |-> lab]
<1>1. /\ facts \in Seq([kind : FactKinds, lab : CardLabs]) /\ fact \in [kind : FactKinds, lab : CardLabs]
      /\ facts' = Append(facts, fact) /\ UNCHANGED <<desk, card, table, instant, walk, sweep>>
      /\ kind = "hint" => Of("session") # {}
  <2>1. facts \in Seq([kind : FactKinds, lab : CardLabs]) BY DEF OfficeInv, OfficeTypeOK
  <2>2. fact \in [kind : FactKinds, lab : CardLabs] BY DEF FactKinds
  <2>3. facts' = Append(facts, fact) /\ UNCHANGED <<desk, card, table, instant, walk, sweep>>
    BY DEF Leaves
  <2>4. kind = "hint" => Of("session") # {} BY DEF Leaves
  <2> QED BY <2>1, <2>2, <2>3, <2>4
<1> HIDE DEF fact
<1>2. /\ facts' \in Seq([kind : FactKinds, lab : CardLabs])
      /\ Len(facts) \in Nat /\ DOMAIN facts = 1 .. Len(facts)
      /\ DOMAIN facts' = 1 .. (Len(facts) + 1)
      /\ \A i \in 1 .. Len(facts) : facts'[i] = facts[i]
      /\ facts'[Len(facts) + 1] = fact
  BY <1>1, AppendProperties, LenProperties
<1>3. \A k : Of(k) \subseteq Of(k)' BY <1>2 DEF Of
<1>4. Of("hint")' # {} => kind = "hint" \/ Of("hint") # {}
  <2>1. fact.kind = kind BY DEF fact
  <2>2. ASSUME Of("hint")' # {}, kind # "hint" PROVE Of("hint") # {}
    <3>1. PICK i \in 1 .. (Len(facts) + 1) : facts'[i].kind = "hint" BY <2>2, <1>2 DEF Of
    <3>2. i # Len(facts) + 1 BY <3>1, <2>1, <2>2, <1>2
    <3>3. i \in 1 .. Len(facts) BY <3>2, <1>2
    <3> QED BY <3>1, <3>3, <1>2 DEF Of
  <2> QED BY <2>2
<1>5. FiguresHeld'
  <2>1. Queries' = Queries BY <1>1 DEF Queries
  <2>2. \A i \in DOMAIN card : card[i] \subseteq CountedBy(i) BY DEF OfficeInv, FiguresHeld
  <2>3. \A i \in DOMAIN card' : card'[i] \subseteq CountedBy(i)'
    <3>1. \A i : CountedBy(i) \subseteq CountedBy(i)' BY <2>1, <1>2 DEF CountedBy, Of
    <3> QED BY <3>1, <2>2, <1>1
  <2>4. Of("hint")' # {} => Of("session")' # {} BY <1>1, <1>3, <1>4 DEF OfficeInv, FiguresHeld
  <2> QED BY <2>1, <2>3, <2>4, <1>1 DEF OfficeInv, FiguresHeld
<1>6. OfficeTypeOK' BY <1>1, <1>2 DEF OfficeInv, OfficeTypeOK
<1>7. RowsHeld' BY <1>1 DEF OfficeInv, RowsHeld
<1> QED BY <1>1, <1>5, <1>6, <1>7, WalkStays DEF OfficeInv

\* A query finds at least what an earlier one of the same kind found.
LEMMA AskNextInv == OfficeInv /\ AskNext => OfficeInv'
<1> SUFFICES ASSUME OfficeInv, AskNext PROVE OfficeInv' OBVIOUS
<1> DEFINE found == Of(Kind(Queries[Len(card) + 1]))
<1>1. /\ card \in Seq(SUBSET Nat) /\ facts \in Seq([kind : FactKinds, lab : CardLabs])
      /\ Len(card) < Len(Queries) /\ desk \in {"card", "overview"}
      /\ card' = Append(card, found) /\ UNCHANGED <<desk, facts, table, instant, walk, sweep>>
  BY DEF OfficeInv, OfficeTypeOK, AskNext, InFigures
<1>2. found \in SUBSET Nat
  <2>1. DOMAIN facts = 1 .. Len(facts) /\ Len(facts) \in Nat BY <1>1, LenProperties
  <2> QED BY <2>1 DEF Of
<1> HIDE DEF found
<1>3. /\ card' \in Seq(SUBSET Nat) /\ Len(card) \in Nat /\ Len(card') = Len(card) + 1
      /\ DOMAIN card = 1 .. Len(card) /\ DOMAIN card' = 1 .. (Len(card) + 1)
      /\ \A i \in 1 .. Len(card) : card'[i] = card[i]
      /\ card'[Len(card) + 1] = found
  BY <1>1, <1>2, AppendProperties, LenProperties
<1>4. Queries' = Queries /\ (\A i : CountedBy(i)' = CountedBy(i)) /\ \A k : Of(k)' = Of(k)
  BY <1>1 DEF Queries, CountedBy, Of
<1>5. FiguresHeld BY DEF OfficeInv
<1>6. Len(Queries) \in Nat BY <1>1, QueriesCompared
<1>7. Len(card)' <= Len(Queries)' BY <1>1, <1>3, <1>4, <1>6
<1>8. \A i \in DOMAIN card' : card'[i] \subseteq CountedBy(i)'
  <2>1. SUFFICES ASSUME NEW i \in 1 .. (Len(card) + 1) PROVE card'[i] \subseteq CountedBy(i)
    BY <1>3, <1>4
  <2>2. CASE i = Len(card) + 1 BY <2>2, <1>3 DEF found, CountedBy
  <2>3. CASE i # Len(card) + 1
    <3>1. i \in 1 .. Len(card) BY <2>3, <1>3
    <3> QED BY <3>1, <1>3, <1>5 DEF FiguresHeld
  <2> QED BY <2>2, <2>3
<1>9. ASSUME desk = "card" PROVE /\ Len(card') >= 5 => card'[2] \subseteq card'[5]
                                 /\ Len(card') >= 6 => card'[3] \subseteq card'[6]
  <2>1. Len(card) <= 5
    <3>1. Len(Queries) = 6 BY <1>9, QueriesCompared
    <3> QED BY <3>1, <1>1, <1>3
  <2>2. CASE Len(card) < 4 BY <2>2, <1>3
  <2>3. CASE Len(card) = 4
    <3>1. card'[2] = card[2] /\ card'[5] = found BY <2>3, <1>3
    <3>2. found = Of("hint") BY <2>3, <1>9, QueriesCompared DEF found
    <3>3. card[2] \subseteq Of("hint") BY <2>3, <1>3, <1>5, <1>9, QueriesCompared DEF FiguresHeld, CountedBy
    <3> QED BY <3>1, <3>2, <3>3, <2>3, <1>3
  <2>4. CASE Len(card) = 5
    <3>1. card'[2] = card[2] /\ card'[5] = card[5] /\ card'[3] = card[3] /\ card'[6] = found BY <2>4, <1>3
    <3>2. found = Of("session") BY <2>4, <1>9, QueriesCompared DEF found
    <3>3. card[3] \subseteq Of("session") /\ card[2] \subseteq card[5]
      BY <2>4, <1>3, <1>5, <1>9, QueriesCompared DEF FiguresHeld, CountedBy
    <3> QED BY <3>1, <3>2, <3>3
  <2> QED BY <2>1, <2>2, <2>3, <2>4, <1>3
<1>10. ASSUME desk = "overview", Len(card') = 3, card'[2] # {} PROVE card'[3] # {}
  <2>1. Len(card) = 2 /\ card'[2] = card[2] /\ card'[3] = found BY <1>10, <1>3
  <2>2. found = Of("session") BY <2>1, <1>10, QueriesCompared DEF found
  <2>3. card[2] \subseteq Of("hint") BY <2>1, <1>3, <1>5, <1>10, QueriesCompared DEF FiguresHeld, CountedBy
  <2> QED BY <2>1, <2>2, <2>3, <1>5, <1>10 DEF FiguresHeld
<1>11. FiguresHeld'
  <2>1. (Of("hint") # {} => Of("session") # {})' BY <1>4, <1>5 DEF FiguresHeld
  <2> QED BY <2>1, <1>1, <1>7, <1>8, <1>9, <1>10 DEF FiguresHeld
<1>12. OfficeTypeOK' BY <1>1, <1>3 DEF OfficeInv, OfficeTypeOK
<1>13. RowsHeld' BY <1>1 DEF OfficeInv, RowsHeld
<1> QED BY <1>1, <1>11, <1>12, <1>13, WalkStays DEF OfficeInv

\* A row that arrives is new to the walk, and no older than what a sweep drops.
LEMMA ArriveInv == OfficeInv /\ Arrive => OfficeInv'
<1> SUFFICES ASSUME OfficeInv, Arrive PROVE OfficeInv' OBVIOUS
<1> DEFINE row == [row |-> TableRows, ts |-> instant]
<1>1. /\ \A t \in table \cup walk.removed : t.row < TableRows
      /\ table' = table \cup {row} /\ walk' = [walk EXCEPT !.arrived = TRUE]
      /\ UNCHANGED <<desk, facts, card, instant, sweep>>
  BY DEF Arrive
<1>2. /\ walk \in Walks /\ table \in SUBSET OfficeRow /\ IsFiniteSet(table) /\ instant \in Nat
      /\ sweep \in {None} \cup [cutoff : Nat, done : BOOLEAN]
  BY DEF OfficeInv, OfficeTypeOK
<1>3. row \in OfficeRow /\ row.row = TableRows /\ row.ts = instant BY <1>2, OfficeNumbers DEF OfficeRow
<1> HIDE DEF row
<1>4. row \notin table /\ row \notin walk.removed BY <1>1, <1>3, OfficeNumbers
<1>5. row \notin walk.start BY <1>4 DEF OfficeInv, RowsHeld
<1>6. /\ walk' \in Walks /\ walk'.arrived = TRUE /\ walk'.count = walk.count /\ walk'.pc = walk.pc /\ walk'.page = walk.page
      /\ walk'.before = walk.before /\ walk'.got = walk.got /\ walk'.twice = walk.twice
      /\ walk'.start = walk.start /\ walk'.edges = walk.edges /\ walk'.removed = walk.removed
  BY <1>1, <1>2 DEF Walks
<1>7. IsFiniteSet(table') BY <1>1, <1>2, FS_AddElement
<1>8. OfficeTypeOK' BY <1>1, <1>2, <1>3, <1>6, <1>7 DEF OfficeInv, OfficeTypeOK
<1>9. RowsHeld'
  <2>1. sweep # None => sweep.cutoff <= instant /\ sweep.cutoff \in Nat
    BY <1>2 DEF OfficeInv, RowsHeld
  <2>2. sweep # None => row.ts >= sweep.cutoff BY <2>1, <1>2, <1>3
  <2> QED BY <2>1, <2>2, <1>1, <1>6 DEF OfficeInv, RowsHeld
<1>10. FiguresHeld' BY <1>1, FiguresStay DEF OfficeInv
<1>11. ASSUME desk = "audit" PROVE AuditHeld'
  <2>1. Missed' = Missed BY <1>1, <1>5, <1>6 DEF Missed
  <2> QED BY <2>1, <1>6, <1>11 DEF OfficeInv, AuditHeld
<1>12. ASSUME desk = "browse" PROVE PagesHeld'
  BY <1>6, <1>12 DEF OfficeInv, PagesHeld, Disturbed
<1> QED BY <1>1, <1>8, <1>9, <1>10, <1>11, <1>12 DEF OfficeInv

LEMMA ClockOnInv == OfficeInv /\ ClockOn => OfficeInv'
<1> SUFFICES ASSUME OfficeInv, ClockOn PROVE OfficeInv' OBVIOUS
<1>1. instant' = instant + 1 /\ UNCHANGED <<desk, facts, card, table, walk, sweep>> BY DEF ClockOn
<1>2. OfficeTypeOK' BY <1>1 DEF OfficeInv, OfficeTypeOK
<1>3. sweep # None => sweep.cutoff \in Nat /\ instant \in Nat BY DEF OfficeInv, OfficeTypeOK
<1>4. RowsHeld' BY <1>1, <1>3 DEF OfficeInv, RowsHeld
<1> QED BY <1>1, <1>2, <1>4, FiguresStay, WalkStays DEF OfficeInv

LEMMA SweepBeginsInv == OfficeInv /\ SweepBegins => OfficeInv'
<1> SUFFICES ASSUME OfficeInv, SweepBegins PROVE OfficeInv' OBVIOUS
<1>1. PICK cutoff \in 1 .. instant :
        sweep' = [cutoff |-> cutoff, done |-> FALSE] /\ UNCHANGED <<desk, facts, card, table, instant, walk>>
  BY DEF SweepBegins
<1>2. cutoff \in Nat /\ cutoff <= instant BY DEF OfficeInv, OfficeTypeOK
<1>3. OfficeTypeOK' BY <1>1, <1>2 DEF OfficeInv, OfficeTypeOK
<1>4. RowsHeld' BY <1>1, <1>2 DEF OfficeInv, RowsHeld
<1> QED BY <1>1, <1>3, <1>4, FiguresStay, WalkStays DEF OfficeInv

\* A batch that is short has left nothing old; a batch disturbs only what has lost a row.
LEMMA SweepBatchInv == OfficeInv /\ SweepBatch => OfficeInv'
<1> SUFFICES ASSUME OfficeInv, SweepBatch PROVE OfficeInv' OBVIOUS
<1> DEFINE old == {t \in table : t.ts < sweep.cutoff}
<1>1. PICK batch \in kSubset(Min({SweepSize, Cardinality(old)}), old) :
        /\ table' = table \ batch
        /\ walk' = [walk EXCEPT !.removed = @ \cup batch]
        /\ sweep' = [sweep EXCEPT !.done = Cardinality(batch) < SweepSize]
        /\ UNCHANGED <<desk, facts, card, instant>> /\ sweep # None
  BY DEF SweepBatch
<1>2. /\ walk \in Walks /\ table \in SUBSET OfficeRow /\ IsFiniteSet(table) /\ instant \in Nat
      /\ sweep \in [cutoff : Nat, done : BOOLEAN]
  BY <1>1 DEF OfficeInv, OfficeTypeOK
<1>3. old \in SUBSET table /\ IsFiniteSet(old)
  <2>1. old \in SUBSET table OBVIOUS
  <2> QED BY <2>1, <1>2, FS_Subset
<1>4. /\ batch \subseteq old
      /\ Cardinality(batch) < SweepSize => batch = old
  <2> HIDE DEF old
  <2> QED BY <1>3, OfficeNumbers, TakenAtMost
<1>5. batch \subseteq table BY <1>3, <1>4
<1>6. sweep'.done => table' = {t \in table : ~(t.ts < sweep.cutoff)} BY <1>1, <1>2, <1>4
<1> HIDE DEF old
<1>7. /\ walk' \in Walks /\ walk'.removed = walk.removed \cup batch /\ walk'.pc = walk.pc
      /\ walk'.page = walk.page /\ walk'.arrived = walk.arrived /\ walk'.count = walk.count
      /\ walk'.before = walk.before /\ walk'.got = walk.got /\ walk'.twice = walk.twice
      /\ walk'.start = walk.start /\ walk'.edges = walk.edges
  BY <1>1, <1>2, <1>5 DEF Walks
<1>8. sweep' \in [cutoff : Nat, done : BOOLEAN] /\ sweep'.cutoff = sweep.cutoff
  <2> DEFINE short == Cardinality(batch) < SweepSize
  <2>1. short \in BOOLEAN /\ sweep' = [sweep EXCEPT !.done = short] BY <1>1
  <2> HIDE DEF short
  <2> QED BY <2>1, <1>2
<1>9. IsFiniteSet(table') /\ table' \in SUBSET table
  <2>1. table' \in SUBSET table BY <1>1
  <2> QED BY <2>1, <1>2, FS_Subset
<1>10. OfficeTypeOK' BY <1>1, <1>2, <1>7, <1>8, <1>9 DEF OfficeInv, OfficeTypeOK
<1>11. RowsHeld'
  <2>1. walk'.start \subseteq table' \cup walk'.removed BY <1>1, <1>7 DEF OfficeInv, RowsHeld
  <2>2. sweep'.cutoff <= instant' BY <1>1, <1>8 DEF OfficeInv, RowsHeld
  <2>3. ASSUME sweep'.done, NEW t \in table' PROVE t.ts >= sweep'.cutoff
    <3>1. t \in table /\ ~(t.ts < sweep.cutoff) BY <2>3, <1>6
    <3>2. t.ts \in Nat BY <3>1, <1>2 DEF OfficeRow
    <3> QED BY <3>1, <3>2, <1>2, <1>8
  <2> QED BY <2>1, <2>2, <2>3 DEF RowsHeld
<1>12. FiguresHeld' BY <1>1, FiguresStay DEF OfficeInv
<1>13. ASSUME desk = "audit" PROVE AuditHeld'
  <2>1. Missed' \subseteq Missed BY <1>7, <1>9 DEF Missed
  <2> QED BY <2>1, <1>7, <1>13 DEF OfficeInv, AuditHeld
<1>14. ASSUME desk = "browse" PROVE PagesHeld'
  <2>1. PagesHeld BY <1>14 DEF OfficeInv
  <2>2. ASSUME walk'.pc # "new", ~Disturbed' PROVE table' = table /\ ~Disturbed
    <3>1. ~walk.arrived /\ walk'.removed \cap walk'.start = {} BY <2>2, <1>7 DEF Disturbed
    <3>2. table \subseteq walk.start BY <2>1, <2>2, <3>1, <1>7 DEF PagesHeld
    <3>3. batch = {} BY <3>1, <3>2, <1>5, <1>7
    <3>4. table' = table BY <3>3, <1>1
    <3> QED BY <3>1, <3>4, <2>2, <1>7 DEF Disturbed, Ties
  <2>3. table' = table => \A t : Newer(t)' = Newer(t) BY DEF Newer
  <2>4. walk'.pc # "new" /\ ~walk'.arrived => table' \subseteq walk'.start
    BY <2>1, <1>7, <1>9 DEF PagesHeld
  <2>5. ASSUME walk'.pc # "new", ~Disturbed'
        PROVE  /\ ~walk'.twice
               /\ \A t \in table' : t \in walk'.got <=> Cardinality(Newer(t)') < (walk'.page - 1) * PageSize
               /\ walk'.count < CountCap => walk'.count = Cardinality(table')
               /\ walk'.pc = "over" => (walk'.page - 1) * PageSize >= walk'.count
    BY <2>1, <2>2, <2>3, <2>5, <1>7 DEF PagesHeld
  <2> QED BY <2>1, <2>4, <2>5, <1>7 DEF PagesHeld
<1> QED BY <1>1, <1>10, <1>11, <1>12, <1>13, <1>14 DEF OfficeInv

\* Where the walk begins, and what a page adds to it.
LEMMA BegunTyped ==
  ASSUME OfficeTypeOK
  PROVE  /\ Begun \in Walks /\ Begun.pc = walk.pc /\ Begun.page = walk.page /\ Begun.before = walk.before
         /\ Begun.got = walk.got /\ Begun.twice = walk.twice /\ Begun.edges = walk.edges
         /\ Begun.removed = walk.removed /\ Begun.count = walk.count
         /\ walk.pc = "new" => Begun.start = table /\ Begun.arrived = FALSE
         /\ walk.pc # "new" => Begun.start = walk.start /\ Begun.arrived = walk.arrived
<1>1. walk \in Walks /\ table \in SUBSET OfficeRow BY DEF OfficeTypeOK
<1>2. CASE walk.pc = "new"
  <2>1. Begun = [walk EXCEPT !.start = table, !.arrived = FALSE] BY <1>2 DEF Begun
  <2> QED BY <2>1, <1>1, <1>2 DEF Walks
<1>3. CASE walk.pc # "new" BY <1>1, <1>3 DEF Begun
<1> QED BY <1>2, <1>3

\* What a page of the audit leaves out is older than its end, or as old.
LEMMA AuditPageInv == OfficeInv /\ AuditPage => OfficeInv'
<1> SUFFICES ASSUME OfficeInv, AuditPage PROVE OfficeInv' OBVIOUS
<1> DEFINE left == {t \in table : walk.before # None => Older(t, walk.before)}
           EndOf(page) == IF page = {} THEN walk.before ELSE Min({t.ts : t \in page})
<1>1. desk = "audit" /\ walk.pc \in {"new", "paging"} /\ UNCHANGED <<desk, facts, card, table, instant, sweep>>
  BY DEF AuditPage
<1>2. PICK page \in kSubset(Min({PageSize, Cardinality(left)}), left) :
        /\ NewestOf(left, page)
        /\ walk' = [WithPage(Begun, page) EXCEPT
                      !.before = EndOf(page),
                      !.edges = IF page = {} THEN @ ELSE @ \cup {EndOf(page)},
                      !.pc = IF Cardinality(page) < PageSize THEN "over" ELSE "paging"]
  BY DEF AuditPage
<1>3. OfficeTypeOK /\ walk \in Walks /\ table \in SUBSET OfficeRow /\ IsFiniteSet(table)
  BY DEF OfficeInv, OfficeTypeOK
<1>4. left \in SUBSET table /\ IsFiniteSet(left)
  <2>1. left \in SUBSET table OBVIOUS
  <2> QED BY <2>1, <1>3, FS_Subset
<1>5. /\ page \subseteq left
      /\ Cardinality(page) < PageSize => page = left
      /\ page = {} => left = {}
  <2> HIDE DEF left
  <2> QED BY <1>4, OfficeNumbers, TakenAtMost
<1>6. \A t \in left : t \in table /\ t \in OfficeRow /\ t.ts \in Nat /\ (walk.before # None => t.ts < walk.before)
  BY <1>3 DEF OfficeRow, Older
<1>7. ASSUME page # {}
      PROVE  /\ EndOf(page) \in Nat /\ \A t \in page : EndOf(page) <= t.ts
             /\ \E t \in page : t.ts = EndOf(page)
  <2> DEFINE times == {t.ts : t \in page}
  <2>1. times \subseteq Nat /\ times # {} BY <1>5, <1>6, <1>7
  <2>2. EndOf(page) = Min(times) BY <1>7
  <2>3. Min(times) \in times /\ \A y \in times : Min(times) <= y
    <3> HIDE DEF times
    <3> QED BY <2>1, LeastNumber
  <2> QED BY <2>1, <2>2, <2>3
<1>8. \A t \in left \ page : page # {} /\ t.ts <= EndOf(page)
  <2>1. SUFFICES ASSUME NEW t \in left \ page PROVE page # {} /\ t.ts <= EndOf(page) OBVIOUS
  <2>2. page # {} BY <1>5
  <2>3. PICK u \in page : u.ts = EndOf(page) BY <2>2, <1>7
  <2>4. t.ts <= u.ts BY <1>2 DEF NewestOf
  <2> QED BY <2>2, <2>3, <2>4
<1>9. \A t \in table : t \notin left => walk.before # None /\ ~(t.ts < walk.before) BY DEF Older
<1>10. walk.before \in Nat \cup {None} /\ (page = {} => EndOf(page) = walk.before) BY <1>3 DEF Walks
<1> DEFINE last == EndOf(page)
<1> HIDE DEF left, EndOf
<1>11. /\ walk' \in Walks /\ walk'.before = last
       /\ walk'.got = walk.got \cup page
       /\ walk'.twice = (walk.twice \/ walk.got \cap page # {})
       /\ walk'.edges = IF page = {} THEN walk.edges ELSE walk.edges \cup {last}
       /\ walk'.pc = IF Cardinality(page) < PageSize THEN "over" ELSE "paging"
       /\ walk'.start = Begun.start /\ walk'.removed = walk.removed
  <2> DEFINE w == Begun
             again == walk.twice \/ walk.got \cap page # {}
             ends == IF page = {} THEN walk.edges ELSE walk.edges \cup {last}
             pc == IF Cardinality(page) < PageSize THEN "over" ELSE "paging"
  <2>1. /\ w \in Walks /\ w.got = walk.got /\ w.twice = walk.twice /\ w.edges = walk.edges
        /\ w.removed = walk.removed
    BY <1>3, BegunTyped
  <2>2. again \in BOOLEAN /\ pc \in WalkPcs BY <1>3 DEF Walks, WalkPcs
  <2>3. last \in Nat \cup {None} /\ ends \in SUBSET Nat BY <1>3, <1>7, <1>10 DEF Walks
  <2>4. page \in SUBSET OfficeRow BY <1>5, <1>6
  <2>5. WithPage(w, page) = [w EXCEPT !.got = walk.got \cup page, !.twice = again]
    BY <2>1 DEF WithPage
  <2> HIDE DEF w, again
  <2>6. walk' = [WithPage(w, page) EXCEPT !.before = last, !.edges = ends, !.pc = pc]
    <3>1. WithPage(w, page).edges = walk.edges BY <2>1, <2>5 DEF Walks
    <3> QED BY <3>1, <1>2 DEF w
  <2> HIDE DEF ends, pc, last
  <2>7. /\ walk' \in Walks /\ walk'.before = last /\ walk'.got = walk.got \cup page /\ walk'.twice = again
        /\ walk'.edges = ends /\ walk'.pc = pc /\ walk'.start = w.start /\ walk'.removed = w.removed
    BY <2>1, <2>2, <2>3, <2>4, <2>5, <2>6, <1>3 DEF Walks
  <2> QED BY <2>1, <2>7 DEF w, again, ends, pc
<1>12. /\ walk.pc = "new" => Begun.start = table
       /\ walk.pc # "new" => Begun.start = walk.start
  BY <1>3, BegunTyped
<1>13. OfficeTypeOK' BY <1>1, <1>3, <1>11 DEF OfficeTypeOK
<1>14. RowsHeld'
  <2>1. walk'.start \subseteq table' \cup walk'.removed BY <1>1, <1>11, <1>12 DEF OfficeInv, RowsHeld
  <2> QED BY <2>1, <1>1 DEF OfficeInv, RowsHeld
<1>15. FiguresHeld' BY <1>1, FiguresStay DEF OfficeInv
<1>16. AuditHeld BY <1>1 DEF OfficeInv
<1>17. AuditHeld'
  <2>1. ~walk'.twice
    <3>1. SUFFICES ASSUME NEW t \in walk.got, t \in page PROVE FALSE BY <1>11, <1>16 DEF AuditHeld
    <3>2. walk.before # None /\ t.ts >= walk.before BY <1>16 DEF AuditHeld
    <3>3. t.ts < walk.before /\ t.ts \in Nat BY <3>1, <3>2, <1>5, <1>6
    <3> QED BY <3>2, <3>3, <1>10
  <2>2. last # None => \A t \in walk'.got : t.ts >= last
    <3>1. SUFFICES ASSUME last # None, NEW t \in walk.got \cup page PROVE t.ts >= last BY <1>11
    <3>2. CASE page = {} BY <3>1, <3>2, <1>10, <1>16 DEF AuditHeld
    <3>3. CASE page # {} /\ t \in page BY <3>3, <1>5, <1>6, <1>7
    <3>4. CASE page # {} /\ t \in walk.got
      <4>1. walk.before # None /\ t.ts >= walk.before BY <3>4, <1>16 DEF AuditHeld
      <4>2. PICK u \in page : u.ts = last BY <3>4, <1>7
      <4>3. last \in Nat /\ last < walk.before BY <4>1, <4>2, <1>5, <1>6
      <4>4. t.ts \in Nat BY <3>4, <1>3 DEF Walks, OfficeRow
      <4> QED BY <4>1, <4>3, <4>4, <1>10
    <3> QED BY <3>1, <3>2, <3>3, <3>4
  <2>3. last = None => walk'.got = {} /\ walk'.pc = "over"
    <3>1. SUFFICES ASSUME last = None PROVE walk'.got = {} /\ walk'.pc = "over" OBVIOUS
    <3>2. page = {} BY <3>1, <1>7, OfficeNumbers
    <3>3. Cardinality(page) = 0 BY <3>2, FS_EmptySet
    <3> QED BY <3>1, <3>2, <3>3, <1>10, <1>11, <1>16, OfficeNumbers DEF AuditHeld
  <2>4. last # None => last \in walk'.edges
    BY <1>10, <1>11, <1>16 DEF AuditHeld
  <2>5. ASSUME NEW t \in Missed'
        PROVE  t.ts \in walk'.edges \/ (walk'.pc # "over" /\ (last # None => t.ts < last))
    <3>1. t \in table /\ t \in walk'.start /\ t \notin walk.got /\ t \notin page BY <2>5, <1>1, <1>11 DEF Missed
    <3>2. t.ts \in Nat BY <3>1, <1>3 DEF OfficeRow
    <3>3. CASE t \in left
      <4>1. page # {} /\ t.ts <= last BY <3>1, <3>3, <1>8
      <4>2. walk'.pc = "paging" BY <3>1, <3>3, <1>5, <1>11
      <4>3. last \in Nat /\ last \in walk'.edges BY <4>1, <1>7, <1>11
      <4> QED BY <4>1, <4>2, <4>3, <3>2
    <3>4. CASE t \notin left
      <4>1. walk.before # None /\ ~(t.ts < walk.before) BY <3>1, <3>4, <1>9
      <4>2. walk.pc # "new" BY <4>1, <1>16 DEF AuditHeld
      <4>3. t \in Missed BY <4>2, <3>1, <1>11, <1>12 DEF Missed
      <4>4. t.ts \in walk.edges BY <4>1, <4>3, <1>16 DEF AuditHeld
      <4> QED BY <4>4, <1>11
    <3> QED BY <3>3, <3>4
  <2>6. walk'.pc \in {"paging", "over"} /\ walk'.before = last BY <1>11
  <2> HIDE DEF last
  <2> QED BY <2>1, <2>2, <2>3, <2>4, <2>5, <2>6 DEF AuditHeld
<1> QED BY <1>1, <1>13, <1>14, <1>15, <1>17 DEF OfficeInv

\* The count begins a walk or repeats what it found.
LEMMA CountRowsInv == OfficeInv /\ CountRows => OfficeInv'
<1> SUFFICES ASSUME OfficeInv, CountRows PROVE OfficeInv' OBVIOUS
<1> DEFINE n == Min({Cardinality(table), CountCap})
<1>1. /\ desk = "browse" /\ walk.pc \in {"new", "paging"} /\ UNCHANGED <<desk, facts, card, table, instant, sweep>>
      /\ walk' = [Begun EXCEPT !.pc = "counted", !.count = n]
  BY DEF CountRows
<1>2. OfficeTypeOK /\ walk \in Walks /\ table \in SUBSET OfficeRow /\ IsFiniteSet(table)
  BY DEF OfficeInv, OfficeTypeOK
<1>3. Cardinality(table) \in Nat BY <1>2, FS_CardinalityType
<1>4. n \in Nat /\ n <= CountCap /\ (n < CountCap => n = Cardinality(table)) BY <1>3, LesserOf, OfficeNumbers
<1> HIDE DEF n
<1>5. /\ Begun \in Walks /\ Begun.page = walk.page /\ Begun.got = walk.got /\ Begun.twice = walk.twice
      /\ Begun.removed = walk.removed
      /\ walk.pc = "new" => Begun.start = table /\ Begun.arrived = FALSE
      /\ walk.pc # "new" => Begun.start = walk.start /\ Begun.arrived = walk.arrived
  BY <1>2, BegunTyped
<1>6. /\ walk' \in Walks /\ walk'.pc = "counted" /\ walk'.count = n /\ walk'.page = Begun.page
      /\ walk'.got = Begun.got /\ walk'.twice = Begun.twice /\ walk'.removed = Begun.removed
      /\ walk'.start = Begun.start /\ walk'.arrived = Begun.arrived
  BY <1>1, <1>4, <1>5 DEF Walks, WalkPcs
<1>7. OfficeTypeOK' BY <1>1, <1>2, <1>6 DEF OfficeTypeOK
<1>8. RowsHeld'
  <2>1. walk'.start \subseteq table' \cup walk'.removed BY <1>1, <1>5, <1>6 DEF OfficeInv, RowsHeld
  <2> QED BY <2>1, <1>1 DEF OfficeInv, RowsHeld
<1>9. FiguresHeld' BY <1>1, FiguresStay DEF OfficeInv
<1>10. PagesHeld BY <1>1 DEF OfficeInv
<1>11. \A t : Newer(t)' = Newer(t) BY <1>1 DEF Newer
<1>12. PagesHeld'
  <2>1. walk'.page = 1 \/ (walk'.page - 1) * PageSize < CountCap
    BY <1>1, <1>5, <1>6, <1>10 DEF PagesHeld
  <2>2. ~walk'.arrived => table' \subseteq walk'.start
    BY <1>1, <1>5, <1>6, <1>10 DEF PagesHeld
  <2>3. ASSUME ~Disturbed'
        PROVE  /\ ~walk'.twice
               /\ \A t \in table' : t \in walk'.got <=> Cardinality(Newer(t)') < (walk'.page - 1) * PageSize
    <3>1. CASE walk.pc = "new"
      <4>1. walk'.page = 1 /\ walk'.got = {} /\ ~walk'.twice BY <3>1, <1>5, <1>6, <1>10 DEF PagesHeld
      <4>2. (1 - 1) * PageSize = 0 BY OfficeNumbers
      <4>3. ASSUME NEW t \in table PROVE ~(Cardinality(Newer(t)) < 0) BY <1>2, RankBelow
      <4> QED BY <4>1, <4>2, <4>3, <1>1, <1>11
    <3>2. CASE walk.pc # "new"
      <4>1. ~Disturbed BY <2>3, <3>2, <1>1, <1>5, <1>6 DEF Disturbed, Ties
      <4>2. /\ ~walk.twice
            /\ \A t \in table : t \in walk.got <=> Cardinality(Newer(t)) < (walk.page - 1) * PageSize
        BY <4>1, <3>2, <1>10 DEF PagesHeld
      <4> QED BY <4>2, <1>1, <1>5, <1>6, <1>11
    <3> QED BY <3>1, <3>2
  <2>4. walk'.count < CountCap => walk'.count = Cardinality(table') BY <1>1, <1>4, <1>6
  <2> QED BY <2>1, <2>2, <2>3, <2>4, <1>4, <1>6 DEF PagesHeld
<1> QED BY <1>1, <1>7, <1>8, <1>9, <1>12 DEF OfficeInv

\* A page holds the rows of the ranks that follow those shown.
LEMMA BrowsePageInv == OfficeInv /\ BrowsePage => OfficeInv'
<1> SUFFICES ASSUME OfficeInv, BrowsePage PROVE OfficeInv' OBVIOUS
<1> DEFINE offset == (walk.page - 1) * PageSize
           Rows(p) == IF offset < CountCap
                      THEN {p[i] : i \in {k \in DOMAIN p : offset < k /\ k <= offset + PageSize}}
                      ELSE {}
           pc == IF walk.page * PageSize >= walk.count THEN "over" ELSE "paging"
<1>1. desk = "browse" /\ walk.pc = "counted" /\ UNCHANGED <<desk, facts, card, table, instant, sweep>>
  BY DEF BrowsePage
<1>2. PICK p \in Orders :
        walk' = [WithPage(walk, Rows(p)) EXCEPT !.page = @ + 1, !.pc = pc]
  BY DEF BrowsePage
<1>3. OfficeTypeOK /\ walk \in Walks /\ table \in SUBSET OfficeRow /\ IsFiniteSet(table)
  BY DEF OfficeInv, OfficeTypeOK
<1>4. PagesHeld BY <1>1 DEF OfficeInv
<1>5. walk.page \in Nat /\ walk.page >= 1 /\ walk.count \in Nat BY <1>3 DEF Walks
<1>6. offset \in Nat /\ offset < CountCap /\ offset + PageSize = ((walk.page + 1) - 1) * PageSize
      /\ walk.page * PageSize = offset + PageSize
  <2>1. offset + PageSize = ((walk.page + 1) - 1) * PageSize /\ walk.page * PageSize = offset + PageSize
    BY <1>5, OfficeNumbers
  <2>2. offset \in Nat
    <3>1. walk.page - 1 \in Nat BY <1>5
    <3> QED BY <3>1, OfficeNumbers
  <2>3. CASE walk.page = 1
    <3>1. offset = 0 BY <2>3, OfficeNumbers
    <3> QED BY <3>1, <2>1, <2>2, OfficeNumbers
  <2>4. CASE walk.page # 1 BY <2>1, <2>2, <2>4, <1>1, <1>4 DEF PagesHeld
  <2> QED BY <2>3, <2>4
<1> DEFINE rows == Rows(p)
<1>7. rows = {p[i] : i \in {k \in DOMAIN p : offset < k /\ k <= offset + PageSize}} BY <1>6
<1>8. DOMAIN p = 1 .. Cardinality(table) /\ rows \in SUBSET table BY <1>7 DEF Orders
<1> HIDE DEF offset, Rows
<1>9. /\ walk' \in Walks /\ walk'.page = walk.page + 1 /\ walk'.pc = pc
      /\ walk'.got = walk.got \cup rows
      /\ walk'.twice = (walk.twice \/ walk.got \cap rows # {})
      /\ walk'.start = walk.start /\ walk'.removed = walk.removed /\ walk'.arrived = walk.arrived
      /\ walk'.count = walk.count
  <2> DEFINE again == walk.twice \/ walk.got \cap rows # {}
  <2>1. again \in BOOLEAN /\ pc \in WalkPcs BY <1>3 DEF Walks, WalkPcs
  <2>2. rows \in SUBSET OfficeRow /\ walk.page + 1 \in Nat \ {0} BY <1>3, <1>5, <1>8
  <2>3. WithPage(walk, rows) = [walk EXCEPT !.got = walk.got \cup rows, !.twice = again]
    BY DEF WithPage
  <2> HIDE DEF again, rows
  <2>4. walk' = [WithPage(walk, rows) EXCEPT !.page = walk.page + 1, !.pc = pc]
    <3>1. WithPage(walk, rows).page = walk.page BY <2>3, <1>3 DEF Walks
    <3> QED BY <3>1, <1>2 DEF rows
  <2> HIDE DEF pc
  <2>5. /\ walk' \in Walks /\ walk'.page = walk.page + 1 /\ walk'.pc = pc /\ walk'.got = walk.got \cup rows
        /\ walk'.twice = again /\ walk'.start = walk.start /\ walk'.removed = walk.removed
        /\ walk'.arrived = walk.arrived /\ walk'.count = walk.count
    BY <2>1, <2>2, <2>3, <2>4, <1>3 DEF Walks
  <2> QED BY <2>5 DEF again
<1>10. OfficeTypeOK' BY <1>1, <1>3, <1>9 DEF OfficeTypeOK
<1>11. RowsHeld' BY <1>1, <1>9 DEF OfficeInv, RowsHeld
<1>12. FiguresHeld' BY <1>1, FiguresStay DEF OfficeInv
<1>13. pc \in {"over", "paging"} /\ (pc = "over" => walk.page * PageSize >= walk.count)
       /\ (pc = "paging" => walk.page * PageSize < walk.count)
  BY <1>5, <1>6, OfficeNumbers
<1> HIDE DEF pc
<1>14. ASSUME ~Disturbed'
       PROVE  /\ ~walk'.twice
              /\ \A t \in table : t \in walk'.got <=> Cardinality(Newer(t)) < (walk'.page - 1) * PageSize
              /\ walk'.count < CountCap => walk'.count = Cardinality(table)
  <2>1. ~Disturbed /\ ~Ties BY <1>14, <1>1, <1>9 DEF Disturbed, Ties
  <2>2. /\ ~walk.twice
        /\ \A t \in table : t \in walk.got <=> Cardinality(Newer(t)) < offset
        /\ walk.count < CountCap => walk.count = Cardinality(table)
    BY <2>1, <1>1, <1>4 DEF PagesHeld, offset
  <2>3. /\ DOMAIN p = 1 .. Cardinality(table) /\ Cardinality(table) \in Nat
        /\ \A t \in table : \E i \in DOMAIN p : p[i] = t
        /\ \A i \in DOMAIN p : p[i] \in table /\ Cardinality(Newer(p[i])) = i - 1
    BY <2>1, <1>3, PlacesAreRanks
  <2>4. ASSUME NEW t \in table
        PROVE  t \in rows <=> offset <= Cardinality(Newer(t)) /\ Cardinality(Newer(t)) < offset + PageSize
    <3>1. PICK i \in DOMAIN p : p[i] = t BY <2>3
    <3>2. i \in Nat /\ Cardinality(Newer(t)) = i - 1 BY <3>1, <2>3
    <3>3. t \in rows => offset < i /\ i <= offset + PageSize
      <4>1. SUFFICES ASSUME t \in rows PROVE offset < i /\ i <= offset + PageSize OBVIOUS
      <4>2. PICK k \in DOMAIN p : p[k] = t /\ offset < k /\ k <= offset + PageSize BY <4>1, <1>7
      <4>3. k \in Nat /\ k - 1 = i - 1 BY <4>2, <3>2, <2>3
      <4> QED BY <4>2, <4>3, <3>2
    <3>4. offset < i /\ i <= offset + PageSize => t \in rows BY <3>1, <1>7
    <3> QED BY <3>2, <3>3, <3>4, <1>6, OfficeNumbers
  <2>5. walk.got \cap rows = {}
    <3>1. SUFFICES ASSUME NEW t \in walk.got, t \in rows PROVE FALSE OBVIOUS
    <3>2. t \in table BY <3>1, <1>8
    <3>3. Cardinality(Newer(t)) \in Nat BY <3>2, <1>3, RankBelow
    <3> QED BY <3>1, <3>2, <3>3, <2>2, <2>4, <1>6
  <2>6. ASSUME NEW t \in table
        PROVE  t \in walk'.got <=> Cardinality(Newer(t)) < (walk'.page - 1) * PageSize
    <3>1. Cardinality(Newer(t)) \in Nat BY <1>3, RankBelow
    <3>2. (walk'.page - 1) * PageSize = offset + PageSize BY <1>6, <1>9
    <3>3. t \in walk'.got <=> t \in walk.got \/ t \in rows BY <1>9
    <3>4. t \in walk'.got <=> Cardinality(Newer(t)) < offset + PageSize
      BY <3>1, <3>3, <2>2, <2>4, <1>6, OfficeNumbers
    <3> QED BY <3>2, <3>4
  <2>7. ~walk'.twice BY <2>2, <2>5, <1>9
  <2>8. walk'.count < CountCap => walk'.count = Cardinality(table) BY <2>2, <1>9
  <2> QED BY <2>6, <2>7, <2>8
<1>15. \A t : Newer(t)' = Newer(t) BY <1>1 DEF Newer
<1>16. walk'.pc = "over" => (walk'.page - 1) * PageSize >= walk'.count BY <1>6, <1>9, <1>13
<1>17. walk'.pc = "paging" => (walk'.page - 1) * PageSize < CountCap
  <2>1. walk.count <= CountCap BY <1>4 DEF PagesHeld
  <2> QED BY <2>1, <1>5, <1>6, <1>9, <1>13, OfficeNumbers
<1>18. ~walk'.arrived => table' \subseteq walk'.start BY <1>1, <1>4, <1>9 DEF PagesHeld
<1>19. walk'.pc # "new" /\ walk'.pc # "counted" BY <1>9, <1>13
<1>20. PagesHeld' BY <1>1, <1>4, <1>9, <1>14, <1>15, <1>16, <1>17, <1>18, <1>19 DEF PagesHeld
<1> QED BY <1>1, <1>10, <1>11, <1>12, <1>20 DEF OfficeInv

LEMMA OfficeNextInv == OfficeInv /\ [OfficeNext]_officeVars => OfficeInv'
<1> SUFFICES ASSUME OfficeInv, [OfficeNext]_officeVars PROVE OfficeInv' OBVIOUS
<1>1. CASE UNCHANGED officeVars
  <2>1. UNCHANGED <<desk, facts, card, table, instant, walk, sweep>> BY <1>1 DEF officeVars
  <2>2. OfficeTypeOK' /\ RowsHeld' BY <2>1 DEF OfficeInv, OfficeTypeOK, RowsHeld
  <2> QED BY <2>1, <2>2, FiguresStay, WalkStays DEF OfficeInv
<1>2. ASSUME NEW kind \in {"session", "progress", "hint", "message"}, NEW lab \in CardLabs, Leaves(kind, lab)
      PROVE  OfficeInv'
  BY <1>2, LeavesInv
<1> QED BY <1>1, <1>2, AskNextInv, ArriveInv, ClockOnInv, SweepBeginsInv, SweepBatchInv, AuditPageInv,
           CountRowsInv, BrowsePageInv DEF OfficeNext

\* A walk over a table that has shown the ranks up to the count has shown every row.
LEMMA OfficeInvSound == OfficeInv => OfficeSound
<1> SUFFICES ASSUME OfficeInv PROVE OfficeSound OBVIOUS
<1>1. ASSUME desk = "audit" PROVE ~walk.twice /\ (walk.pc = "over" => \A t \in Missed : t.ts \in walk.edges)
  BY <1>1 DEF OfficeInv, AuditHeld
<1>2. ASSUME desk = "browse"
      PROVE  /\ walk.twice => Disturbed
             /\ walk.pc = "over" /\ walk.count < CountCap => Missed = {} \/ Disturbed
  <2>1. PagesHeld BY <1>2 DEF OfficeInv
  <2>2. ASSUME walk.pc = "over", walk.count < CountCap, ~Disturbed, NEW t \in Missed PROVE FALSE
    <3>1. t \in table /\ t \notin walk.got BY <2>2 DEF Missed
    <3>2. /\ Cardinality(Newer(t)) \in Nat /\ Cardinality(table) \in Nat
          /\ Cardinality(Newer(t)) < Cardinality(table)
      BY <3>1, RankBelow DEF OfficeInv, OfficeTypeOK
    <3> DEFINE shown == (walk.page - 1) * PageSize
    <3>3. /\ ~(Cardinality(Newer(t)) < shown) /\ walk.count = Cardinality(table) /\ shown >= walk.count
      BY <2>1, <2>2, <3>1 DEF PagesHeld
    <3>4. walk \in Walks BY DEF OfficeInv, OfficeTypeOK
    <3>5. walk.page \in Nat /\ walk.page - 1 \in Int BY <3>4 DEF Walks
    <3>6. shown \in Int BY <3>5, OfficeNumbers
    <3> HIDE DEF shown
    <3> QED BY <3>2, <3>3, <3>6
  <2> QED BY <2>1, <2>2 DEF PagesHeld
<1>3. /\ desk = "card" =>
           /\ Len(card) >= 5 => card[2] \subseteq card[5]
           /\ Len(card) >= 6 => card[3] \subseteq card[6]
      /\ desk = "overview" /\ Len(card) = 3 /\ card[2] # {} => card[3] # {}
  BY DEF OfficeInv, FiguresHeld
<1>4. sweep # None /\ sweep.done => \A t \in table : t.ts >= sweep.cutoff BY DEF OfficeInv, RowsHeld
<1> QED BY <1>1, <1>2, <1>3, <1>4 DEF OfficeSound

\* Every reachable state keeps what is promised to those who read the back office.
THEOREM OfficeAlwaysSound == OfficeSpec => []OfficeSound
BY OfficeInitInv, OfficeNextInv, OfficeInvSound, PTL DEF OfficeSpec
=============================================================================
