---------------------------- MODULE AccountAccess ----------------------------
(***************************************************************************)
(* The accounts and the tokens that speak for them (auth/, users/, the     *)
(* user endpoints of admin/): registration, the GitHub callback, the       *)
(* activation, the exchange of a login for a token whose claims are        *)
(* believed while it lives, an administrator's changes, and the erasure.   *)
(***************************************************************************)
EXTENDS Absent, Naturals, FiniteSets

CONSTANTS
  Emails,       \* of the people
  FirstAdmins,  \* those who may begin as administrators
  Hits,         \* requests that take more than one step
  TokenLife,    \* TOKEN_EXPIRE_MINUTES, in ticks
  MaxAsked      \* bound: requests other than exchanges

Roles == {"student", "instructor", "admin"}
Accounts == [id : Nat, role : Roles, active : BOOLEAN, links : Nat]

ASSUME AccountAssumption ==
  /\ FirstAdmins \subseteq Emails /\ TokenLife \in Nat \ {0}
  /\ MaxAsked \in Nat /\ IsFiniteSet(FirstAdmins)
  /\ None \notin Nat \cup Accounts

VARIABLES
  account,   \* the users row of each email: None, or its id, role, activation
             \* and number of github links
  enrolled,  \* the ids in study_participants
  token,     \* the backend token each person presents: None, or its claims and age
  hit,       \* the requests
  lapsed,    \* ticks since the account last was an administrator's, or active
  created,   \* accounts ever created
  asked,     \* requests so far
  story      \* what explains the states that nobody wants

accountVars == <<account, enrolled, token, hit, lapsed, created, asked, story>>

Long == TokenLife    \* and longer
Rights == {"admin", "active"}
Row(id, role, active, links) == [id |-> id, role |-> role, active |-> active, links |-> links]
NoHit == [pc |-> "none", who |-> None, by |-> None, id |-> None, links |-> 0, change |-> None]
Known(e) == account[e] # None
IdOf(e) == IF Known(e) THEN account[e].id ELSE None
Admins == {e \in Emails : account[e] # None /\ account[e].role = "admin"}

AccountInit ==
  /\ \E admins \in SUBSET FirstAdmins, number \in [Emails -> 0 .. Cardinality(FirstAdmins)] :
       /\ \A e \in Emails : number[e] = 0 <=> e \notin admins
       /\ \A d, e \in admins : number[d] = number[e] => d = e
       /\ \A e \in admins : number[e] <= Cardinality(admins)
       /\ account = [e \in Emails |-> IF e \in admins THEN Row(number[e], "admin", TRUE, 0) ELSE None]
       /\ story = IF admins = {} THEN {"administrator lost"} ELSE {}
       /\ enrolled = 1 .. Cardinality(admins) /\ created = Cardinality(admins)
       /\ lapsed = [e \in Emails |-> [right \in Rights |-> IF e \in admins THEN 0 ELSE Long]]
  /\ asked = 0 /\ token = [e \in Emails |-> None] /\ hit = [h \in Hits |-> NoHit]

Has(row, right) == row # None /\ IF right = "admin" THEN row.role = "admin" ELSE row.active
Asks == asked < MaxAsked /\ asked' = asked + 1
HitAt(h, pc) == hit[h].pc = pc
Put(e, row) ==
  /\ account' = [account EXCEPT ![e] = row]
  /\ lapsed' = [lapsed EXCEPT ![e] = [right \in Rights |->
                  IF Has(row, right) \/ Has(account[e], right) THEN 0 ELSE @[right]]]
Over(h) == hit' = [hit EXCEPT ![h] = NoHit]
Happened(what, if) == story' = IF if THEN story \cup {what} ELSE story
-----------------------------------------------------------------------------
(* Accounts come into being *)

NewAccount(e, links) ==
  /\ created' = created + 1
  /\ Put(e, Row(created + 1, "student", FALSE, links))
  /\ enrolled' = enrolled \cup {created + 1}

\* The email is looked up, then the password is hashed in another thread.
Register(h, e) ==
  /\ Asks
  /\ HitAt(h, "none") /\ ~Known(e)
  /\ hit' = [hit EXCEPT ![h] = [NoHit EXCEPT !.pc = "hashing", !.who = e]]
  /\ UNCHANGED <<account, enrolled, token, lapsed, created, story>>

\* The unique email refuses the row if somebody was faster.
CreateUser(h) ==
  /\ HitAt(h, "hashing")
  /\ IF ~Known(hit[h].who) THEN NewAccount(hit[h].who, 0)
     ELSE UNCHANGED <<account, lapsed, enrolled, created>>
  /\ Over(h)
  /\ UNCHANGED <<asked, token, story>>

\* The row is read with its links, and what follows is committed with the request.
GithubCallback(h, e) ==
  /\ Asks
  /\ HitAt(h, "none")
  /\ hit' = [hit EXCEPT ![h] = [NoHit EXCEPT !.pc = "linking", !.who = e, !.id = IdOf(e),
                 !.links = IF Known(e) THEN account[e].links ELSE 0]]
  /\ Happened("callbacks overlapped", \E g \in Hits : HitAt(g, "linking") /\ hit[g].who = e)
  /\ UNCHANGED <<account, enrolled, token, lapsed, created>>

NewLinks(links) == IF links = 0 THEN 1 ELSE 0

\* A constraint refuses it if the account has come, or gone, meanwhile.
UpsertGithubUser(h) ==
  /\ HitAt(h, "linking")
  /\ LET e == hit[h].who
     IN IF hit[h].id # IdOf(e) THEN UNCHANGED <<account, lapsed, enrolled, created>>
        ELSE IF Known(e) THEN /\ Put(e, [account[e] EXCEPT !.links = @ + NewLinks(hit[h].links)])
                              /\ UNCHANGED <<enrolled, created>>
        ELSE NewAccount(e, 1)
  /\ Over(h)
  /\ UNCHANGED <<asked, token, story>>

Activate(e) ==
  /\ Asks
  /\ Known(e) /\ Put(e, [account[e] EXCEPT !.active = TRUE])
  /\ UNCHANGED <<enrolled, token, hit, created, story>>
-----------------------------------------------------------------------------
(* Tokens *)

\* The claims are those of the row at this moment.
Exchange(e) ==
  /\ Known(e)
  /\ token' = [token EXCEPT ![e] =
                 [id |-> account[e].id, role |-> account[e].role, active |-> account[e].active, age |-> 0]]
  /\ UNCHANGED <<account, enrolled, hit, lapsed, created, asked, story>>

Verified(e) == token[e] # None /\ token[e].age < TokenLife

\* require_admin believes the claim; require_active_user does if it says active, and
\* reads the row of the token otherwise.
RequireAdmin(e) == Verified(e) /\ token[e].role = "admin"
ClaimOnly(e) == Verified(e) /\ token[e].active     \* mutant: the row is not read
RequireActiveUser(e) ==
  Verified(e) /\ (token[e].active \/ (IdOf(e) = token[e].id /\ account[e].active))
-----------------------------------------------------------------------------
(* An administrator's requests *)

Changes == [field : {"role"}, to : Roles] \cup [field : {"active"}, to : BOOLEAN]

\* require_admin believes the claim.  The row of the target is read; nobody changes
\* their own role.
UpdateUser(h, e, target, change) ==
  /\ Asks
  /\ HitAt(h, "none") /\ RequireAdmin(e) /\ Known(target)
  /\ ~(change.field = "role" /\ account[target].id = token[e].id)
  /\ hit' = [hit EXCEPT ![h] = [NoHit EXCEPT !.pc = "updating", !.who = target, !.by = token[e].id,
       !.id = IdOf(target), !.change = IF account[target][change.field] # change.to THEN change ELSE None]]
  /\ UNCHANGED <<account, enrolled, token, lapsed, created, story>>

\* What differs from the row as it was read is written, if the row is still there.
CommitUpdate(h) ==
  /\ HitAt(h, "updating")
  /\ LET e == hit[h].who
         change == hit[h].change
     IN IF hit[h].id = IdOf(e) /\ change # None
        THEN Put(e, [account[e] EXCEPT ![change.field] = change.to]) ELSE UNCHANGED <<account, lapsed>>
  /\ Happened("administrator lost", \A d \in Admins : account[d].id # hit[h].by)
  /\ Over(h)
  /\ UNCHANGED <<asked, enrolled, token, created>>

\* erase_subject, asked for by the learner or by an administrator.
Erase(e, by) ==
  /\ Asks
  /\ Known(e)
  /\ RequireAdmin(by) \/ (Verified(by) /\ token[by].id = IdOf(e))
  /\ Put(e, None) /\ enrolled' = enrolled \ {account[e].id}
  /\ Happened("administrator lost", e \in Admins)
  /\ UNCHANGED <<token, hit, created>>

Minute ==
  /\ token' = [e \in Emails |-> IF Verified(e) THEN [token[e] EXCEPT !.age = @ + 1] ELSE None]
  /\ lapsed' = [e \in Emails |-> [right \in Rights |->
       IF Has(account[e], right) THEN 0 ELSE IF lapsed[e][right] < Long THEN lapsed[e][right] + 1 ELSE Long]]
  /\ UNCHANGED <<account, enrolled, hit, created, asked, story>>

AccountNext ==
  \/ \E h \in Hits, e \in Emails : Register(h, e) \/ GithubCallback(h, e)
  \/ \E h \in Hits : CreateUser(h) \/ UpsertGithubUser(h) \/ CommitUpdate(h)
  \/ \E h \in Hits, e, target \in Emails, change \in Changes : UpdateUser(h, e, target, change)
  \/ \E e \in Emails : Activate(e) \/ Exchange(e)
  \/ \E e, by \in Emails : Erase(e, by)
  \/ Minute

AccountSpec == AccountInit /\ [][AccountNext]_accountVars
-----------------------------------------------------------------------------
\* Whoever is let in, as an active user or as an administrator, is one, or was one not
\* longer ago than a token lives; and nobody with an active account is turned away,
\* whatever the token says.  Every account has its pseudonym and no pseudonym is left
\* behind.  An account has one link to GitHub unless two callbacks overlapped, and an
\* administrator remains unless one was erased, or one who was demoted went on with a
\* request or with a token (dependencies.py:149, service.py:105, admin/router.py:156).
AccessSound ==
  /\ \A e \in Emails :
       /\ RequireActiveUser(e) => lapsed[e].active < TokenLife
       /\ RequireAdmin(e) => lapsed[e].admin < TokenLife
       /\ Verified(e) /\ IdOf(e) = token[e].id /\ account[e].active => RequireActiveUser(e)
       /\ Known(e) /\ "callbacks overlapped" \notin story => account[e].links <= 1
  /\ enrolled = {account[e].id : e \in {d \in Emails : Known(d)}}
  /\ "administrator lost" \in story \/ Admins # {}
=============================================================================
