---------------------------- MODULE StepAttempts ----------------------------
(***************************************************************************)
(* The numbering of one learner's attempts at one lab step                 *)
(* (progress/service.py, record_step_attempt): the next number is read     *)
(* without a lock, a unique index turns a number taken twice into an       *)
(* error, and the loser tries again a bounded number of times.             *)
(***************************************************************************)
EXTENDS Naturals, FiniteSets

CONSTANTS
  Attempters,   \* executions of the endpoint
  Retries       \* _ATTEMPT_RETRIES

ASSUME AttemptAssumption == Retries \in Nat \ {0} /\ IsFiniteSet(Attempters)

VARIABLES
  numbers,      \* attempt_number of the committed rows, and who has written it
  attempt       \* the executions: where each is, the number it has, its failed tries

attemptVars == <<numbers, attempt>>

AttemptPcs == {"idle", "pick", "insert", "commit", "done", "refused", "failed"}

AttemptInit ==
  /\ numbers = {}
  /\ attempt = [a \in Attempters |-> [pc |-> "idle", number |-> 0, tries |-> 0]]

AttemptAt(a, pc) == attempt[a].pc = pc
AttemptTo(a, pc) == attempt' = [attempt EXCEPT ![a].pc = pc]
Taken == {n[2] : n \in numbers}

\* One more than the greatest number, 1 if there is none.
IsNext(k) == (k = 1 \/ k - 1 \in Taken) /\ \A n \in Taken : n < k

Request(a) == AttemptAt(a, "idle") /\ AttemptTo(a, "pick") /\ UNCHANGED numbers

\* The subquery sees what is committed when the statement starts.
Pick(a) ==
  /\ AttemptAt(a, "pick")
  /\ \E k \in 1 .. Cardinality(Attempters) :
       IsNext(k) /\ attempt' = [attempt EXCEPT ![a].pc = "insert", ![a].number = k]
  /\ UNCHANGED numbers

\* The unique index: an insert waits for whoever has inserted the same number,
\* and has not committed yet, and is an error once they have.
Clear(a) == \A b \in Attempters : AttemptAt(b, "commit") => attempt[b].number # attempt[a].number
Unindexed(a) == TRUE     \* mutant: an insert does not see the one that is not committed yet
Insertable(a) == Clear(a)

Flush(a) ==
  /\ AttemptAt(a, "insert") /\ Insertable(a)
  /\ IF attempt[a].number \in Taken
     THEN attempt' = [attempt EXCEPT ![a].pc = IF attempt[a].tries + 1 = Retries THEN "refused" ELSE "pick",
                                     ![a].tries = @ + 1]
     ELSE AttemptTo(a, "commit")
  /\ UNCHANGED numbers

\* The request ends and get_db commits, or it is cut off and rolled back.
Commit(a) ==
  /\ AttemptAt(a, "commit")
  /\ numbers' = numbers \cup {<<a, attempt[a].number>>}
  /\ AttemptTo(a, "done")

RollBack(a) ==
  /\ attempt[a].pc \in {"pick", "insert", "commit"}
  /\ AttemptTo(a, "failed")
  /\ UNCHANGED numbers

AttemptStep(a) == Request(a) \/ Pick(a) \/ Flush(a) \/ Commit(a) \/ RollBack(a)
AttemptNext == \E a \in Attempters : AttemptStep(a)
AttemptSpec == AttemptInit /\ [][AttemptNext]_attemptVars
-----------------------------------------------------------------------------
AttemptTypeOK ==
  /\ numbers \subseteq Attempters \X (Nat \ {0})
  /\ attempt \in [Attempters -> [pc : AttemptPcs, number : Nat, tries : 0 .. Retries]]

\* However many attempts run at once, and wherever one is cut off, the numbers
\* of the stored attempts are 1, 2, 3, ... without a gap or a double, each
\* attempt whose request was answered is stored once, and one is refused only
\* after as many others as it had tries have been stored.
AttemptsNumbered ==
  /\ AttemptTypeOK
  /\ \A m, n \in numbers : m[1] = n[1] \/ m[2] = n[2] => m = n
  /\ \A n \in Taken : n > 1 => n - 1 \in Taken
  /\ \A a \in Attempters : AttemptAt(a, "done") <=> <<a, attempt[a].number>> \in numbers
  /\ \A a \in Attempters : AttemptAt(a, "refused") => \E n \in Taken : n >= Retries
=============================================================================
