----------------------------- MODULE SimCohort -----------------------------
(***************************************************************************)
(* The simulated cohort (simulation/): students that run side by side      *)
(* against the live stack, each through a slot of the queue, a session, a  *)
(* policy that acts from a latent mode, and the end of a first and a       *)
(* second lab; next to real learners who use the same slots.               *)
(***************************************************************************)
EXTENDS Absent, Integers, SequencesExt

CONSTANTS
  Students,         \* 1 .. n
  Concurrency,      \* --concurrency
  SlotCap,          \* slots of the first lab
  SlotTries,        \* _QUEUE_ACQUIRE_TRIES
  StepsToDo,        \* total_steps of the policy
  WindowsPerStep,   \* productive windows that make a step: 3, of 0.34 each
  MaxWindows,       \* --max-steps
  Tasks,            \* the commands that the spec of the lab asks for: their number
  Offsets,          \* where the traits make a student begin in _ASK_STAGES
  HasPair,          \* whether another lab of the skill is enabled
  MaxOthers         \* bound: sessions of real learners

ASSUME SimAssumption ==
  /\ Students \subseteq Nat /\ IsFiniteSet(Students)
  /\ {Concurrency, SlotCap, SlotTries, StepsToDo, WindowsPerStep} \subseteq Nat \ {0}
  /\ {MaxWindows, Tasks, MaxOthers} \cup Offsets \subseteq Nat /\ HasPair \in BOOLEAN

VARIABLES
  student,   \* the coroutine of each student
  used,      \* the counters of the queue: of either lab, and of both
  others,    \* the sessions of real learners on either lab
  truth,     \* regime_annotations of the first session, without their numbers
  talk       \* its chat_messages

simVars == <<student, used, others, truth, talk>>

Phrases == 5     \* _ASK_STAGES
SimLabs == {"first", "second"}
PairsOf(systematic) ==
  IF systematic THEN {"stuck_on_step", "idle"} ELSE {"trial_and_error", "repeating_errors"}

(***************************************************************************)
(* tries   for a slot                first, second   the two sessions      *)
(* slot    whether it holds one      watched   whether a monitor polls     *)
(* mode, step, made   the latent state: the regime, steps and windows made *)
(* systematic, offset   of the traits     typed   the last command: the    *)
(* asked   requests for help                      node, and whether right  *)
(* tasks   commands that were right       passed  what was measured        *)
(***************************************************************************)
NewStudent(systematic, offset) ==
  [pc |-> "out", tries |-> 0, slot |-> FALSE, first |-> "none", second |-> "none",
   watched |-> FALSE, mode |-> "productive", step |-> 0, made |-> 0, action |-> "none",
   systematic |-> systematic, offset |-> offset, typed |-> None, asked |-> 0, tasks |-> 0,
   progress |-> None, passed |-> [lab \in SimLabs |-> None]]

SimInit ==
  /\ student \in [Students -> {NewStudent(s, o) : s \in BOOLEAN, o \in Offsets}]
  /\ used = [first |-> 0, second |-> 0, total |-> 0]
  /\ others = [lab \in SimLabs |-> 0]
  /\ truth = [u \in Students |-> <<>>] /\ talk = [u \in Students |-> <<>>]

At(u, pc) == student[u].pc = pc
Inside == {u \in Students : student[u].pc \notin {"out", "reported", "failed"}}

\* A coroutine that is over leaves its rows, its slot and its monitor behind.
Over(s, pc) == [NewStudent(FALSE, s.offset) EXCEPT !.pc = pc, !.slot = s.slot, !.first = s.first,
                !.second = s.second, !.watched = s.watched, !.passed = s.passed]
Ends(u, s, pc) ==
  student' = [student EXCEPT ![u] = IF pc \in {"reported", "failed"} THEN Over(s, pc) ELSE [s EXCEPT !.pc = pc]]
Fails(u) == Ends(u, student[u], "failed")

\* try_acquire and release of the queue (SessionQueue) without its waiting list.
Taken1(lab) == [used EXCEPT ![lab] = @ + 1, !.total = @ + 1]
Given(lab) == [used EXCEPT ![lab] = Max({@ - 1, 0}), !.total = Max({@ - 1, 0})]
-----------------------------------------------------------------------------
(* provision *)

\* The semaphore lets them in in their order.  The row of the user may exist, when a
\* seed is used again.
EnterCohort(u) ==
  /\ At(u, "out") /\ Cardinality(Inside) < Concurrency
  /\ \A v \in Students : v < u => ~At(v, "out")
  /\ \E pc \in {"asking", "failed"} : Ends(u, student[u], pc)
  /\ UNCHANGED <<used, others, truth, talk>>

AskSlot(u) ==
  /\ At(u, "asking")
  /\ IF used.first < SlotCap
     THEN /\ student' = [student EXCEPT ![u].pc = "launching", ![u].slot = TRUE]
          /\ used' = Taken1("first")
     ELSE /\ LET tries == student[u].tries + 1
             IN Ends(u, [student[u] EXCEPT !.tries = tries], IF tries = SlotTries THEN "failed" ELSE "asking")
          /\ UNCHANGED used
  /\ UNCHANGED <<others, truth, talk>>

\* A launch that fails gives the slot back, also when the session is there and only
\* its ticket is not.  A student who is new has no session to be resumed.
GiveUp == Given("first")
KeepSlot == used     \* mutant: the slot is not given back
AfterFailure == GiveUp
LaunchFirst(u) ==
  /\ At(u, "launching")
  /\ \/ /\ student' = [student EXCEPT ![u].pc = "attaching", ![u].first = "open"]
        /\ UNCHANGED used
     \/ \E row \in {"none", "open"} :
          /\ Ends(u, [student[u] EXCEPT !.slot = FALSE, !.first = row], "failed")
          /\ used' = AfterFailure
  /\ UNCHANGED <<others, truth, talk>>

\* The monitor is started, then the nodes, and the consoles are looked up.
Attach(u) ==
  /\ At(u, "attaching")
  /\ \/ Fails(u)
     \/ \E pc \in {"acting", "failed"} : Ends(u, [student[u] EXCEPT !.watched = TRUE], pc)
  /\ UNCHANGED <<used, others, truth, talk>>
-----------------------------------------------------------------------------
(* The policy, and what the actor does with its actions *)

\* How the mode moves; its probabilities, and the frustration that weighs on them,
\* leave every one of these possible.
NextModes(s) ==
  IF s.mode = "productive" THEN {"productive"} \cup PairsOf(s.systematic)
  ELSE {s.mode, "productive", "idle"}

ActionsIn(mode) ==
  CASE mode = "repeating_errors" -> {"ask_help", "repeat_error"}
    [] mode = "trial_and_error" -> {"ask_help", "wrong_cmd"}
    [] mode = "idle" -> {"ask_help", "idle"}
    [] OTHER -> {"ask_help", "wrong_cmd", "idle"}

\* In a productive window there is progress; with the last step done the student
\* submits, and does not type that window's command.
Productive1(s) ==
  LET stepped == s.made + 1 = WindowsPerStep
      step == IF stepped THEN s.step + 1 ELSE s.step
  IN [s EXCEPT !.pc = "doing", !.mode = "productive", !.step = step,
               !.made = IF stepped THEN 0 ELSE s.made + 1,
               !.action = IF step >= StepsToDo THEN "submit" ELSE "correct_cmd"]

NextWindow(u) ==
  /\ At(u, "acting") /\ Len(truth[u]) < MaxWindows /\ student[u].step < StepsToDo
  /\ \E mode \in NextModes(student[u]) :
       IF mode = "productive"
       THEN student' = [student EXCEPT ![u] = Productive1(student[u])]
       ELSE \E action \in ActionsIn(mode) :
              student' = [student EXCEPT ![u].pc = "doing", ![u].mode = mode, ![u].action = action]
  /\ UNCHANGED <<used, others, truth, talk>>

\* What was typed, and where; a right command moves on to the next node.  Whether
\* the console could be reached makes no difference here.
NodeNow(s) == s.tasks % Tasks
Configure(u) ==
  /\ At(u, "doing") /\ student[u].action \in {"correct_cmd", "wrong_cmd", "repeat_error"}
  /\ LET s == student[u]
         right == s.action = "correct_cmd"
     IN student' = [student EXCEPT ![u] = IF Tasks = 0 THEN [s EXCEPT !.pc = "done"]
                      ELSE [s EXCEPT !.pc = "done", !.typed = <<NodeNow(s), right>>,
                                     !.tasks = IF right THEN s.tasks + 1 ELSE s.tasks]]
  /\ UNCHANGED <<used, others, truth, talk>>

\* The phrases follow each other; the second one quotes a command, and without one
\* the text is that of the first.
Phrase(s) ==
  LET stage == (s.offset + s.asked) % Phrases
  IN IF stage = 1 /\ s.typed = None THEN 0 ELSE stage
NodeMeant(s) == IF s.typed # None THEN s.typed[1] ELSE IF Tasks = 0 THEN None ELSE NodeNow(s)
Question(s) ==
  [role |-> "user", phrase |-> Phrase(s), node |-> NodeMeant(s), attempt |-> s.asked, tried |-> s.typed]

\* The question is saved, then the answer: the model's or, without one, that of its stage.
AskHelp(u) ==
  /\ At(u, "doing") /\ student[u].action = "ask_help"
  /\ student' = [student EXCEPT ![u].pc = "asked", ![u].asked = @ + 1]
  /\ talk' = [talk EXCEPT ![u] = Append(@, Question(student[u]))]
  /\ UNCHANGED <<used, others, truth>>

TutorReplies(u) ==
  /\ At(u, "asked")
  /\ \/ /\ student' = [student EXCEPT ![u].pc = "done"]
        /\ talk' = [talk EXCEPT ![u] = Append(@, [role |-> "assistant", stage |-> Min({Last(@).attempt, 3})])]
     \/ Fails(u) /\ UNCHANGED talk
  /\ UNCHANGED <<used, others, truth>>

\* The window's regime is recorded once its action is over; a pause and the
\* submission are nothing else.
RecordTruth(u) ==
  /\ At(u, "done") \/ (At(u, "doing") /\ student[u].action \in {"idle", "submit"})
  /\ \/ /\ truth' = [truth EXCEPT ![u] = Append(@, student[u].mode)]
        /\ student' = [student EXCEPT ![u].pc = "acting", ![u].action = "none"]
     \/ Fails(u) /\ UNCHANGED truth
  /\ UNCHANGED <<used, others, talk>>
-----------------------------------------------------------------------------
(* finalize *)

\* The progress on the first lab is written; most students complete it.
WriteFirst(u) ==
  /\ At(u, "acting") /\ (Len(truth[u]) = MaxWindows \/ student[u].step >= StepsToDo)
  /\ \E completed \in BOOLEAN :
       student' = [student EXCEPT ![u].pc = "ending", ![u].progress = completed]
  /\ UNCHANGED <<used, others, truth, talk>>

\* end_lab: the monitor stops, the row ends, is measured and gives its slot back.
EndFirst(u) ==
  /\ At(u, "ending")
  /\ Ends(u, [student[u] EXCEPT !.watched = FALSE, !.first = "ended", !.slot = FALSE,
                                 !.passed["first"] = student[u].progress],
           IF student[u].progress /\ HasPair THEN "second" ELSE "reported")
  /\ used' = Given("first")
  /\ UNCHANGED <<others, truth, talk>>

\* The second lab: a row without a project, a monitor and a slot, and its progress.
OpenSecond(u) ==
  /\ At(u, "second")
  /\ \E completed \in BOOLEAN, pc \in {"closing", "failed"} :
       Ends(u, [student[u] EXCEPT !.second = "open", !.progress = completed], pc)
  /\ UNCHANGED <<used, others, truth, talk>>

\* end_session, which ends any row in the same way: the slot of the lab is released.
EndSecond(u) ==
  /\ At(u, "closing")
  /\ Ends(u, [student[u] EXCEPT !.second = "ended", !.passed["second"] = student[u].progress], "reported")
  /\ used' = Given("second")
  /\ UNCHANGED <<others, truth, talk>>

\* When every student is through, the monitors that are left are stopped.
StopCohort ==
  /\ \A u \in Students : student[u].pc \in {"reported", "failed"}
  /\ \E u \in Students : student[u].watched
  /\ student' = [u \in Students |-> [student[u] EXCEPT !.watched = FALSE]]
  /\ UNCHANGED <<used, others, truth, talk>>

\* Real learners start and end sessions on both labs.
OtherStarts(lab) ==
  /\ others[lab] < MaxOthers /\ (lab = "first" => used.first < SlotCap)
  /\ others' = [others EXCEPT ![lab] = @ + 1] /\ used' = Taken1(lab)
  /\ UNCHANGED <<student, truth, talk>>
OtherEnds(lab) ==
  /\ others[lab] > 0
  /\ others' = [others EXCEPT ![lab] = @ - 1] /\ used' = Given(lab)
  /\ UNCHANGED <<student, truth, talk>>

SimNext ==
  \/ \E u \in Students :
       \/ EnterCohort(u) \/ AskSlot(u) \/ LaunchFirst(u) \/ Attach(u) \/ NextWindow(u)
       \/ Configure(u) \/ AskHelp(u) \/ TutorReplies(u) \/ RecordTruth(u) \/ WriteFirst(u)
       \/ EndFirst(u) \/ OpenSecond(u) \/ EndSecond(u)
  \/ StopCohort
  \/ \E lab \in SimLabs : OtherStarts(lab) \/ OtherEnds(lab)

SimSpec == SimInit /\ [][SimNext]_simVars
-----------------------------------------------------------------------------
Holding == {u \in Students : student[u].slot}
ProductiveWindows(u) == Cardinality({i \in DOMAIN truth[u] : truth[u][i] = "productive"})
IsRequest(row) == row.role = "user"
\* One request and the next of a dialogue.
InARow(rows, i, j) ==
  i < j /\ IsRequest(rows[i]) /\ IsRequest(rows[j]) /\ \A k \in i + 1 .. j - 1 : ~IsRequest(rows[k])

\* A cohort leaves the stack as it found it and tells the truth about itself.  The
\* slots of the first lab are those of its open sessions and of launches under way,
\* whatever fails and in whichever order; a session without its slot or its monitor
\* is one of a student who failed.  A student reported as completed has ended what
\* it began, and has come to a second lab only through a first one that was measured
\* as completed.  The recorded regimes account for the progress that was made, and
\* in the dialogue requests are answered in turn and do not repeat ("no identical
\* messages back to back", help_text.py:49), but for a student who has not yet
\* typed anything.
SimSound ==
  /\ Cardinality(Inside) <= Concurrency
  /\ used.first = Cardinality(Holding) + others["first"]
  /\ \A u \in Students :
       LET s == student[u]
           rows == talk[u]
       IN /\ s.slot => s.first = "open" \/ At(u, "launching")
          /\ s.first = "open" /\ ~At(u, "failed") => s.slot /\ (s.watched \/ At(u, "attaching"))
          /\ s.second # "none" => HasPair /\ s.first = "ended" /\ s.passed["first"]
          /\ At(u, "reported") =>
               /\ s.first = "ended" /\ s.second # "open" /\ ~s.watched
               /\ \A i \in DOMAIN rows : rows[i].role = IF i % 2 = 1 THEN "user" ELSE "assistant"
          /\ At(u, "acting") => s.step * WindowsPerStep + s.made = ProductiveWindows(u)
          /\ \A i, j \in DOMAIN rows :
               InARow(rows, i, j) /\ <<rows[i].phrase, rows[i].node>> = <<rows[j].phrase, rows[j].node>>
                 => rows[j].tried = None

\* "L2 has no GNS3, monitor or slot, so it closes through `end_session` and only
\* records measurements" (run.py:180): the slots counted for both labs together are
\* those of the open sessions that took one.
SlotsCovered == used.total = Cardinality(Holding) + others["first"] + others["second"]
=============================================================================
