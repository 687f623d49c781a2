--------------------------- MODULE TransferStudy ---------------------------
(***************************************************************************)
(* What the study learns about a learner: the arm they are drawn into      *)
(* (experiment/assignment.py), the sessions they spend in that arm, their  *)
(* progress on the labs of one skill, the measures taken when a session    *)
(* ends (lifecycle.py, experiment/finalizer.py) and the outcome the cohort *)
(* report derives from all of these (analytics/cohort/service.py).         *)
(***************************************************************************)
EXTENDS Absent, Integers, SequencesExt

CONSTANTS
  Learners,
  Labs,
  SkillOf,         \* skill_tag of each lab, None without one
  StudyPerils,     \* see StudyPerilNames
  MaxSessions, MaxStudyTime     \* bounds

(***************************************************************************)
(* "overlap"    two first reads of a learner's arm at once                 *)
(* "unmeasured" the measures of a session cannot be taken                  *)
(* "unwatched"  a session starts without its monitor                       *)
(***************************************************************************)
StudyPerilNames == {"overlap", "unmeasured", "unwatched"}
Arms == {"open", "closed"}
Progress == [status : {"in_progress", "completed"}, steps : 0 .. 1, started : Nat, completed : Nat \cup {None}]

ASSUME StudyAssumption ==
  /\ StudyPerils \subseteq StudyPerilNames
  /\ MaxSessions \in Nat /\ MaxStudyTime \in Nat
  /\ DOMAIN SkillOf = Labs /\ IsFiniteSet(Labs)
  /\ None \notin Learners \cup Labs \cup Arms \cup Nat \cup BOOLEAN \cup Progress

VARIABLES
  now,
  simulated,   \* the learners whose progress the simulation writes
  userArm,     \* users.control_arm
  studied,     \* learning_sessions, each with the loop that follows it
  progressOf,  \* lab_progress
  measures,    \* experiment_metrics, the oldest first
  drifted      \* learners with two first reads at once

studyVars == <<now, simulated, userArm, studied, progressOf, measures, drifted>>

StudyInit ==
  /\ now = 0 /\ studied = <<>> /\ measures = <<>> /\ drifted = {}
  /\ simulated \in SUBSET Learners
  /\ userArm = [u \in Learners |-> None]
  /\ progressOf = [u \in Learners |-> [l \in Labs |-> None]]

Completed(u, l) == progressOf[u][l] # None /\ progressOf[u][l].status = "completed"
IsL2Session(u, l) ==
  SkillOf[l] # None /\ \E k \in Labs \ {l} : SkillOf[k] = SkillOf[l] /\ Completed(u, k)

OpenSession(i) == studied[i].ended = None
-----------------------------------------------------------------------------
Started(u, l, arm, draws) ==
  [user |-> u, lab |-> l, started |-> now, ended |-> None, arm |-> arm, draws |-> draws]
Drawing(u) == {i \in DOMAIN studied : studied[i].user = u /\ studied[i].draws}
Drifts(u) == drifted' = IF Drawing(u) = {} THEN drifted ELSE drifted \cup {u}

\* A session, and the arm its loop will know: open to a learner who has completed
\* another lab of the skill, else the learner's own, which a first read draws.
\* A simulated student has one session of this kind.
StartSession(u, l) ==
  /\ Len(studied) < MaxSessions
  /\ \A i \in DOMAIN studied : studied[i].user = u =>
       u \notin simulated /\ (studied[i].lab = l => ~OpenSession(i))
  /\ \/ /\ IsL2Session(u, l)
        /\ studied' = Append(studied, Started(u, l, "open", FALSE)) /\ UNCHANGED drifted
     \/ /\ ~IsL2Session(u, l) /\ userArm[u] # None
        /\ studied' = Append(studied, Started(u, l, userArm[u], FALSE)) /\ UNCHANGED drifted
     \/ /\ ~IsL2Session(u, l) /\ userArm[u] = None
        /\ Drawing(u) # {} => "overlap" \in StudyPerils
        /\ \E arm \in Arms : studied' = Append(studied, Started(u, l, arm, TRUE))
        /\ Drifts(u)
     \/ /\ "unwatched" \in StudyPerils
        /\ studied' = Append(studied, Started(u, l, None, FALSE)) /\ UNCHANGED drifted
  /\ UNCHANGED <<now, simulated, userArm, progressOf, measures>>

\* The commit of a draw; it does not look whether another was quicker.
DrawnArm(u, arm) == [userArm EXCEPT ![u] = arm]
ForgetArm(u, arm) == userArm     \* mutant: the draw is not kept
Keep(u, arm) == DrawnArm(u, arm)
CommitArm(i) ==
  /\ studied[i].draws
  /\ userArm' = Keep(studied[i].user, studied[i].arm)
  /\ studied' = [studied EXCEPT ![i].draws = FALSE]
  /\ UNCHANGED <<now, simulated, progressOf, measures, drifted>>

NewProgress == [status |-> "in_progress", steps |-> 0, started |-> now, completed |-> None]
Known(u, l) == IF progressOf[u][l] = None THEN NewProgress ELSE progressOf[u][l]
PassedAll(p) ==
  IF p.status = "completed" THEN p ELSE [p EXCEPT !.status = "completed", !.completed = now]

\* start_lab; and record_lab_validation, which leaves current_step alone.
OpenLab(u, l) ==
  /\ u \notin simulated
  /\ progressOf' = [progressOf EXCEPT ![u][l] = Known(u, l)]
  /\ UNCHANGED <<now, simulated, userArm, studied, measures, drifted>>

ValidateLab(i, allPassed) ==
  LET s == studied[i]
      p == Known(s.user, s.lab)
  IN /\ OpenSession(i) /\ s.user \notin simulated
     /\ progressOf' = [progressOf EXCEPT ![s.user][s.lab] = IF allPassed THEN PassedAll(p) ELSE p]
     /\ UNCHANGED <<now, simulated, userArm, studied, measures, drifted>>

\* What the simulation writes for its student, and the session on the second lab, which
\* it makes without a loop.  One step stands for all of a lab; the times are dated
\* back in the code, and keep their order.
SimulateProgress(i, allSteps) ==
  LET s == studied[i]
      written == IF allSteps THEN [PassedAll(NewProgress) EXCEPT !.steps = 1] ELSE NewProgress
  IN /\ OpenSession(i) /\ s.user \in simulated
     /\ progressOf[s.user][s.lab] = None
     /\ progressOf' = [progressOf EXCEPT ![s.user][s.lab] = written]
     /\ UNCHANGED <<now, simulated, userArm, studied, measures, drifted>>

SimulateSecond(u, l) ==
  /\ Len(studied) < MaxSessions
  /\ u \in simulated /\ progressOf[u][l] = None /\ IsL2Session(u, l)
  /\ \A i \in DOMAIN studied : studied[i].user = u => ~OpenSession(i) /\ studied[i].lab # l
  /\ studied' = Append(studied, Started(u, l, None, FALSE))
  /\ UNCHANGED <<now, simulated, userArm, progressOf, measures, drifted>>

\* compute_session_metrics, of what the properties speak about.
Measured(i, base) ==
  LET s == studied[i]
      p == progressOf[s.user][s.lab]
      done == p # None /\ p.steps >= 1
  IN [session |-> i, user |-> s.user, lab |-> s.lab, base |-> base, completed |-> done,
      pass |-> IF IsL2Session(s.user, s.lab) THEN done ELSE None]

\* The session ends; its measures come in transactions of their own, where the arm
\* is resolved, and drawn for a learner who has none, unless the lab counts as the
\* second of its skill by now.
EndMeasured(i) ==
  LET u == studied[i].user
      draws == ~IsL2Session(u, studied[i].lab) /\ userArm[u] = None
  IN /\ OpenSession(i)
     /\ studied' = [studied EXCEPT ![i].ended = now]
     /\ \/ /\ "unmeasured" \in StudyPerils
           /\ UNCHANGED <<userArm, measures, drifted>>
        \/ \E arm \in IF draws THEN Arms ELSE {userArm[u]} :
             /\ userArm' = IF draws THEN Keep(u, arm) ELSE userArm
             /\ measures' = Append(measures, Measured(i, arm))
             /\ IF draws THEN Drifts(u) ELSE UNCHANGED drifted
     /\ UNCHANGED <<now, simulated, progressOf>>

TimePasses ==
  /\ now < MaxStudyTime
  /\ now' = now + 1
  /\ UNCHANGED <<simulated, userArm, studied, progressOf, measures, drifted>>

StudyNext ==
  \/ \E u \in Learners, l \in Labs : StartSession(u, l) \/ OpenLab(u, l) \/ SimulateSecond(u, l)
  \/ \E i \in DOMAIN studied :
       \/ CommitArm(i) \/ EndMeasured(i)
       \/ \E passed \in BOOLEAN : ValidateLab(i, passed) \/ SimulateProgress(i, passed)
  \/ TimePasses

StudySpec == StudyInit /\ [][StudyNext]_studyVars
-----------------------------------------------------------------------------
(* compute_cohort_metrics, for one learner and one skill *)

LabsOf(u, skill) == {l \in Labs : SkillOf[l] = skill /\ progressOf[u][l] # None}

\* By started_at; labs that started together come in the order of the table.
StartOrders(u, skill) ==
  {o \in SetToSeqs(LabsOf(u, skill)) :
     \A i, j \in DOMAIN o : i < j => progressOf[u][o[i]].started <= progressOf[u][o[j]].started}

\* Of several sessions on a lab the first that was measured counts.
FirstMeasure(u, l) == SelectInSeq(measures, LAMBDA m : m.user = u /\ m.lab = l)

\* observed goes to the last end of a session, else to what is known of the first lab.
ReportOf(u, skill, order) ==
  LET first == progressOf[u][order[1]]
      second == SelectInSeq(Tail(order), LAMBDA l : FirstMeasure(u, l) # 0
                                                  /\ measures[FirstMeasure(u, l)].pass = TRUE)
      reached == second # 0
      at == IF reached THEN progressOf[u][order[second + 1]].completed ELSE None
      mine == {i \in DOMAIN studied : studied[i].user = u /\ SkillOf[studied[i].lab] = skill}
      ends == {studied[i].ended : i \in mine} \ {None}
      lastSeen == IF ends # {} THEN Max(ends)
                  ELSE IF first.completed # None THEN first.completed ELSE first.started
  IN [reached |-> reached,
      l2 |-> IF reached THEN order[second + 1] ELSE None,
      time |-> IF reached THEN at - first.started ELSE None,
      sessions |-> Cardinality({i \in mine : reached => studied[i].started <= at}),
      observed |-> lastSeen - first.started]
-----------------------------------------------------------------------------
\* A learner stays in one arm: unless two first reads of it overlapped, the loops of
\* their sessions and the rows of the experiment agree on it, whichever session drew
\* it and whichever ended first, and a session begun after another lab of the skill
\* was completed has no closed loop ("proactivity suppressed for everyone",
\* assignment.py:90).  What the report says of a learner is possible: the second lab
\* was completed after a first one was begun, in a session it counts, and as another
\* lab of the skill was completed; it is reached by simulated learners only, as nothing
\* else writes the current step that the measures are taken from; and the time of
\* observation is no less than 0, unless all sessions that ended were over before
\* the learner's first lab counts as begun.
StudySound ==
  /\ \A u \in Learners \ drifted :
       /\ \A i \in DOMAIN studied :
            studied[i].user = u /\ studied[i].arm = "closed" /\ ~studied[i].draws => userArm[u] = "closed"
       /\ \A k \in DOMAIN measures :
            measures[k].user = u /\ measures[k].base # None => measures[k].base = userArm[u]
  /\ \A u \in Learners : \A skill \in {SkillOf[l] : l \in Labs} \ {None} :
       \A order \in StartOrders(u, skill) \ {<<>>} :
         LET o == ReportOf(u, skill, order)
         IN /\ o.reached => /\ o.time >= 0 /\ o.sessions > 0 /\ u \in simulated
                            /\ Completed(u, o.l2) /\ IsL2Session(u, o.l2)
            /\ o.observed < 0 =>
                 /\ ~o.reached
                 /\ \A i \in DOMAIN studied : studied[i].user = u /\ SkillOf[studied[i].lab] = skill
                      => OpenSession(i) \/ studied[i].ended < progressOf[u][order[1]].started
=============================================================================
