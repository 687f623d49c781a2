---------------------------- MODULE LabProgress ----------------------------
(***************************************************************************)
(* Validation runs of one learner in one lab and the progress they leave   *)
(* (validation/runner.py, service.py, repository.py, progress/service.py), *)
(* next to the request that starts the lab.  The streams of several tabs   *)
(* overlap; one may be cut off by its client, cancelled or lost with the   *)
(* process.                                                                *)
(***************************************************************************)
EXTENDS Absent, Naturals, Sequences, FiniteSets

CONSTANTS
  Runs,         \* executions of the validate endpoint
  Starters,     \* executions of the endpoint that starts the lab
  LabSpec       \* the steps of the lab, each the number of its checks

Rows == [score : Nat, status : {"in_progress", "completed"}]

ASSUME ProgressAssumption ==
  /\ LabSpec \in Seq(Nat) /\ LabSpec # <<>>
  /\ Runs \cap Starters = {} /\ None \notin Runs \cup Starters \cup Seq(Nat) \cup Rows

VARIABLES
  lab,        \* the lab_progress row; None when there is none
  inserting,  \* who has inserted it and not committed yet
  run,        \* the streams: where each is, and what final_steps holds
  stored,     \* the validation_runs rows
  starter,    \* the requests that start the lab
  recorded,   \* the runs whose outcome was committed to the row, with their result
  overlap     \* whether two of them have read the row before either wrote it

progressVars == <<lab, inserting, run, stored, starter, recorded, overlap>>

\* The number of checks that pass, step by step.
Outcome(o) == o \in Seq(Nat) /\ Len(o) <= Len(LabSpec) /\ \A i \in DOMAIN o : o[i] <= LabSpec[i]
Blank == [status |-> "none", steps |-> <<>>]
Idle == [pc |-> "idle", steps |-> <<>>, final |-> <<>>, verdict |-> "failed", read |-> None]

ProgressInit ==
  /\ lab = None /\ inserting = None
  /\ run = [r \in Runs |-> Idle]
  /\ stored = [r \in Runs |-> Blank]
  /\ starter = [s \in Starters |-> "idle"]
  /\ recorded = [r \in Runs |-> None]
  /\ overlap = FALSE

RunAt(r, pc) == run[r].pc = pc
RunTo(r, pc) == run' = [run EXCEPT ![r].pc = pc]

\* score_from_steps: the share of passed checks, here their number, and whether
\* there are steps and all of them passed.
StepOk(steps, i) == steps[i] = LabSpec[i]
AllPassed(steps) == steps # <<>> /\ \A i \in DOMAIN steps : StepOk(steps, i)
PassedChecks(steps) == UNION {{i} \X (1 .. steps[i]) : i \in DOMAIN steps}
Score(steps) == Cardinality(PassedChecks(steps))
-----------------------------------------------------------------------------
(* The stream of a validation run *)

\* The run is stored as running before its first check.
CreateRun(r) ==
  /\ RunAt(r, "idle")
  /\ stored' = [stored EXCEPT ![r].status = "running"]
  /\ RunTo(r, "steps")
  /\ UNCHANGED <<lab, inserting, starter, recorded, overlap>>

\* One step: each of its checks passes, fails, or cannot be made, which counts as
\* failed.  Between the steps the learner works on, so none follows from another.
EvalStep(r) ==
  /\ RunAt(r, "steps") /\ Len(run[r].steps) < Len(LabSpec)
  /\ \E k \in 0 .. LabSpec[Len(run[r].steps) + 1] :
       run' = [run EXCEPT ![r].steps = Append(@, k)]
  /\ UNCHANGED <<lab, inserting, stored, starter, recorded, overlap>>

\* Mutant: what the steps have so far is final from the first one on.
FinishAnytime(r) ==
  /\ RunAt(r, "steps")
  /\ run' = [run EXCEPT ![r].pc = "finish", ![r].final = run[r].steps,
                        ![r].verdict = IF \A i \in DOMAIN run[r].steps : StepOk(run[r].steps, i)
                                       THEN "passed" ELSE "failed"]
  /\ UNCHANGED <<lab, inserting, stored, starter, recorded, overlap>>

\* run.finish: only now are there a verdict and steps to store.
Finish(r) ==
  /\ RunAt(r, "steps") /\ Len(run[r].steps) = Len(LabSpec)
  /\ run' = [run EXCEPT ![r].pc = "finish", ![r].final = run[r].steps,
                        ![r].verdict = IF \A i \in DOMAIN run[r].steps : StepOk(run[r].steps, i)
                                       THEN "passed" ELSE "failed"]
  /\ UNCHANGED <<lab, inserting, stored, starter, recorded, overlap>>

\* The client has gone: the generator is closed, and its finally goes on with
\* what is final, or it is cancelled, or the process dies, and nothing follows.
Cut(r) ==
  /\ run[r].pc \in {"steps", "finish", "read", "write"}
  /\ \/ RunAt(r, "steps") /\ RunTo(r, "finish")
     \/ RunTo(r, "gone")
  /\ UNCHANGED <<lab, inserting, stored, starter, recorded, overlap>>

FinishRun(r) ==
  /\ RunAt(r, "finish")
  /\ stored' = [stored EXCEPT ![r] = [status |-> run[r].verdict, steps |-> run[r].final]]
  /\ RunTo(r, IF run[r].final = <<>> THEN "done" ELSE "read")
  /\ UNCHANGED <<lab, inserting, starter, recorded, overlap>>
-----------------------------------------------------------------------------
(* record_lab_validation *)

Recording(r) == RunAt(r, "write")

ReadProgress(r) ==
  /\ RunAt(r, "read")
  /\ run' = [run EXCEPT ![r].pc = "write", ![r].read = lab]
  /\ overlap' = (overlap \/ \E q \in Runs \ {r} : Recording(q))
  /\ UNCHANGED <<lab, inserting, stored, starter, recorded>>

\* The unit of work writes the columns that differ from what was read.
Best(a, b) == IF a < b THEN b ELSE a
Updated(row, read, steps) ==
  [score |-> IF Best(read.score, Score(steps)) = read.score THEN row.score ELSE Score(steps),
   status |-> IF AllPassed(steps) /\ read.status # "completed" THEN "completed" ELSE row.status]

Update(r) == lab' = Updated(lab, run[r].read, run[r].final)

NewRow(steps) == [score |-> Score(steps), status |-> IF AllPassed(steps) THEN "completed" ELSE "in_progress"]

\* A row that was not there is inserted.  Whoever finds it inserted by now gets
\* an error out of the finally: the run is stored, its progress is not.
WriteProgress(r) ==
  /\ Recording(r)
  /\ \/ /\ run[r].read # None
        /\ Update(r)
        /\ recorded' = [recorded EXCEPT ![r] = run[r].final]
     \/ /\ run[r].read = None /\ lab = None /\ inserting = None
        /\ lab' = NewRow(run[r].final)
        /\ recorded' = [recorded EXCEPT ![r] = run[r].final]
     \/ /\ run[r].read = None /\ lab # None
        /\ UNCHANGED <<lab, recorded>>
  /\ RunTo(r, "done")
  /\ UNCHANGED <<inserting, stored, starter, overlap>>
-----------------------------------------------------------------------------
(* start_lab *)

StarterTo(s, pc) == starter' = [starter EXCEPT ![s] = pc]

StartRead(s) ==
  /\ starter[s] = "idle"
  /\ StarterTo(s, IF lab = None THEN "insert" ELSE "done")
  /\ UNCHANGED <<lab, inserting, run, stored, recorded, overlap>>

\* Flushed here, committed when the request ends.
StartInsert(s) ==
  /\ starter[s] = "insert" /\ inserting = None
  /\ IF lab # None THEN StarterTo(s, "failed") /\ UNCHANGED inserting
     ELSE StarterTo(s, "commit") /\ inserting' = s
  /\ UNCHANGED <<lab, run, stored, recorded, overlap>>

StartCommit(s) ==
  /\ starter[s] = "commit"
  /\ \/ lab' = [score |-> 0, status |-> "in_progress"] /\ StarterTo(s, "done")
     \/ UNCHANGED lab /\ StarterTo(s, "failed")
  /\ inserting' = None
  /\ UNCHANGED <<run, stored, recorded, overlap>>

ProgressNext ==
  \/ \E r \in Runs : \/ CreateRun(r) \/ EvalStep(r) \/ Finish(r) \/ Cut(r) \/ FinishRun(r)
                     \/ ReadProgress(r) \/ WriteProgress(r)
  \/ \E s \in Starters : StartRead(s) \/ StartInsert(s) \/ StartCommit(s)

ProgressSpec == ProgressInit /\ [][ProgressNext]_progressVars
-----------------------------------------------------------------------------
ProgressTypeOK ==
  /\ lab # None => lab.score \in Nat /\ lab.status \in {"in_progress", "completed"}
  /\ inserting \in Starters \cup {None}
  /\ \A r \in Runs : /\ Outcome(run[r].steps) /\ Outcome(run[r].final)
                     /\ stored[r].status \in {"none", "running", "passed", "failed"}

Credited == {r \in Runs : recorded[r] # None}

\* What the instructor's dashboard reads is what the runs have shown, also when
\* streams overlap, are cut or meet the start of the lab: a finished run holds
\* every step or none, and passed only with every check; the lab is completed
\* exactly if a recorded run passed, so a later failure never takes it back; a
\* score was reached by a run, and is the best one unless two overlapped.
ProgressSound ==
  /\ ProgressTypeOK
  /\ \A r \in Runs :
       /\ stored[r].steps # <<>> => Len(stored[r].steps) = Len(LabSpec)
       /\ stored[r].status = "passed" <=> AllPassed(stored[r].steps)
       /\ stored[r].status = "running" => run[r].pc \in {"steps", "finish", "gone"}
       /\ r \in Credited => recorded[r] = stored[r].steps
  /\ lab = None => Credited = {}
  /\ lab # None =>
       /\ lab.status = "completed" <=> \E r \in Credited : AllPassed(recorded[r])
       /\ lab.score \in {0} \cup {Score(recorded[r]) : r \in Credited}
       /\ ~overlap => \A r \in Credited : lab.score >= Score(recorded[r])
=============================================================================
