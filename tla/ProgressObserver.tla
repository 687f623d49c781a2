-------------------------- MODULE ProgressObserver --------------------------
(* The observer that evaluates a lab's checks again and again and records what *)
(* changed between two snapshots (analytics/runtime/progress_observer.py), for *)
(* a learner who may allow and forbid the recording meanwhile.                 *)
EXTENDS Absent, Consent, FiniteSets, SequencesExt

CONSTANTS LabSteps,      \* the lab's steps: a sequence of sets of checks
          Faults,        \* what a check that is not met may show
          MaxObservers   \* bound on the observers started for the session

VARIABLES prev,      \* _prev_snapshot
          snap,      \* the snapshot being taken: the checks evaluated so far
          obs,       \* where the loop is: "asleep", "checking", "gate", "write", "over"
          currentStep, \* _state: the first failing step, None when all are met
          seenAt,    \* whether last_seen_at of the session was stamped
          recorded,  \* recorded[c]: the last two rows about c since a gap
          started    \* the observers started so far

observerVars == <<answers, prev, snap, obs, currentStep, seenAt, recorded, started>>

Checks == UNION ToSet(LabSteps)
Shown == {"ok", "silent"} \cup Faults

ASSUME ObserverAssumption == /\ LabSteps \in Seq(SUBSET Checks)
                             /\ None \notin [Checks -> Shown]

ObserverInit ==
    /\ ConsentInit
    /\ prev = None /\ snap = <<>>
    /\ obs = "asleep" /\ currentStep = None /\ seenAt = FALSE
    /\ recorded = [c \in Checks |-> <<>>] /\ started = 1

(* _poll_cycle: one check after another, each with its own conversation.  The  *)
(* learner works on meanwhile, so that a check may show anything; when the     *)
(* environment does not answer it is not met, and marked as not observed       *)
(* (runner.py, _check_record).                                                 *)
Awake == /\ obs = "asleep" /\ obs' = "checking" /\ snap' = <<>>
         /\ UNCHANGED <<answers, prev, currentStep, seenAt, recorded, started>>
Deadline == /\ obs = "asleep" /\ obs' = "over"
            /\ UNCHANGED <<answers, prev, snap, currentStep, seenAt, recorded, started>>

Evaluate(c) ==
    /\ obs = "checking" /\ c \notin DOMAIN snap
    /\ \A i, j \in DOMAIN LabSteps :
          c \in LabSteps[j] /\ i < j => LabSteps[i] \subseteq DOMAIN snap
    /\ \E v \in Shown : snap' = [d \in DOMAIN snap \cup {c} |->
                                                IF d = c THEN v ELSE snap[d]]
    /\ UNCHANGED <<answers, prev, obs, currentStep, seenAt, recorded, started>>

Met(s, c) == s[c] = "ok"

(* derive_current_step *)
Failing(s) == {i \in DOMAIN LabSteps : \E c \in LabSteps[i] : ~Met(s, c)}
CurrentStep(s) == IF Failing(s) = {} THEN None
                  ELSE CHOOSE i \in Failing(s) : \A j \in Failing(s) : i <= j

(* diff_snapshots, for one check *)
Event(p, s, c) ==
    CASE p = None -> "none"
      [] p # None /\ ~Met(p, c) /\ Met(s, c) -> "passed"
      [] p # None /\ Met(p, c) /\ ~Met(s, c) -> "regressed"
      [] p # None /\ ~Met(p, c) /\ ~Met(s, c) -> IF p[c] = s[c] THEN "failing" ELSE "retry"
      [] OTHER -> "none"
Eventful == {c \in Checks : Event(prev, snap, c) # "none"}

Snapshot ==
    /\ obs = "checking" /\ DOMAIN snap = Checks
    /\ currentStep' = CurrentStep(snap)
    /\ IF Eventful = {} THEN obs' = "asleep" /\ prev' = snap /\ snap' = <<>> /\ UNCHANGED seenAt
       ELSE obs' = "gate" /\ seenAt' = TRUE /\ UNCHANGED <<prev, snap>>
    /\ UNCHANGED <<answers, recorded, started>>

(* _persist: the gate, then the write, either of which may drop the rows; the  *)
(* snapshot is kept as the previous one all the same.                          *)
GapIn(checks) == recorded' = [c \in Checks |-> IF c \in checks THEN <<>> ELSE recorded[c]]
KeepOld(s) == prev     \* mutant: the previous snapshot is not replaced
Keep(s) == s
Gate ==
    /\ obs = "gate"
    /\ \/ /\ MayCollect /\ obs' = "write" /\ UNCHANGED <<prev, snap, recorded>>
       \/ \* no grant, or the lookup failed
          /\ obs' = "asleep" /\ prev' = Keep(snap) /\ snap' = <<>> /\ GapIn(Eventful)
    /\ UNCHANGED <<answers, currentStep, seenAt, started>>

LastTwo(s) == IF Len(s) <= 2 THEN s ELSE Tail(s)
Write ==
    /\ obs = "write"
    /\ \/ recorded' = [c \in Checks |-> IF c \in Eventful
             THEN LastTwo(Append(recorded[c], Event(prev, snap, c))) ELSE recorded[c]]
       \/ GapIn(Eventful)
    /\ prev' = Keep(snap) /\ snap' = <<>> /\ obs' = "asleep"
    /\ UNCHANGED <<answers, currentStep, seenAt, started>>

(* A cycle that raises before its snapshot is whole changes nothing.           *)
CycleFails ==
    /\ obs = "checking" /\ obs' = "asleep" /\ snap' = <<>>
    /\ UNCHANGED <<answers, prev, currentStep, seenAt, recorded, started>>

Restarts ==
    /\ started < MaxObservers /\ started' = started + 1
    /\ prev' = None /\ snap' = <<>> /\ obs' = "asleep" /\ currentStep' = None
    /\ GapIn(Checks)
    /\ UNCHANGED <<answers, seenAt>>

ObserverNext ==
    \/ Awake \/ Deadline \/ (\E c \in Checks : Evaluate(c)) \/ Snapshot \/ Gate \/ Write
    \/ CycleFails \/ Restarts
    \/ /\ ConsentStep
       /\ UNCHANGED <<prev, snap, obs, currentStep, seenAt, recorded, started>>

ObserverSpec == ObserverInit /\ [][ObserverNext]_observerVars
-----------------------------------------------------------------------------
ObserverTypeOK ==
    /\ prev = None \/ prev \in [Checks -> Shown]
    /\ DOMAIN snap \subseteq Checks
    /\ currentStep \in DOMAIN LabSteps \cup {None}
    /\ \A c \in Checks : Len(recorded[c]) <= 2

(* The rows tell the story of each check: between two gaps (a refusal, a lost  *)
(* write, a restart) a check passes only after it was not met and regresses    *)
(* only after it passed, its failures lie in between, and the last row agrees  *)
(* with the snapshot the next one is compared with (progress_observer.py:42,   *)
(* 190-232).  A learner who allows the recording always has a consent that     *)
(* opens the seam, although the two are read from the rows by different rules  *)
(* (consent.py:22, 46).                                                        *)
StoryHolds ==
    /\ ObserverTypeOK
    /\ \A c \in Checks : Len(recorded[c]) = 2 =>
          (recorded[c][1] = "passed") = (recorded[c][2] = "regressed")
    /\ obs \in {"asleep", "checking"} => \A c \in Checks : recorded[c] # <<>> =>
          Met(prev, c) = (Last(recorded[c]) = "passed")
    /\ MayCollect => HasConsent("observe") /\ HasConsent("act")
=============================================================================
