--------------------------- MODULE StruggleWindow ---------------------------
(***************************************************************************)
(* What the analysis makes of a session's events: the features of the      *)
(* window (analytics/runtime/features.py) and the rules that name a        *)
(* struggle (agents/identifier/agent.py).  The operators work on the whole *)
(* window, as the code does; the variables beside it follow the learner    *)
(* event by event, and say what the operators should find.                 *)
(***************************************************************************)
EXTENDS Absent, Integers, FiniteSetsExt, SequencesExt

CONSTANTS
  Components,       \* nodes; each has one check
  Details,          \* messages of errors and actual values of checks
  IdleGap, RateWindow, MinWindows,     \* the parameters of the features
  RepeatThreshold, ActualsThreshold, UnchangedThreshold, IdleThreshold, IdleForStuck,
  LatencyFloor,     \* min_latency_floor
  WithheldGap,      \* cooldown_period
  MaxEvents, MaxClock     \* bounds

ASSUME WindowAssumption ==
  /\ {IdleGap, MinWindows, RepeatThreshold, ActualsThreshold, UnchangedThreshold, IdleThreshold,
      IdleForStuck, LatencyFloor, WithheldGap, MaxEvents, MaxClock} \subseteq Nat
  /\ RateWindow \in Nat \ {0}
  /\ None \notin Components \cup Details \cup Nat

VARIABLES
  window,      \* the events of behavioral_events but the interventions, by time
  clock,
  streak,      \* the identical errors since the last passed check: <<message, how many>>
  unchanged,   \* the failing polls without a change up to now: <<component, how many>>
  movedAt,     \* when the last change of component was
  silences,    \* how long the learner has been silent, each time
  actedAt,     \* when the learner last did something
  withheldAt   \* when the loop last recorded an intervention it withheld

windowVars == <<window, clock, streak, unchanged, movedAt, silences, actedAt, withheldAt>>

WindowInit ==
  /\ window = <<>> /\ clock = 0
  /\ streak = <<None, 0>> /\ unchanged = <<None, 0>>
  /\ movedAt = 0 /\ silences = <<>> /\ actedAt = None /\ withheldAt = None
-----------------------------------------------------------------------------
(* The features *)

Heartbeat == {"check_passed", "check_regressed", "check_failing", "check_retry"}
IsErrorKind(kind) == kind \in {"error", "check_regressed", "check_failing", "check_retry"}

Students(w) == {i \in DOMAIN w : w[i].action \notin Heartbeat}

\* The gap from an event of the learner to the next one, or up to now.
Latency(w, i) ==
  LET later == {j \in Students(w) : j > i}
  IN (IF later = {} THEN clock ELSE w[Min(later)].at) - w[i].at

IdlePeriods(w) == Cardinality({i \in Students(w) : Latency(w, i) > IdleGap})

\* The events from which on, up to the last of them, all are the same.
Trailing(w, events, Same(_, _)) == {i \in events : \A j \in events : j >= i => Same(w[j], w[i])}

SameMessage(d, e) == d.message = e.message
AllErrors(w) == {i \in DOMAIN w : IsErrorKind(w[i].action)}
RunOf(w, errors) ==
  LET run == Cardinality(Trailing(w, errors, SameMessage)) IN IF run >= 2 THEN run ELSE 0
HistoricalRun(w) == RunOf(w, AllErrors(w))     \* mutant: a passed check does not break the run
SincePassed(w) == {i \in AllErrors(w) : \A j \in i .. Len(w) : w[j].action # "check_passed"}
CurrentErrorRun(w) == RunOf(w, SincePassed(w))

SameFailure(d, e) == d.action = "check_failing" /\ e.action = "check_failing" /\ d.component = e.component
CyclesFailingUnchanged(w) == Cardinality(Trailing(w, DOMAIN w, SameFailure))

\* The different answers on the component that fails most often, the first among equals.
DistinctFailingActuals(w) ==
  LET of(c) == {i \in DOMAIN w : w[i].action \in {"check_failing", "check_retry"} /\ w[i].component = c}
      dominant == {c \in Components : \A d \in Components : Cardinality(of(d)) <= Cardinality(of(c))}
      first == CHOOSE c \in dominant : \A d \in dominant \ {c} : Min(of(c)) < Min(of(d))
  IN IF \A c \in Components : of(c) = {} THEN 0 ELSE Cardinality({w[i].actual : i \in of(first)})

SameComponent(d, e) == d.component = e.component
TimeOnCurrentStep(w) == clock - w[Min(Trailing(w, DOMAIN w, SameComponent))].at

\* The regression of the number of events per window on the window's number,
\* as a fraction; none as long as the events span too few windows.
SlowingDown(w) ==
  LET span == Last(w).at - w[1].at
      n == span \div RateWindow + 1
      Sum(term(_)) == MapThenSumSet(term, 0 .. (n - 1))
      bucket(i) == Cardinality({j \in DOMAIN w : (w[j].at - w[1].at) \div RateWindow = i})
      x == Sum(LAMBDA i : i)
      numerator == n * Sum(LAMBDA i : i * bucket(i)) - x * Len(w)
      denominator == n * Sum(LAMBDA i : i * i) - x * x
  IN span >= RateWindow * MinWindows /\ 2 * numerator < -denominator

\* The time exceeds stuck_time_multiplier, 2, times the mean latency and the floor.
LongStay(w) ==
  LET time == TimeOnCurrentStep(w)
      latencies == MapThenSumSet(LAMBDA i : Latency(w, i), Students(w))
  IN time > 2 * LatencyFloor /\ time * Cardinality(Students(w)) > 2 * latencies
-----------------------------------------------------------------------------
(* The rules; the first that matches names the regime.  "Flailing" is a high    *)
(* entropy of the actions with frequent errors, which is not computed: with     *)
(* several kinds of actions and some error it may be TRUE or FALSE.             *)

MayFlail(w) ==
  LET kinds == {w[i].action : i \in DOMAIN w}
  IN IF Cardinality(kinds) > 1 /\ \E kind \in kinds : IsErrorKind(kind) THEN BOOLEAN ELSE {FALSE}

Rules(w, flailing) ==
  << <<CurrentErrorRun(w) >= RepeatThreshold, "repeating_errors">>,
     <<DistinctFailingActuals(w) > ActualsThreshold, "trial_and_error">>,
     <<CyclesFailingUnchanged(w) >= UnchangedThreshold, "stuck_on_step">>,
     <<flailing, "trial_and_error">>,
     <<IdlePeriods(w) > IdleThreshold /\ SlowingDown(w), "idle">>,
     <<LongStay(w) /\ IdlePeriods(w) > IdleForStuck, "stuck_on_step">> >>

\* Without events the cycle ends before it.
Regime(w, flailing) ==
  LET rules == Rules(w, flailing)
      matching == IF w = <<>> THEN {} ELSE {k \in DOMAIN rules : rules[k][1]}
  IN IF matching = {} THEN "productive" ELSE rules[Min(matching)][2]
-----------------------------------------------------------------------------
(* What is stored *)

Follow(e) ==
  /\ Len(window) < MaxEvents
  /\ window' = Append(window, e)
  /\ movedAt' = IF window = <<>> \/ Last(window).component # e.component THEN clock ELSE movedAt
  /\ streak' = IF e.action = "check_passed" THEN <<None, 0>>
               ELSE IF ~IsErrorKind(e.action) THEN streak
               ELSE IF streak[1] = e.message THEN <<e.message, streak[2] + 1>> ELSE <<e.message, 1>>
  /\ unchanged' = IF e.action # "check_failing" THEN <<None, 0>>
                  ELSE IF unchanged[1] = e.component THEN <<e.component, unchanged[2] + 1>>
                  ELSE <<e.component, 1>>
  /\ UNCHANGED clock

Noted(action, component, message, actual) ==
  [action |-> action, component |-> component, message |-> message, actual |-> actual, at |-> clock]

\* What the collector takes over: an action of the learner, or an error of the environment.
Collected(action, c, message) ==
  /\ Follow(Noted(action, c, message, None))
  /\ silences' = IF actedAt = None THEN <<>> ELSE Append(silences, clock - actedAt)
  /\ actedAt' = clock
  /\ UNCHANGED withheldAt

LearnerActs(c) == Collected("start", c, None)
ErrorLogged(c, d) == Collected("error", c, d)

\* What the progress observer finds out.
Polled(action, c, d) ==
  /\ action \in Heartbeat
  /\ Follow(Noted(action, c, c, IF action = "check_passed" THEN None ELSE d))
  /\ UNCHANGED <<silences, actedAt, withheldAt>>

\* What the loop records of itself in an arm that only watches, or when the trial
\* holds the help back; a recorded intervention is not loaded again, this is.
RecordWithheld ==
  /\ \E flailing \in MayFlail(window) : Regime(window, flailing) # "productive"
  /\ withheldAt # None => clock - withheldAt >= WithheldGap
  /\ Follow(Noted("hint", None, None, None))
  /\ withheldAt' = clock
  /\ UNCHANGED <<silences, actedAt>>

Wait ==
  /\ clock < MaxClock
  /\ clock' = clock + 1
  /\ UNCHANGED <<window, streak, unchanged, movedAt, silences, actedAt, withheldAt>>

WindowNext ==
  \/ \E c \in Components : LearnerActs(c) \/ \E d \in Details :
       ErrorLogged(c, d) \/ \E action \in Heartbeat : Polled(action, c, d)
  \/ RecordWithheld
  \/ Wait

WindowSpec == WindowInit /\ [][WindowNext]_windowVars
-----------------------------------------------------------------------------
WindowTypeOK ==
  /\ Len(window) <= MaxEvents /\ clock \in 0 .. MaxClock
  /\ \A i \in DOMAIN window : window[i].component \in Components \cup {None} /\ window[i].at <= clock

LongSilences ==
  Cardinality({i \in DOMAIN silences : silences[i] > IdleGap})
    + (IF actedAt # None /\ clock - actedAt > IdleGap THEN 1 ELSE 0)
RepeatedErrors == IF streak[2] >= 2 THEN streak[2] ELSE 0

\* The window tells what an observer of every event would have said: how often the
\* learner now meets the same error, forgetting those before a check that passed
\* ("an error the student already fixed shouldn't keep triggering interventions",
\* features.py:162), how long a check has failed unchanged, how long the learner
\* has been at the component; and as long as the loop has recorded nothing itself,
\* the polls of the observer do not hide any silence, "ongoing silence" included.
WindowSound == window # <<>> =>
  /\ WindowTypeOK
  /\ CurrentErrorRun(window) = RepeatedErrors
  /\ CyclesFailingUnchanged(window) = unchanged[2]
  /\ TimeOnCurrentStep(window) = clock - movedAt
  /\ withheldAt = None => IdlePeriods(window) = LongSilences
  /\ \A flailing \in MayFlail(window) :
       RepeatedErrors >= RepeatThreshold <=> Regime(window, flailing) = "repeating_errors"
=============================================================================
