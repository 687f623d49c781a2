-------------------------- MODULE ThresholdSearch --------------------------
(***************************************************************************)
(* The offline choice of the dwell thresholds T_k (analytics/thresholds.py) *)
(* by the cost of a policy over the samples of the process state            *)
(* (analytics/criterion.py), next to the control law of a live session     *)
(* that writes those samples and whose policy the search simulates.        *)
(***************************************************************************)
EXTENDS Absent, Integers, SequencesExt

CONSTANTS
  Struggles,      \* the bad regimes, in the order in which the search takes them
  Candidates,     \* the grid of every regime: a sequence of thresholds
  Pause,          \* cooldown_seconds
  CostStuck, CostIntervention, CostFalse,
  MaxSamples, MaxInterval     \* bounds

BadStates == Range(Struggles)

ASSUME SearchAssumption ==
  /\ Pause \in Nat /\ {CostStuck, CostIntervention, CostFalse} \subseteq Nat
  /\ Struggles \in Seq(BadStates) /\ Candidates \in Seq(Nat) /\ Candidates # <<>>
  /\ MaxSamples \in Nat /\ MaxInterval \in Nat
  /\ "productive" \notin BadStates /\ IsInjective(Struggles)

VARIABLES
  log,          \* process_state_samples of a session
  threshold,    \* its T_k
  acted         \* when the control law of the session acted

searchVars == <<log, threshold, acted>>

SearchInit ==
  /\ log = <<>> /\ acted = <<>>
  /\ threshold \in [BadStates -> Range(Candidates)]

IsBadState(s) == s.regime \in BadStates

\* One cycle of the live loop: the regime, how long it has lasted, and the verdict.
Sampled(regime, interval) ==
  LET ts == IF log = <<>> THEN 0 ELSE Last(log).ts + interval
      goesOn == log # <<>> /\ Last(log).regime = regime
      dwell == IF goesOn THEN Last(log).dwell + interval ELSE 0
      acts == /\ regime \in BadStates
              /\ dwell >= threshold[regime]
              /\ acted # <<>> => ts - Last(acted) >= Pause
  IN /\ Len(log) < MaxSamples
     /\ log' = Append(log, [ts |-> ts, regime |-> regime, dwell |-> dwell])
     /\ acted' = IF acts THEN Append(acted, ts) ELSE acted
     /\ UNCHANGED threshold

SearchNext ==
  \E regime \in BadStates \cup {"productive"}, interval \in 1 .. MaxInterval : Sampled(regime, interval)

SearchSpec == SearchInit /\ [][SearchNext]_searchVars
-----------------------------------------------------------------------------
(* criterion.py *)

\* The state holds from a sample to the next one.
BadTime(samples, i) ==
  IF i < Len(samples) /\ IsBadState(samples[i]) THEN samples[i + 1].ts - samples[i].ts ELSE 0
BadDuration(samples) ==
  LET sum[n \in 0 .. Len(samples)] == IF n = 0 THEN 0 ELSE sum[n - 1] + BadTime(samples, n)
  IN sum[Len(samples)]

StateAt(samples, ts) == {i \in DOMAIN samples : samples[i].ts <= ts}
OutsideBad(samples, times) ==
  {ts \in times : StateAt(samples, ts) # {} /\ ~IsBadState(samples[Max(StateAt(samples, ts))])}

\* The maximal runs of bad samples, but one that begins with the last sample: from
\* where to where, and whether the process has recovered.
Begins(samples) ==
  {i \in 1 .. (Len(samples) - 1) : IsBadState(samples[i]) /\ (i > 1 => ~IsBadState(samples[i - 1]))}
EndOf(samples, i) ==
  Min({j \in (i + 1) .. Len(samples) : j = Len(samples) \/ ~IsBadState(samples[j])})
SpellAt(samples, i) ==
  LET end == samples[EndOf(samples, i)]
  IN [from |-> samples[i].ts, to |-> end.ts, recovered |-> ~IsBadState(end)]
Spells(samples) == {SpellAt(samples, i) : i \in Begins(samples)}

Length(spell) == spell.to - spell.from
Helped(spell, times) == \E ts \in times : spell.from <= ts /\ ts < spell.to

\* The median, doubled, of the durations of a non-empty set of spells.
DoubledMedian(spells) ==
  LET sorted == SortSeq(SetToSeq(spells), LAMBDA s, t : Length(s) < Length(t))
      n == Len(sorted)
  IN Length(sorted[(n + 1) \div 2]) + Length(sorted[(n + 2) \div 2])

\* The spells with help that were shorter than those that end by themselves.
Premature(samples, times) ==
  LET ended == {s \in Spells(samples) : s.recovered}
      clean == {s \in ended : ~Helped(s, times)}
  IN IF clean = {} THEN {} ELSE {s \in ended \ clean : 2 * Length(s) < DoubledMedian(clean)}

PrematureAll(samples, times) ==     \* mutant: also the spells without help
  LET ended == {s \in Spells(samples) : s.recovered}
      clean == {s \in ended : ~Helped(s, times)}
  IN IF clean = {} THEN {} ELSE {s \in ended : 2 * Length(s) < DoubledMedian(clean)}
PrematureSpells(samples, times) == Premature(samples, times)

CountFalse(samples, times) ==
  IF times = {} THEN 0
  ELSE Cardinality(OutsideBad(samples, times)) + Cardinality(PrematureSpells(samples, times))

Cost(samples, times, after) ==
  CostStuck * BadDuration(after) + CostIntervention * Cardinality(times)
    + CostFalse * CountFalse(samples, times)
-----------------------------------------------------------------------------
(* thresholds.py *)

FiresAt(T, s, fired) ==
  /\ IsBadState(s) /\ s.dwell >= T[s.regime]
  /\ fired # <<>> => s.ts - Last(fired) >= Pause

Fire(T, s, fired) == IF FiresAt(T, s, fired) THEN Append(fired, s.ts) ELSE fired
SimulateInterventions(samples, T) ==
  LET fired[n \in 0 .. Len(samples)] == IF n = 0 THEN <<>> ELSE Fire(T, samples[n], fired[n - 1])
  IN fired[Len(samples)]

\* The stipulation: an intervention ends the struggle for good.
Truncate(samples, times) ==
  [i \in DOMAIN samples |->
     IF IsBadState(samples[i]) /\ \E ts \in times : ts <= samples[i].ts
     THEN [samples[i] EXCEPT !.regime = "productive", !.dwell = 0] ELSE samples[i]]
NoEffect(samples, times) == samples

\* With the stipulation, as the search has it by default.
TotalJ(samples, T) ==
  LET times == Range(SimulateInterventions(samples, T))
  IN Cost(samples, times, Truncate(samples, times))

\* The first of the cheapest candidates, the other regimes being as they are.
BestCandidate(samples, T, regime) ==
  LET J(i) == TotalJ(samples, [T EXCEPT ![regime] = Candidates[i]])
      best == Min({i \in DOMAIN Candidates : \A j \in DOMAIN Candidates : J(i) <= J(j)})
  IN Candidates[best]

LockIn(samples, T, regime) == [T EXCEPT ![regime] = BestCandidate(samples, T, regime)]
FirstCandidates == [regime \in BadStates |-> Candidates[1]]
DeriveT(samples) ==
  LET T[n \in 0 .. Len(Struggles)] ==
        IF n = 0 THEN FirstCandidates ELSE LockIn(samples, T[n - 1], Struggles[n])
  IN T[Len(Struggles)]
-----------------------------------------------------------------------------
\* "The algorithm matches the live control law" (thresholds.py:22): over the samples
\* a session has written so far the simulation fires when its control law did.  The
\* criterion is fair: however the help fell, no intervention is false twice ("two
\* disjoint kinds", criterion.py:77), so that no more are false than were made;
\* ending a struggle earlier never costs more time in it; the thresholds found are
\* no dearer than those the search began with, nor than any other choice for the
\* regime it took last; and where help has no effect none is the cheapest
\* ("T_k=inf trivially wins", thresholds.py:95).
SearchSound == log # <<>> =>
  /\ SimulateInterventions(log, threshold) = acted
  /\ \A times \in SUBSET {log[i].ts : i \in DOMAIN log} :
       /\ CountFalse(log, times) <= Cardinality(times)
       /\ BadDuration(Truncate(log, times)) <= BadDuration(log)
       /\ Cost(log, {}, NoEffect(log, {})) <= Cost(log, times, NoEffect(log, times))
  /\ LET T == DeriveT(log)
         J(t) == TotalJ(log, t)
     IN /\ J(T) <= J(FirstCandidates)
        /\ \A t \in Range(Candidates) : J(T) <= J([T EXCEPT ![Last(Struggles)] = t])
=============================================================================
