--------------------------- MODULE SessionMonitor ---------------------------
(***************************************************************************)
(* The intervention loop of one session (analytics/runtime/monitor.py):    *)
(* the dwell tracker, the control law, the governed dispatch and the       *)
(* micro-randomised trial, next to a learner who changes their consent, an *)
(* agent and writes that fail, a stop, and a restart of the process.  The  *)
(* regime of a cycle is whatever the identifier answers.                   *)
(***************************************************************************)
EXTENDS Absent, Naturals, Sequences

CONSTANTS
  Productive,       \* ProcessRegime.PRODUCTIVE
  BadRegimes,       \* the other regimes
  Thresholds,       \* what T_k can be once jittered; the least is the configured T_k
  Cooldown,         \* cooldown_period
  EscalationDwell,  \* escalation_max_dwell
  MaxTime,          \* bound: the clock
  MaxLives          \* bound: processes that run the monitor

Regimes == BadRegimes \cup {Productive}

ASSUME MonitorAssumption ==
  /\ Productive \notin BadRegimes /\ None \notin Regimes
  /\ Thresholds \subseteq Nat /\ Thresholds # {}
  /\ Cooldown \in Nat /\ EscalationDwell \in Nat
  /\ MaxTime \in Nat \ {0} /\ MaxLives \in Nat \ {0}
  /\ None \notin Nat /\ None \notin [threshold : Thresholds, open : SUBSET Nat]

VARIABLES
  now,         \* the clock
  mrt,         \* mrt_enabled
  arm,         \* _control_arm
  withdrawn,   \* since when no consent covers acts; None while one does
  loop,        \* the analysis task: where it is, and its cycle
  tracker,     \* _dwell
  lastAct,     \* _last_intervention_at
  rateAt,      \* ControlInterface._last_act_ts of the session
  escalated,   \* _escalated_in_spell
  spell,       \* _spell_t_k and _open_decision_ids; None when _spell_id is
  samples,     \* process_state_samples
  escalations, \* the objective escalation events
  decisions,   \* intervention_decisions
  acts,        \* what the learner was shown, or was withheld from them
  life,        \* which process this is
  failed       \* whether a write that the spells rest on has failed

monitorVars == <<now, mrt, arm, withdrawn, loop, tracker, lastAct, rateAt, escalated, spell,
                 samples, escalations, decisions, acts, life, failed>>

\* What a cycle reads and writes in memory, and what it leaves in the database.
rows == <<samples, escalations, decisions, acts>>
memory == <<tracker, lastAct, rateAt, escalated, spell>>
world == <<now, mrt, arm, withdrawn, life>>

Asleep(t) == [pc |-> "asleep", at |-> t, regime |-> Productive, dwell |-> 0]

MonitorInit ==
  /\ now = 1 /\ life = 1 /\ failed = FALSE
  /\ mrt \in BOOLEAN /\ arm \in {"open", "closed"}
  /\ withdrawn = None
  /\ loop = Asleep(0)
  /\ tracker = [regime |-> None, since |-> 0]
  /\ lastAct = None /\ rateAt = None /\ escalated = FALSE /\ spell = None
  /\ samples = <<>> /\ escalations = <<>> /\ decisions = <<>> /\ acts = <<>>

At(pc) == loop.pc = pc
Goto(pc) == loop' = [loop EXCEPT !.pc = pc]
CycleEnds == Goto("asleep")
Bad(r) == r \in BadRegimes
Configured == CHOOSE t \in Thresholds : \A u \in Thresholds : t <= u
-----------------------------------------------------------------------------
(* The control law *)

CoolingDown(since, t) == since # None /\ t - since < Cooldown

\* The randomiser answers before the arm is looked at.

\* The cooldown is forgotten.
NoCooldown(r, dwell, threshold, hold) ==     \* mutant
  IF ~Bad(r) \/ dwell < threshold THEN "skip"
  ELSE IF arm = "open" \/ hold THEN "withhold" ELSE "intervene"

\* should_intervene: regime, dwell, cooldown, arm, then the draw.
Verdict(r, dwell, threshold, hold) ==
  IF ~Bad(r) \/ dwell < threshold \/ CoolingDown(lastAct, loop.at) THEN "skip"
  ELSE IF arm = "open" \/ hold THEN "withhold" ELSE "intervene"

Act(kind) == [at |-> loop.at, kind |-> kind, arm |-> arm, withdrawn |-> withdrawn, life |-> life]

Withhold ==
  /\ acts' = Append(acts, Act("withheld"))
  /\ lastAct' = loop.at
-----------------------------------------------------------------------------
(* One analysis cycle *)

\* The tracker and the sample, written in this order: a failing write ends the
\* cycle when the tracker has already moved on.
Dwell(r) == IF r = tracker.regime THEN now - tracker.since ELSE 0

\* The flag is set even if the event cannot be recorded.
Escalate(r) ==
  IF Bad(r) /\ Dwell(r) >= EscalationDwell /\ ~escalated
  THEN /\ escalated' = TRUE
       /\ \/ escalations' = Append(escalations, [at |-> now, life |-> life])
          \/ escalations' = escalations
  ELSE /\ escalated' = (Bad(r) /\ escalated)
       /\ UNCHANGED escalations

Observe(r) ==
  /\ At("asleep") /\ now > loop.at
  /\ tracker' = IF r = tracker.regime THEN tracker ELSE [regime |-> r, since |-> now]
  /\ loop' = [pc |-> "decide", at |-> now, regime |-> r, dwell |-> Dwell(r)]
  /\ samples' = Append(samples, [at |-> now, regime |-> r])
  /\ Escalate(r)
  /\ UNCHANGED <<world, lastAct, rateAt, spell, decisions, acts, failed>>

ObserveFails(r) ==
  /\ At("asleep") /\ now > loop.at
  /\ tracker' = IF r = tracker.regime THEN tracker ELSE [regime |-> r, since |-> now]
  /\ loop' = Asleep(now)
  /\ failed' = TRUE
  /\ UNCHANGED <<world, lastAct, rateAt, escalated, spell, rows>>

Decide ==
  /\ At("decide") /\ ~mrt
  /\ LET verdict == Verdict(loop.regime, loop.dwell, Configured, FALSE) IN
       \/ verdict = "skip" /\ CycleEnds /\ UNCHANGED <<acts, lastAct>>
       \/ verdict = "withhold" /\ CycleEnds /\ Withhold
       \/ /\ verdict = "intervene"
          /\ Goto("authorize") /\ UNCHANGED <<acts, lastAct>>
  /\ UNCHANGED <<world, tracker, rateAt, escalated, spell, samples, escalations, decisions, failed>>

\* authorize_act; a context that cannot be built ends the cycle before it.
Authorize ==
  /\ At("authorize")
  /\ \/ /\ withdrawn = None /\ arm # "open" /\ ~CoolingDown(rateAt, now)
        /\ Goto("generate")
     \/ CycleEnds
  /\ UNCHANGED <<world, memory, rows, failed>>

\* The agent answers, says it has failed, or raises, which leaves no cooldown.
Generate ==
  /\ At("generate")
  /\ \/ /\ lastAct' = now /\ Goto("record")
        /\ acts' \in {acts, Append(acts, Act("delivered"))}
     \/ CycleEnds /\ UNCHANGED <<lastAct, acts>>
  /\ UNCHANGED <<world, tracker, rateAt, escalated, spell, samples, escalations, decisions, failed>>

\* The event row is written or the failure logged.  The loop then stamps the
\* rate window; the trial counts its cooldown from the decision instead.
Record ==
  /\ At("record")
  /\ \/ ~mrt /\ rateAt' = now /\ UNCHANGED lastAct
     \/ mrt /\ lastAct' = loop.at /\ UNCHANGED rateAt
  /\ CycleEnds
  /\ UNCHANGED <<world, tracker, escalated, spell, rows, failed>>
-----------------------------------------------------------------------------
(* The micro-randomised trial *)

Opened(r, threshold) == IF Bad(r) THEN [threshold |-> threshold, open |-> {}] ELSE None

\* The exit is stamped on every decision point of the spell.
Exited == [i \in DOMAIN decisions |->
             IF i \in spell.open THEN [decisions[i] EXCEPT !.exit = loop.at] ELSE decisions[i]]

\* The spell is closed and opened when the dwell is zero, which stands for a
\* change of regime.
TurnSpell ==
  /\ At("decide") /\ mrt
  /\ IF loop.dwell = 0
     THEN /\ \E threshold \in Thresholds : spell' = Opened(loop.regime, threshold)
          /\ decisions' = IF spell # None THEN Exited ELSE decisions
     ELSE UNCHANGED <<spell, decisions>>
  /\ Goto("draw")
  /\ UNCHANGED <<world, tracker, lastAct, rateAt, escalated, samples, escalations, acts, failed>>

\* The ids are forgotten before the update; when it fails nothing is opened.
TurnSpellFails ==
  /\ At("decide") /\ mrt
  /\ loop.dwell = 0 /\ spell # None /\ spell.open # {}
  /\ spell' = None /\ failed' = TRUE
  /\ CycleEnds
  /\ UNCHANGED <<world, tracker, lastAct, rateAt, escalated, rows>>

Decision(kind) ==
  [at |-> loop.at, regime |-> loop.regime, assignment |-> kind, exit |-> None, censored |-> FALSE]

Draw(hold) ==
  /\ At("draw") /\ spell # None
  /\ LET verdict == Verdict(loop.regime, loop.dwell, spell.threshold, hold) IN
       \/ /\ verdict = "skip" /\ CycleEnds
          /\ UNCHANGED <<spell, decisions, acts, lastAct>>
       \/ /\ verdict # "skip"
          /\ spell' = [spell EXCEPT !.open = @ \cup {Len(decisions) + 1}]
          /\ decisions' = Append(decisions, Decision(verdict))
          /\ \/ verdict = "withhold" /\ CycleEnds /\ Withhold
             \/ /\ verdict = "intervene" /\ Goto("generate")
                /\ UNCHANGED <<acts, lastAct>>
  /\ UNCHANGED <<world, tracker, rateAt, escalated, samples, escalations, failed>>

\* The decision cannot be recorded, or its context cannot be built: nothing is
\* shown, and the next cycle is a decision point again.
DrawFails ==
  /\ At("draw") /\ spell # None
  /\ Verdict(loop.regime, loop.dwell, spell.threshold, FALSE) # "skip"
  /\ decisions' \in {decisions, Append(decisions, Decision("intervene"))}
  /\ spell' = IF decisions' = decisions THEN spell
              ELSE [spell EXCEPT !.open = @ \cup {Len(decisions) + 1}]
  /\ CycleEnds
  /\ UNCHANGED <<world, tracker, lastAct, rateAt, escalated, samples, escalations, acts, failed>>

NoSpell ==
  /\ At("draw") /\ spell = None
  /\ CycleEnds
  /\ UNCHANGED <<world, memory, rows, failed>>
-----------------------------------------------------------------------------
(* The session around the loop *)

CensorOpenOnly ==     \* mutant: what this monitor still had open
  [i \in DOMAIN decisions |->
     IF spell # None /\ i \in spell.open THEN [decisions[i] EXCEPT !.censored = TRUE] ELSE decisions[i]]
Censored == [i \in DOMAIN decisions |->
               IF decisions[i].exit = None THEN [decisions[i] EXCEPT !.censored = TRUE] ELSE decisions[i]]

MemoryLost ==
  /\ tracker' = [regime |-> None, since |-> 0]
  /\ lastAct' = None /\ rateAt' = None /\ escalated' = FALSE /\ spell' = None

\* stop_session cancels the task wherever it waits; then the session is
\* finalized.
EndSession ==
  /\ ~At("ended")
  /\ loop' = [Asleep(0) EXCEPT !.pc = "ended"]
  /\ decisions' = Censored
  /\ MemoryLost
  /\ UNCHANGED <<world, samples, escalations, acts, failed>>

\* The process restarts and worker/restore.py starts a new monitor, whose arm
\* is resolved again: another lab of the skill may be completed by now.
RestartMonitor ==
  /\ ~At("ended") /\ life < MaxLives
  /\ life' = life + 1
  /\ arm' \in {arm, "open"}
  /\ loop' = Asleep(now)
  /\ MemoryLost
  /\ UNCHANGED <<now, mrt, withdrawn, rows, failed>>

\* Generating is the one step that takes long against the analysis interval.
Tick ==
  /\ loop.pc \in {"asleep", "generate"} /\ now < MaxTime
  /\ now' = now + 1
  /\ UNCHANGED <<mrt, arm, withdrawn, life, loop, memory, rows, failed>>

ChangeConsent ==
  /\ loop.pc \in {"asleep", "authorize", "generate"}
  /\ withdrawn' = IF withdrawn = None THEN now ELSE None
  /\ UNCHANGED <<now, mrt, arm, life, loop, memory, rows, failed>>

MonitorNext ==
  \/ \E r \in Regimes : Observe(r) \/ ObserveFails(r)
  \/ Decide \/ Authorize \/ Generate \/ Record
  \/ TurnSpell \/ TurnSpellFails
  \/ \E hold \in BOOLEAN : Draw(hold)
  \/ DrawFails \/ NoSpell
  \/ EndSession \/ RestartMonitor \/ Tick \/ ChangeConsent

MonitorSpec == MonitorInit /\ [][MonitorNext]_monitorVars
-----------------------------------------------------------------------------
(* Properties *)

Between(t, u) == {i \in DOMAIN samples : samples[i].at > t /\ samples[i].at < u}

\* Whoever has withdrawn their consent before the cycle of an intervention is
\* not shown it (authorize_act); the answer of an agent that was already asked
\* may still arrive.
WithdrawalHeeded ==
  \A i \in DOMAIN acts :
    acts[i].kind = "delivered" /\ acts[i].withdrawn # None => acts[i].withdrawn >= acts[i].at

\* A process escalates a stretch of bad regimes once: between two escalations
\* lies a productive sample.
EscalatedOnce ==
  \A i, j \in DOMAIN escalations :
    i < j /\ escalations[i].life = escalations[j].life =>
      \E s \in Between(escalations[i].at, escalations[j].at) : samples[s].regime = Productive

\* What the learner was shown or withheld from is a decision point of the
\* control law: one cooldown after the one before it as long as the process
\* lives, and in the open arm nothing is shown, whichever branch decides.
\* Outside the trial nothing reaches a learner who has withdrawn before the
\* cycle, and a stretch of bad regimes is escalated once.
InterventionsLawful ==
  /\ \A i, j \in DOMAIN acts :
       i < j /\ acts[i].life = acts[j].life => acts[j].at >= acts[i].at + Cooldown
  /\ \A i \in DOMAIN acts : acts[i].kind = "delivered" => acts[i].arm = "closed"
  /\ mrt \/ WithdrawalHeeded
  /\ EscalatedOnce

\* Types: what the analysis task carries and what it rests on.
TrackerOK ==
  /\ now \in 1 .. MaxTime /\ life \in 1 .. MaxLives
  /\ loop.pc \in {"asleep", "decide", "authorize", "generate", "record", "draw", "ended"}
  /\ loop.regime \in Regimes /\ loop.dwell \in 0 .. now
  /\ tracker \in [regime : Regimes \cup {None}, since : 0 .. now]
  /\ {lastAct, rateAt, withdrawn} \subseteq (0 .. now) \cup {None}
  /\ spell # None => spell.threshold \in Thresholds /\ spell.open \subseteq DOMAIN decisions

\* The survival times that the hazard model is fitted on agree with the sampled
\* process, whatever fails, stops or restarts.  The exit of a decision point is
\* the time of the first sample that shows another regime; between two cycles a
\* spell is open exactly while the regime is bad, so that dwell = 0 does stand
\* for a change (both unless a write has failed); and once the session is
\* finalized every decision point has left its spell or is censored, never both.
TrialSound ==
  /\ TrackerOK
  /\ failed \/ \A i \in DOMAIN decisions : LET d == decisions[i] IN
       d.exit # None =>
         /\ \E s \in DOMAIN samples : samples[s].at = d.exit /\ samples[s].regime # d.regime
         /\ \A s \in Between(d.at, d.exit) : samples[s].regime = d.regime
  /\ mrt /\ At("asleep") /\ ~failed => (spell # None <=> Bad(tracker.regime))
  /\ At("ended") => \A i \in DOMAIN decisions : decisions[i].censored <=> decisions[i].exit = None
=============================================================================
