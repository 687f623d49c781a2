----------------------- MODULE SessionMonitor_proofs -----------------------
(***************************************************************************)
(* Interventions are lawful and the trial's records are true, for any set  *)
(* of regimes and thresholds, any cooldown and any length of a session,    *)
(* whatever fails, stops or restarts; the progress of a learner is what    *)
(* the validation runs have shown, for any lab and any overlap; and the    *)
(* checks of a lab share the consoles of its nodes, for any number of      *)
(* checks and of tries.                                                    *)
(***************************************************************************)
EXTENDS SessionMonitor, SequenceTheorems, LabProgress, FiniteSetTheorems, ConsoleChecks, TLAPS

-----------------------------------------------------------------------------
(* What is written down *)

Acts == [at : Nat, kind : {"delivered", "withheld"}, arm : {"open", "closed"},
         withdrawn : Nat \cup {None}, life : Nat]
Samples == [at : Nat, regime : Regimes]
Escalations == [at : Nat, life : Nat]
Decisions == [at : Nat, regime : Regimes, assignment : {"withhold", "intervene"},
              exit : Nat \cup {None}, censored : BOOLEAN]
LoopStates ==
  [pc : {"asleep", "decide", "authorize", "generate", "record", "draw", "ended"},
   at : Nat, regime : Regimes, dwell : Nat]
Spells == [threshold : Thresholds, open : SUBSET Nat]

MonitorTypeOK ==
  /\ now \in 1 .. MaxTime /\ life \in 1 .. MaxLives
  /\ mrt \in BOOLEAN /\ arm \in {"open", "closed"} /\ escalated \in BOOLEAN /\ failed \in BOOLEAN
  /\ loop \in LoopStates
  /\ tracker \in [regime : Regimes \cup {None}, since : Nat]
  /\ {lastAct, rateAt, withdrawn} \subseteq Nat \cup {None}
  /\ spell \in Spells \cup {None}
  /\ samples \in Seq(Samples) /\ escalations \in Seq(Escalations)
  /\ decisions \in Seq(Decisions) /\ acts \in Seq(Acts)

\* Nothing is later than the clock, and the points of a spell are decisions.
InTime ==
  /\ loop.at <= now /\ loop.dwell <= now /\ tracker.since <= now
  /\ \A t \in {lastAct, rateAt, withdrawn} : t # None => t <= now
  /\ spell # None => spell.open \subseteq DOMAIN decisions

\* What was done is not later than the cycle that runs, and the cooldown counts from
\* what this process has done last.
ActsPast ==
  \A i \in DOMAIN acts :
    /\ acts[i].life <= life
    /\ ~At("ended") => acts[i].at <= loop.at
    /\ ~At("ended") /\ acts[i].life = life => lastAct # None /\ acts[i].at <= lastAct

\* One cooldown since what this process has done last.
Ready == lastAct = None \/ lastAct + Cooldown <= loop.at

\* An intervention on its way was allowed by the control law, and outside the trial by
\* a consent that was not withdrawn before the cycle.
ActAllowed ==
  /\ At("draw") => mrt
  /\ At("authorize") => ~mrt
  /\ At("authorize") \/ At("generate") => Ready
  /\ At("generate") => arm = "closed"
  /\ At("generate") /\ ~mrt => withdrawn = None \/ withdrawn >= loop.at

ActsLawful ==
  /\ \A i, j \in DOMAIN acts :
       i < j /\ acts[i].life = acts[j].life => acts[j].at >= acts[i].at + Cooldown
  /\ \A i \in DOMAIN acts : acts[i].kind = "delivered" => acts[i].arm = "closed"
  /\ mrt \/ WithdrawalHeeded

\* A stretch that this process has escalated is remembered, or over.
EscalationsPast ==
  \A i \in DOMAIN escalations :
    /\ escalations[i].life <= life
    /\ ~At("ended") => escalations[i].at <= loop.at
    /\ ~At("ended") /\ escalations[i].life = life /\ ~escalated =>
         \E s \in DOMAIN samples : samples[s].at > escalations[i].at /\ samples[s].regime = Productive

\* The tracker, the cycle and the last sample are of one regime; the dwell of a cycle is
\* zero when the regime has just changed.
CyclePast ==
  ~At("ended") =>
    /\ tracker.since <= loop.at
    /\ \A s \in DOMAIN samples : samples[s].at <= loop.at
    /\ \A i \in DOMAIN decisions : decisions[i].exit # None => decisions[i].exit <= loop.at
    /\ \A i \in DOMAIN decisions : decisions[i].at <= loop.at
InCycle == ~At("asleep") /\ ~At("ended")
CycleSampled ==
  InCycle =>
    /\ tracker.regime = loop.regime
    /\ \E s \in DOMAIN samples : samples[s].at = loop.at /\ samples[s].regime = loop.regime

\* Exit of decision d: the first sample of another regime.
ExitOf(d) ==
  d.exit # None =>
    /\ \E s \in DOMAIN samples : samples[s].at = d.exit /\ samples[s].regime # d.regime
    /\ \A s \in Between(d.at, d.exit) : samples[s].regime = d.regime
ExitsTrue == \A i \in DOMAIN decisions : ExitOf(decisions[i])

Turning == At("decide") /\ loop.dwell = 0
\* A decision point whose spell is open has seen one regime only, up to a cycle that
\* turns the spell.
OpenPoints ==
  spell # None => \A i \in spell.open :
    /\ decisions[i].exit = None
    /\ Turning => decisions[i].regime # loop.regime
    /\ ~Turning => decisions[i].regime = tracker.regime
    /\ \A s \in DOMAIN samples :
         samples[s].at > decisions[i].at /\ (Turning => samples[s].at < loop.at) =>
           samples[s].regime = decisions[i].regime
SpellKnown == mrt /\ ~At("ended") /\ ~Turning => (spell # None <=> Bad(tracker.regime))
Finalized ==
  /\ ~mrt => spell = None
  /\ ~At("ended") => \A i \in DOMAIN decisions : ~decisions[i].censored
  /\ At("ended") => spell = None
  /\ At("ended") => \A i \in DOMAIN decisions : decisions[i].censored <=> decisions[i].exit = None

MonitorInv ==
  /\ MonitorTypeOK /\ InTime
  /\ ActsPast /\ ActAllowed /\ ActsLawful
  /\ EscalationsPast /\ EscalatedOnce
  /\ CyclePast /\ CycleSampled /\ Finalized
  /\ ~failed => ExitsTrue /\ OpenPoints /\ SpellKnown
-----------------------------------------------------------------------------
(* Sequences *)

\* t is s with e at its end, at n.
Grown(s, t, n, e) ==
  /\ n \in Nat /\ DOMAIN s \subseteq Nat /\ n \in DOMAIN t /\ t[n] = e
  /\ \A i \in DOMAIN s : i < n /\ i \in DOMAIN t /\ t[i] = s[i]
  /\ \A i \in DOMAIN t : i \in DOMAIN s \/ i = n

\* Append is that.
LEMMA AppendGrows ==
  ASSUME NEW S, NEW s \in Seq(S), NEW e \in S
  PROVE  Append(s, e) \in Seq(S) /\ Grown(s, Append(s, e), Len(s) + 1, e)
BY DEF Grown

\* A sequence whose elements are replaced one by one is a sequence.
LEMMA Replaced ==
  ASSUME NEW S, NEW s \in Seq(S), NEW F,
         DOMAIN F = DOMAIN s, F = [i \in DOMAIN s |-> F[i]], \A i \in DOMAIN s : F[i] \in S
  PROVE  F \in Seq(S)
<1>1. Len(s) \in Nat /\ DOMAIN s = 1 .. Len(s)
  OBVIOUS
<1>2. F \in [1 .. Len(s) -> S]
  BY <1>1
<1> QED  BY <1>1, <1>2

\* What of the types the steps below need.
Typed ==
  /\ None \notin Nat /\ None \notin Regimes /\ Productive \notin BadRegimes /\ Cooldown \in Nat
  /\ now \in Nat /\ life \in Nat /\ arm \in {"open", "closed"}
  /\ loop.pc \in {"asleep", "decide", "authorize", "generate", "record", "draw", "ended"}
  /\ loop.at \in Nat /\ loop.regime \in Regimes /\ loop.dwell \in Nat
  /\ tracker.regime \in Regimes \cup {None} /\ tracker.since \in Nat
  /\ lastAct \in Nat \cup {None} /\ rateAt \in Nat \cup {None} /\ withdrawn \in Nat \cup {None}
  /\ spell # None => spell.open \subseteq Nat
  /\ \A i \in DOMAIN samples : i \in Nat /\ samples[i].at \in Nat /\ samples[i].regime \in Regimes
  /\ \A i \in DOMAIN escalations : i \in Nat /\ escalations[i].at \in Nat /\ escalations[i].life \in Nat
  /\ \A i \in DOMAIN acts :
       /\ i \in Nat /\ acts[i].at \in Nat /\ acts[i].life \in Nat
       /\ acts[i].withdrawn \in Nat \cup {None}
  /\ \A i \in DOMAIN decisions :
       /\ i \in Nat /\ decisions[i].at \in Nat /\ decisions[i].regime \in Regimes
       /\ decisions[i].exit \in Nat \cup {None} /\ decisions[i].censored \in BOOLEAN

\* It follows from the type invariant.
LEMMA TypesTyped == MonitorTypeOK => Typed
<1> SUFFICES ASSUME MonitorTypeOK PROVE Typed
  OBVIOUS
<1>1. /\ \A i \in DOMAIN samples : i \in Nat /\ samples[i] \in Samples
      /\ \A i \in DOMAIN escalations : i \in Nat /\ escalations[i] \in Escalations
      /\ \A i \in DOMAIN acts : i \in Nat /\ acts[i] \in Acts
      /\ \A i \in DOMAIN decisions : i \in Nat /\ decisions[i] \in Decisions
  BY DEF MonitorTypeOK
<1>2. now \in Nat /\ life \in Nat
  BY MonitorAssumption DEF MonitorTypeOK
<1>3. spell # None => spell.open \subseteq Nat
  BY DEF MonitorTypeOK, Spells
<1> QED
  BY <1>1, <1>2, <1>3, MonitorAssumption
  DEF Typed, MonitorTypeOK, LoopStates, Samples, Escalations, Acts, Decisions

\* The same after a step.
\* It follows from the type invariant.
LEMMA TypesTypedNext == MonitorTypeOK' => Typed'
<1>1. MonitorTypeOK => Typed
  BY TypesTyped
<1> QED  BY <1>1, PTL

\* A loop that goes to another step keeps its cycle.
LEMMA LoopMoves ==
  ASSUME MonitorTypeOK, NEW pc \in {"asleep", "decide", "authorize", "generate", "record", "draw", "ended"},
         Goto(pc)
  PROVE  /\ loop' \in LoopStates /\ loop'.pc = pc
         /\ loop'.at = loop.at /\ loop'.regime = loop.regime /\ loop'.dwell = loop.dwell
BY DEF MonitorTypeOK, LoopStates, Goto

\* What the control law lets through is a cooldown after the last act, and shown only
\* in the closed arm.
LEMMA VerdictFacts ==
  ASSUME Typed, NEW r, NEW dwell, NEW threshold, NEW hold
  PROVE  /\ Verdict(r, dwell, threshold, hold) \in {"skip", "withhold", "intervene"}
         /\ Verdict(r, dwell, threshold, hold) # "skip" => Ready
         /\ Verdict(r, dwell, threshold, hold) = "intervene" => arm = "closed"
BY DEF Verdict, CoolingDown, Ready, Typed

-----------------------------------------------------------------------------
(* What a step adds to the records *)

SampleAdded(r) ==
  \E e \in Samples : /\ Grown(samples, samples', Len(samples) + 1, e)
                     /\ e.at = now /\ e.regime = r
EscalationAdded ==
  \E e \in Escalations : /\ Grown(escalations, escalations', Len(escalations) + 1, e)
                         /\ e.at = now /\ e.life = life
ActAdded(kind) ==
  \E e \in Acts : /\ Grown(acts, acts', Len(acts) + 1, e)
                  /\ e.at = loop.at /\ e.kind = kind /\ e.arm = arm
                  /\ e.withdrawn = withdrawn /\ e.life = life
DecisionAdded ==
  \E e \in Decisions : /\ Grown(decisions, decisions', Len(decisions) + 1, e)
                       /\ e.at = loop.at /\ e.regime = loop.regime
                       /\ e.exit = None /\ e.censored = FALSE

\* A sample.
LEMMA SampleGrows ==
  ASSUME MonitorTypeOK, NEW r \in Regimes, samples' = Append(samples, [at |-> now, regime |-> r])
  PROVE  samples' \in Seq(Samples) /\ SampleAdded(r)
<1> DEFINE e == [at |-> now, regime |-> r]
<1>1. e \in Samples /\ e.at = now /\ e.regime = r
  BY TypesTyped DEF Typed, Samples
<1>2. samples' = Append(samples, e)
  OBVIOUS
<1> HIDE DEF e
<1> QED  BY <1>1, <1>2, AppendGrows DEF MonitorTypeOK, SampleAdded

\* An escalation.
LEMMA EscalationGrows ==
  ASSUME MonitorTypeOK, escalations' = Append(escalations, [at |-> now, life |-> life])
  PROVE  escalations' \in Seq(Escalations) /\ EscalationAdded
<1> DEFINE e == [at |-> now, life |-> life]
<1>1. e \in Escalations /\ e.at = now /\ e.life = life
  BY TypesTyped DEF Typed, Escalations
<1>2. escalations' = Append(escalations, e)
  OBVIOUS
<1> HIDE DEF e
<1> QED  BY <1>1, <1>2, AppendGrows DEF MonitorTypeOK, EscalationAdded

\* What is shown or withheld, as it is written down.
LEMMA ActGrows ==
  ASSUME MonitorTypeOK, NEW kind \in {"delivered", "withheld"}, acts' = Append(acts, Act(kind))
  PROVE  acts' \in Seq(Acts) /\ ActAdded(kind)
<1>1. Act(kind) \in Acts
  BY MonitorAssumption DEF MonitorTypeOK, LoopStates, Act, Acts
<1>2. /\ Act(kind).at = loop.at /\ Act(kind).kind = kind /\ Act(kind).arm = arm
      /\ Act(kind).withdrawn = withdrawn /\ Act(kind).life = life
  BY DEF Act
<1> QED  BY <1>1, <1>2, AppendGrows DEF MonitorTypeOK, ActAdded

\* A spell is not None.
LEMMA NoneIsNoSpell == \A s \in Spells : s # None
BY MonitorAssumption DEF Spells

\* A decision, as it is written down and kept open.
LEMMA DecisionGrows ==
  ASSUME MonitorTypeOK, spell # None, NEW kind \in {"withhold", "intervene"},
         decisions' = Append(decisions, Decision(kind)),
         spell' = [spell EXCEPT !.open = @ \cup {Len(decisions) + 1}]
  PROVE  /\ decisions' \in Seq(Decisions) /\ spell' \in Spells
         /\ spell'.open = spell.open \cup {Len(decisions) + 1} /\ DecisionAdded
<1>1. Decision(kind) \in Decisions /\ Len(decisions) + 1 \in Nat /\ spell \in Spells
  BY DEF MonitorTypeOK, LoopStates, Decision, Decisions
<1>2. decisions' \in Seq(Decisions) /\ Grown(decisions, decisions', Len(decisions) + 1, Decision(kind))
  BY <1>1, AppendGrows DEF MonitorTypeOK
<1>3. /\ Decision(kind).at = loop.at /\ Decision(kind).regime = loop.regime
      /\ Decision(kind).exit = None /\ Decision(kind).censored = FALSE
  BY DEF Decision
<1>4. spell' \in Spells /\ spell'.open = spell.open \cup {Len(decisions) + 1}
  BY <1>1 DEF Spells
<1> QED  BY <1>1, <1>2, <1>3, <1>4 DEF DecisionAdded
-----------------------------------------------------------------------------
(* What the additions keep *)

\* An act that the control law lets through is lawful among those before it.
LEMMA ActsStayLawful ==
  ASSUME MonitorInv, NEW kind, ActAdded(kind), Ready, loop.pc # "ended", mrt' = mrt,
         kind = "delivered" =>
           arm = "closed" /\ (mrt \/ withdrawn = None \/ withdrawn >= loop.at)
  PROVE  ActsLawful'
<1> USE DEF MonitorInv
<1>1. Typed
  BY TypesTyped
<1>2. PICK e \in Acts : /\ Grown(acts, acts', Len(acts) + 1, e)
                        /\ e.at = loop.at /\ e.kind = kind /\ e.arm = arm
                        /\ e.withdrawn = withdrawn /\ e.life = life
  BY DEF ActAdded
<1> DEFINE n == Len(acts) + 1
<1> HIDE DEF n
<1>3. /\ n \in Nat /\ n \in DOMAIN acts' /\ acts'[n] = e /\ DOMAIN acts \subseteq Nat
      /\ \A i \in DOMAIN acts : i < n /\ acts'[i] = acts[i]
      /\ \A i \in DOMAIN acts' : i \in DOMAIN acts \/ i = n
  BY <1>2 DEF Grown, n
<1>4. ASSUME NEW i \in DOMAIN acts', NEW j \in DOMAIN acts', i < j, acts'[i].life = acts'[j].life
      PROVE  acts'[j].at >= acts'[i].at + Cooldown
  <2>1. i \in DOMAIN acts
    BY <1>3, <1>4
  <2>2. CASE j \in DOMAIN acts
    BY <1>3, <1>4, <2>1, <2>2 DEF ActsLawful
  <2>3. CASE j = n
    <3>1. acts[i].life = life /\ acts'[j].at = loop.at
      BY <1>2, <1>3, <1>4, <2>1, <2>3
    <3>2. lastAct # None /\ acts[i].at <= lastAct /\ acts'[i] = acts[i]
      BY <3>1, <2>1, <1>3 DEF ActsPast, At
    <3> QED  BY <3>1, <3>2, <2>1, <1>1 DEF Ready, Typed
  <2> QED  BY <1>3, <2>2, <2>3
<1>5. ASSUME NEW i \in DOMAIN acts', acts'[i].kind = "delivered" PROVE acts'[i].arm = "closed"
  BY <1>2, <1>3, <1>5 DEF ActsLawful
<1>6. mrt' \/ WithdrawalHeeded'
  <2>1. CASE mrt
    BY <2>1
  <2>2. CASE ~mrt
    BY <1>2, <1>3, <2>2 DEF ActsLawful, WithdrawalHeeded
  <2> QED  BY <2>1, <2>2
<1> QED  BY <1>4, <1>5, <1>6 DEF ActsLawful

\* And the cooldown counts from it.
LEMMA ActsStayPast ==
  ASSUME MonitorInv, NEW kind, ActAdded(kind), loop.pc # "ended",
         life' = life, loop'.at = loop.at, lastAct' \in {loop.at, now}
  PROVE  ActsPast'
<1> USE DEF MonitorInv
<1>1. Typed /\ loop.at <= now
  BY TypesTyped DEF InTime
<1>2. PICK e \in Acts : /\ Grown(acts, acts', Len(acts) + 1, e)
                        /\ e.at = loop.at /\ e.life = life
  BY DEF ActAdded
<1>3. \A i \in DOMAIN acts' : acts'[i] = e \/ (i \in DOMAIN acts /\ acts'[i] = acts[i])
  BY <1>2 DEF Grown
<1>4. lastAct' # None /\ loop.at <= lastAct' /\ life <= life
  BY <1>1 DEF Typed
<1>5. \A i \in DOMAIN acts : acts[i].life <= life /\ acts[i].at <= loop.at /\ acts[i].at \in Nat
  BY <1>1 DEF ActsPast, At, Typed
<1>6. \A i \in DOMAIN acts' :
        acts'[i].life <= life /\ acts'[i].at <= loop.at /\ acts'[i].at <= lastAct'
  BY <1>1, <1>2, <1>3, <1>4, <1>5 DEF Typed
<1> QED  BY <1>4, <1>6 DEF ActsPast

\* Later samples do not touch an exit.
LEMMA ExitsStayTrue ==
  ASSUME MonitorInv, ExitsTrue, NEW r, SampleAdded(r), loop.pc = "asleep", loop.at < now,
         UNCHANGED decisions
  PROVE  ExitsTrue'
<1> USE DEF MonitorInv
<1>1. Typed
  BY TypesTyped
<1>2. PICK e \in Samples : Grown(samples, samples', Len(samples) + 1, e) /\ e.at = now
  BY DEF SampleAdded
<1>3. /\ \A s \in DOMAIN samples : s \in DOMAIN samples' /\ samples'[s] = samples[s]
      /\ \A s \in DOMAIN samples' : s \in DOMAIN samples \/ samples'[s].at = now
  BY <1>2 DEF Grown
<1> SUFFICES ASSUME NEW i \in DOMAIN decisions, decisions[i].exit # None
             PROVE  /\ \E s \in DOMAIN samples' : /\ samples'[s].at = decisions[i].exit
                                                  /\ samples'[s].regime # decisions[i].regime
                    /\ \A s \in DOMAIN samples' :
                         samples'[s].at > decisions[i].at /\ samples'[s].at < decisions[i].exit =>
                           samples'[s].regime = decisions[i].regime
  BY DEF ExitsTrue, ExitOf, Between
<1>4. decisions[i].exit \in Nat /\ decisions[i].exit < now
  BY <1>1 DEF CyclePast, At, Typed
<1>5. ExitOf(decisions[i])
  BY DEF ExitsTrue
<1> QED  BY <1>1, <1>3, <1>4, <1>5 DEF ExitOf, Between, Typed

\* A new decision has no exit.
LEMMA DecisionsStayTrue ==
  ASSUME ExitsTrue, DecisionAdded, UNCHANGED samples
  PROVE  ExitsTrue'
<1>1. PICK e \in Decisions : Grown(decisions, decisions', Len(decisions) + 1, e) /\ e.exit = None
  BY DEF DecisionAdded
<1>2. \A i \in DOMAIN decisions' :
        decisions'[i].exit = None \/ (i \in DOMAIN decisions /\ decisions'[i] = decisions[i])
  BY <1>1 DEF Grown
<1> SUFFICES ASSUME NEW i \in DOMAIN decisions', decisions'[i].exit # None
             PROVE  /\ \E s \in DOMAIN samples : /\ samples[s].at = decisions'[i].exit
                                                 /\ samples[s].regime # decisions'[i].regime
                    /\ \A s \in DOMAIN samples :
                         samples[s].at > decisions'[i].at /\ samples[s].at < decisions'[i].exit =>
                           samples[s].regime = decisions'[i].regime
  BY DEF ExitsTrue, ExitOf, Between
<1> QED  BY <1>2 DEF ExitsTrue, ExitOf, Between

\* A cycle begins: the sample is taken, and a bad stretch that it ends is over.
LEMMA ObserveMonitored ==
  ASSUME MonitorInv, NEW r \in Regimes, Observe(r)
  PROVE  MonitorInv'
<1> USE DEF MonitorInv
<1>1. Typed
  BY TypesTyped
<1>2. loop.pc = "asleep" /\ loop.at < now /\ tracker.since <= loop.at
  BY DEF Observe, At, CyclePast
<1>3. /\ r = tracker.regime => Dwell(r) # 0 /\ Dwell(r) \in Nat /\ Dwell(r) <= now
      /\ r # tracker.regime => Dwell(r) = 0
  BY <1>2, <1>1 DEF Dwell, Typed
<1>4. /\ loop' \in LoopStates /\ loop'.pc = "decide" /\ loop'.at = now
      /\ loop'.regime = r /\ loop'.dwell = Dwell(r)
  BY <1>3, <1>1 DEF Observe, LoopStates, Typed
<1>5. /\ tracker' \in [regime : Regimes \cup {None}, since : Nat]
      /\ tracker'.regime = r /\ tracker'.since <= now
  BY <1>2, <1>1 DEF Observe, Typed, MonitorTypeOK
<1>6. samples' \in Seq(Samples) /\ SampleAdded(r)
  BY SampleGrows DEF Observe
<1>7. /\ escalations' \in Seq(Escalations) /\ escalated' \in BOOLEAN
      /\ \/ Bad(r) /\ escalated = FALSE /\ escalated' = TRUE /\ EscalationAdded
         \/ UNCHANGED escalations /\ (escalated' = FALSE => escalated = FALSE \/ ~Bad(r))
  <2>1. CASE Bad(r) /\ Dwell(r) >= EscalationDwell /\ ~escalated
    <3>1. escalated = FALSE /\ escalated' = TRUE
      BY <2>1 DEF Observe, Escalate, MonitorTypeOK
    <3>2. UNCHANGED escalations \/ escalations' = Append(escalations, [at |-> now, life |-> life])
      BY <2>1 DEF Observe, Escalate
    <3> QED  BY <2>1, <3>1, <3>2, EscalationGrows DEF MonitorTypeOK
  <2>2. CASE ~(Bad(r) /\ Dwell(r) >= EscalationDwell /\ ~escalated)
    <3>1. UNCHANGED escalations /\ escalated' = (Bad(r) /\ escalated)
      BY <2>2 DEF Observe, Escalate
    <3>2. escalated' \in BOOLEAN /\ (escalated' = FALSE => escalated = FALSE \/ ~Bad(r))
      BY <3>1 DEF MonitorTypeOK
    <3> QED  BY <3>1, <3>2 DEF MonitorTypeOK
  <2> QED  BY <2>1, <2>2
<1>8. UNCHANGED <<now, mrt, arm, withdrawn, lastAct, rateAt, spell, decisions, acts, life,
                  failed>>
  BY DEF Observe, world, memory, rows
<1>9. MonitorTypeOK'
  BY <1>1, <1>2, <1>3, <1>4, <1>5, <1>6, <1>7, <1>8 DEF MonitorTypeOK, InTime, Typed
<1>10. Typed'
  BY <1>9, TypesTypedNext
<1>11. InTime'
  BY <1>1, <1>10, <1>2, <1>3, <1>4, <1>5, <1>6, <1>7, <1>8 DEF InTime, CyclePast, At,
    DecisionAdded, Grown, Typed
<1>12. ActsPast'
  BY <1>1, <1>10, <1>2, <1>3, <1>4, <1>5, <1>6, <1>7, <1>8 DEF ActsPast, ActAllowed, InTime, At,
    ActAdded, Grown, Typed
<1>13. ActAllowed'
  BY <1>1, <1>10, <1>2, <1>3, <1>4, <1>5, <1>6, <1>7, <1>8 DEF ActAllowed, Ready, InTime, At,
    Typed
<1>14. ActsLawful'
  BY <1>1, <1>10, <1>2, <1>3, <1>4, <1>5, <1>6, <1>7, <1>8 DEF ActsLawful, WithdrawalHeeded,
    ActsPast, ActAllowed, Ready, At, ActAdded, Grown, Typed
<1>15. EscalationsPast'
  <2>1. /\ \A s \in DOMAIN samples : s \in DOMAIN samples' /\ samples'[s] = samples[s]
        /\ \E s \in DOMAIN samples' : samples'[s].at = now /\ samples'[s].regime = r
        /\ \A s \in DOMAIN samples' :
             s \in DOMAIN samples \/ (samples'[s].at = now /\ samples'[s].regime = r)
    BY <1>2, <1>3, <1>4, <1>5, <1>6, <1>7, <1>8 DEF SampleAdded, Grown
  <2> SUFFICES ASSUME NEW i \in DOMAIN escalations'
               PROVE  /\ escalations'[i].life <= life /\ escalations'[i].at <= now
                      /\ escalations'[i].life = life /\ ~escalated' =>
                           \E s \in DOMAIN samples' :
                             samples'[s].at > escalations'[i].at /\ samples'[s].regime = Productive
    BY <1>2, <1>3, <1>4, <1>5, <1>6, <1>7, <1>8 DEF EscalationsPast
  <2>2. ASSUME i \in DOMAIN escalations
        PROVE  /\ escalations[i].life <= life /\ escalations[i].at <= loop.at
               /\ escalations[i].at \in Nat /\ now \in Nat /\ loop.at \in Nat
               /\ escalations[i].life = life /\ ~escalated =>
                    \E s \in DOMAIN samples :
                      samples[s].at > escalations[i].at /\ samples[s].regime = Productive
    BY <1>1, <2>2, <1>2, <1>3, <1>4, <1>5, <1>6, <1>7, <1>8 DEF EscalationsPast, At, Typed
  <2>3. CASE escalated' = TRUE /\ EscalationAdded
    <3>1. \/ i \in DOMAIN escalations /\ escalations'[i] = escalations[i]
          \/ escalations'[i].at = now /\ escalations'[i].life = life
      BY <2>3 DEF EscalationAdded, Grown
    <3> QED  BY <1>1, <1>2, <2>2, <2>3, <3>1 DEF Typed
  <2>4. CASE UNCHANGED escalations /\ (escalated' = FALSE => escalated = FALSE \/ ~Bad(r))
    <3>1. CASE ~escalated'
      <4>1. escalated = FALSE \/ r = Productive
        BY <2>4, <3>1, <1>2, <1>3, <1>4, <1>5, <1>6, <1>7, <1>8 DEF Bad, Regimes
      <4> QED  BY <1>2, <2>1, <2>2, <2>4, <4>1
    <3>2. CASE escalated'
      BY <1>2, <2>2, <2>4, <3>2
    <3> QED  BY <3>1, <3>2
  <2> QED  BY <2>3, <2>4, <1>2, <1>3, <1>4, <1>5, <1>6, <1>7, <1>8
<1>16. EscalatedOnce'
  <2>1. /\ \A s \in DOMAIN samples : s \in DOMAIN samples' /\ samples'[s] = samples[s]
        /\ \E s \in DOMAIN samples' : samples'[s].at = now /\ samples'[s].regime = r
        /\ \A s \in DOMAIN samples' :
             s \in DOMAIN samples \/ (samples'[s].at = now /\ samples'[s].regime = r)
    BY <1>2, <1>3, <1>4, <1>5, <1>6, <1>7, <1>8 DEF SampleAdded, Grown
  <2>2. ASSUME NEW i \in DOMAIN escalations, NEW j \in DOMAIN escalations, i < j,
               escalations[i].life = escalations[j].life
        PROVE  \E s \in DOMAIN samples' :
                 /\ samples'[s].at > escalations[i].at /\ samples'[s].at < escalations[j].at
                 /\ samples'[s].regime = Productive
    BY <2>1, <2>2 DEF EscalatedOnce, Between
  <2>3. CASE escalated = FALSE /\ EscalationAdded
    <3>1. PICK n \in DOMAIN escalations' :
            /\ escalations'[n].at = now /\ escalations'[n].life = life
            /\ \A i \in DOMAIN escalations : i < n /\ escalations'[i] = escalations[i]
            /\ \A i \in DOMAIN escalations' : i \in DOMAIN escalations \/ i = n
      BY <2>3 DEF EscalationAdded, Grown
    <3>2. \A i \in DOMAIN escalations : escalations[i].life = life =>
            \E s \in DOMAIN samples :
              /\ samples[s].at > escalations[i].at /\ samples[s].regime = Productive
              /\ samples[s].at < now
      BY <1>1, <1>2, <2>3 DEF EscalationsPast, CyclePast, At, Typed
    <3>3. \A i \in DOMAIN escalations' : i \in Nat
      BY <1>10 DEF Typed
    <3>4. ASSUME NEW i \in DOMAIN escalations', NEW j \in DOMAIN escalations', i < j,
                 escalations'[i].life = escalations'[j].life
          PROVE  \E s \in DOMAIN samples' :
                   /\ samples'[s].at > escalations'[i].at /\ samples'[s].at < escalations'[j].at
                   /\ samples'[s].regime = Productive
      <4>1. i \in DOMAIN escalations
        BY <3>1, <3>3, <3>4
      <4>2. CASE j \in DOMAIN escalations
        BY <2>2, <3>1, <3>4, <4>1, <4>2
      <4>3. CASE j = n
        BY <2>1, <3>1, <3>2, <3>4, <4>1, <4>3
      <4> QED  BY <3>1, <4>2, <4>3
    <3> QED  BY <3>4 DEF EscalatedOnce, Between
  <2>4. CASE UNCHANGED escalations
    BY <2>2, <2>4 DEF EscalatedOnce, Between
  <2> QED  BY <2>3, <2>4, <1>2, <1>3, <1>4, <1>5, <1>6, <1>7, <1>8
<1>17. CyclePast'
  <2>1. \A s \in DOMAIN samples' : samples'[s].at = now \/ (s \in DOMAIN samples /\ samples'[s] = samples[s])
    BY <1>2, <1>3, <1>4, <1>5, <1>6, <1>7, <1>8 DEF SampleAdded, Grown
  <2>2. \A s \in DOMAIN samples' : samples'[s].at <= now
    BY <1>1, <1>2, <2>1 DEF CyclePast, At, Typed
  <2>3. \A i \in DOMAIN decisions :
          decisions[i].at <= now /\ (decisions[i].exit # None => decisions[i].exit <= now)
    BY <1>1, <1>2 DEF CyclePast, At, Typed
  <2> QED  BY <2>2, <2>3, <1>2, <1>3, <1>4, <1>5, <1>6, <1>7, <1>8 DEF CyclePast
<1>18. CycleSampled'
  BY <1>1, <1>10, <1>2, <1>3, <1>4, <1>5, <1>6, <1>7, <1>8 DEF CycleSampled, InCycle, At,
    SampleAdded, Grown, Typed
<1>19. Finalized'
  BY <1>1, <1>10, <1>2, <1>3, <1>4, <1>5, <1>6, <1>7, <1>8 DEF Finalized, ActAllowed, At,
    DecisionAdded, Grown, Typed
<1>20. ASSUME ~failed' PROVE ExitsTrue' /\ OpenPoints' /\ SpellKnown'
  <2>1. ExitsTrue /\ OpenPoints /\ SpellKnown
    BY <1>20, <1>2, <1>3, <1>4, <1>5, <1>6, <1>7, <1>8
  <2>2. ExitsTrue'
    BY <2>1, <1>2, <1>3, <1>4, <1>5, <1>6, <1>7, <1>8, ExitsStayTrue
  <2>3. OpenPoints'
    <3>1. /\ \A s \in DOMAIN samples : s \in DOMAIN samples' /\ samples'[s] = samples[s]
          /\ \E s \in DOMAIN samples' : samples'[s].at = now /\ samples'[s].regime = r
          /\ \A s \in DOMAIN samples' :
               s \in DOMAIN samples \/ (samples'[s].at = now /\ samples'[s].regime = r)
      BY <1>2, <1>3, <1>4, <1>5, <1>6, <1>7, <1>8 DEF SampleAdded, Grown
    <3> SUFFICES ASSUME spell # None, NEW i \in spell.open
                 PROVE  /\ decisions[i].exit = None
                        /\ Dwell(r) = 0 => decisions[i].regime # r
                        /\ Dwell(r) # 0 => decisions[i].regime = r
                        /\ \A s \in DOMAIN samples' :
                             /\ samples'[s].at > decisions[i].at
                             /\ Dwell(r) = 0 => samples'[s].at < now
                             => samples'[s].regime = decisions[i].regime
      BY <1>2, <1>3, <1>4, <1>5, <1>6, <1>7, <1>8 DEF OpenPoints, Turning, At
    <3>2. /\ decisions[i].exit = None /\ decisions[i].regime = tracker.regime
          /\ \A s \in DOMAIN samples :
               samples[s].at > decisions[i].at => samples[s].regime = decisions[i].regime
      BY <2>1, <1>2, <1>3, <1>4, <1>5, <1>6, <1>7, <1>8 DEF OpenPoints, Turning, At
    <3> QED  BY <1>1, <1>3, <3>1, <3>2 DEF Typed
  <2>4. SpellKnown'
    BY <1>1, <1>10, <2>1, <1>2, <1>3, <1>4, <1>5, <1>6, <1>7, <1>8 DEF SpellKnown, Turning,
      Finalized, CycleSampled, InCycle, Bad, At, Regimes, Typed
  <2> QED  BY <2>2, <2>3, <2>4
<1> QED  BY <1>9, <1>11, <1>12, <1>13, <1>14, <1>15, <1>16, <1>17, <1>18, <1>19, <1>20

\* The tracker moves on, and nothing is written.
LEMMA ObserveFailsMonitored ==
  ASSUME MonitorInv, NEW r \in Regimes, ObserveFails(r)
  PROVE  MonitorInv'
<1> USE DEF MonitorInv
<1>1. Typed
  BY TypesTyped
<1>2. loop.pc = "asleep" /\ loop.at < now /\ tracker.since <= loop.at
  BY DEF ObserveFails, At, CyclePast
<1>3. /\ loop' \in LoopStates /\ loop'.pc = "asleep" /\ loop'.at = now
      /\ loop'.regime = Productive /\ loop'.dwell = 0
  BY <1>1 DEF ObserveFails, Asleep, LoopStates, Typed, Regimes
<1>4. /\ tracker' \in [regime : Regimes \cup {None}, since : Nat]
      /\ tracker'.regime = r /\ tracker'.since <= now
  BY <1>2, <1>1 DEF ObserveFails, Typed, MonitorTypeOK
<1>5. failed' = TRUE
  BY DEF ObserveFails
<1>6. UNCHANGED <<now, mrt, arm, withdrawn, lastAct, rateAt, escalated, spell, samples,
                  escalations, decisions, acts, life>>
  BY DEF ObserveFails, world, rows, memory
<1>7. MonitorTypeOK'
  BY <1>1, <1>2, <1>3, <1>4, <1>5, <1>6 DEF MonitorTypeOK, InTime, Typed
<1>8. Typed'
  BY <1>7, TypesTypedNext
<1>9. InTime'
  BY <1>1, <1>8, <1>2, <1>3, <1>4, <1>5, <1>6 DEF InTime, CyclePast, At, DecisionAdded, Grown,
    Typed
<1>10. ActsPast'
  BY <1>1, <1>8, <1>2, <1>3, <1>4, <1>5, <1>6 DEF ActsPast, ActAllowed, InTime, At, ActAdded,
    Grown, Typed
<1>11. ActAllowed'
  BY <1>1, <1>8, <1>2, <1>3, <1>4, <1>5, <1>6 DEF ActAllowed, Ready, InTime, At, Typed
<1>12. ActsLawful'
  BY <1>1, <1>8, <1>2, <1>3, <1>4, <1>5, <1>6 DEF ActsLawful, WithdrawalHeeded, ActsPast,
    ActAllowed, Ready, At, ActAdded, Grown, Typed
<1>13. EscalationsPast'
  BY <1>1, <1>8, <1>2, <1>3, <1>4, <1>5, <1>6 DEF EscalationsPast, InTime, CyclePast, At, Bad,
    Regimes, SampleAdded, EscalationAdded, Grown, Typed
<1>14. EscalatedOnce'
  BY <1>1, <1>8, <1>2, <1>3, <1>4, <1>5, <1>6 DEF EscalatedOnce, EscalationsPast, CyclePast,
    Between, At, Bad, Regimes, SampleAdded, EscalationAdded, Grown, Typed
<1>15. CyclePast'
  BY <1>1, <1>8, <1>2, <1>3, <1>4, <1>5, <1>6 DEF CyclePast, InTime, At, SampleAdded,
    DecisionAdded, Grown, Typed
<1>16. CycleSampled'
  BY <1>1, <1>8, <1>2, <1>3, <1>4, <1>5, <1>6 DEF CycleSampled, InCycle, At, SampleAdded, Grown,
    Typed
<1>17. Finalized'
  BY <1>1, <1>8, <1>2, <1>3, <1>4, <1>5, <1>6 DEF Finalized, ActAllowed, At, DecisionAdded,
    Grown, Typed
<1>18. ASSUME ~failed' PROVE ExitsTrue' /\ OpenPoints' /\ SpellKnown'
  BY <1>18, <1>2, <1>3, <1>4, <1>5, <1>6
<1> QED  BY <1>7, <1>9, <1>10, <1>11, <1>12, <1>13, <1>14, <1>15, <1>16, <1>17, <1>18

\* Outside the trial the control law decides.
LEMMA DecideMonitored ==
  ASSUME MonitorInv, Decide
  PROVE  MonitorInv'
<1> USE DEF MonitorInv
<1>1. Typed
  BY TypesTyped
<1>2. loop.pc = "decide" /\ ~mrt
  BY DEF Decide, At
<1>3. \/ Goto("asleep") /\ UNCHANGED <<acts, lastAct>>
      \/ Goto("asleep") /\ Ready /\ acts' = Append(acts, Act("withheld")) /\ lastAct' = loop.at
      \/ Goto("authorize") /\ Ready /\ UNCHANGED <<acts, lastAct>>
  BY VerdictFacts, <1>1 DEF Decide, CycleEnds, Withhold
<1>4. /\ loop' \in LoopStates /\ loop'.pc \in {"asleep", "authorize"}
      /\ loop'.at = loop.at /\ loop'.regime = loop.regime /\ loop'.dwell = loop.dwell
  BY <1>3, LoopMoves
<1>5. /\ acts' \in Seq(Acts)
      /\ \/ UNCHANGED <<acts, lastAct>> /\ (loop'.pc = "authorize" => Ready)
         \/ /\ loop'.pc = "asleep" /\ Ready /\ lastAct' = loop.at
            /\ ActAdded("withheld")
  BY <1>3, LoopMoves, ActGrows DEF MonitorTypeOK
<1>6. UNCHANGED <<now, mrt, arm, withdrawn, tracker, rateAt, escalated, spell, samples,
                  escalations, decisions, life, failed>>
  BY DEF Decide, world, memory, rows
<1>7. MonitorTypeOK'
  BY <1>1, <1>2, <1>4, <1>5, <1>6 DEF MonitorTypeOK, InTime, Typed
<1>8. Typed'
  BY <1>7, TypesTypedNext
<1>9. InTime'
  BY <1>1, <1>8, <1>2, <1>4, <1>5, <1>6 DEF InTime, CyclePast, At, DecisionAdded, Grown, Typed
<1>10. ActsPast'
  BY <1>1, <1>8, <1>2, <1>4, <1>5, <1>6 DEF ActsPast, ActAllowed, InTime, At, ActAdded, Grown,
    Typed
<1>11. ActAllowed'
  BY <1>1, <1>8, <1>2, <1>4, <1>5, <1>6 DEF ActAllowed, Ready, InTime, At, Typed
<1>12. ActsLawful'
  <2>1. CASE UNCHANGED acts
    BY <2>1, <1>2, <1>4, <1>5, <1>6 DEF ActsLawful, WithdrawalHeeded
  <2>2. CASE ActAdded("withheld") /\ Ready
    BY <2>2, <1>2, <1>4, <1>5, <1>6, ActsStayLawful
  <2> QED  BY <2>1, <2>2, <1>2, <1>4, <1>5, <1>6
<1>13. EscalationsPast'
  BY <1>1, <1>8, <1>2, <1>4, <1>5, <1>6 DEF EscalationsPast, InTime, CyclePast, At, Bad,
    Regimes, SampleAdded, EscalationAdded, Grown, Typed
<1>14. EscalatedOnce'
  BY <1>1, <1>8, <1>2, <1>4, <1>5, <1>6 DEF EscalatedOnce, EscalationsPast, CyclePast, Between,
    At, Bad, Regimes, SampleAdded, EscalationAdded, Grown, Typed
<1>15. CyclePast'
  BY <1>1, <1>8, <1>2, <1>4, <1>5, <1>6 DEF CyclePast, InTime, At, SampleAdded, DecisionAdded,
    Grown, Typed
<1>16. CycleSampled'
  BY <1>1, <1>8, <1>2, <1>4, <1>5, <1>6 DEF CycleSampled, InCycle, At, SampleAdded, Grown, Typed
<1>17. Finalized'
  BY <1>1, <1>8, <1>2, <1>4, <1>5, <1>6 DEF Finalized, ActAllowed, At, DecisionAdded, Grown, Typed
<1>18. ASSUME ~failed' PROVE ExitsTrue' /\ OpenPoints' /\ SpellKnown'
  <2>1. ExitsTrue /\ OpenPoints /\ SpellKnown
    BY <1>18, <1>2, <1>4, <1>5, <1>6
  <2>2. ExitsTrue'
    BY <1>1, <1>8, <2>1, <1>2, <1>4, <1>5, <1>6 DEF ExitsTrue, ExitOf, Between, OpenPoints,
      Turning, CyclePast, CycleSampled, InCycle, At, SampleAdded, DecisionAdded, Grown, Typed
  <2>3. OpenPoints'
    BY <1>1, <1>8, <2>1, <1>2, <1>4, <1>5, <1>6 DEF OpenPoints, Turning, CyclePast,
      CycleSampled, InCycle, Finalized, InTime, At, SampleAdded, DecisionAdded, Grown, Typed
  <2>4. SpellKnown'
    BY <1>1, <1>8, <2>1, <1>2, <1>4, <1>5, <1>6 DEF SpellKnown, Turning, Finalized,
      CycleSampled, InCycle, Bad, At, Regimes, Typed
  <2> QED  BY <2>2, <2>3, <2>4
<1> QED  BY <1>7, <1>9, <1>10, <1>11, <1>12, <1>13, <1>14, <1>15, <1>16, <1>17, <1>18

\* The gate of the interface opens to a consent, in the closed arm.
LEMMA AuthorizeMonitored ==
  ASSUME MonitorInv, Authorize
  PROVE  MonitorInv'
<1> USE DEF MonitorInv
<1>1. Typed
  BY TypesTyped
<1>2. /\ loop.pc = "authorize" /\ loop' \in LoopStates
      /\ loop'.at = loop.at /\ loop'.regime = loop.regime /\ loop'.dwell = loop.dwell
  BY LoopMoves DEF Authorize, At, CycleEnds
<1>3. \/ loop'.pc = "generate" /\ withdrawn = None /\ arm = "closed"
      \/ loop'.pc = "asleep"
  BY LoopMoves, <1>1 DEF Authorize, CycleEnds, Typed
<1>4. UNCHANGED <<now, mrt, arm, withdrawn, tracker, lastAct, rateAt, escalated, spell, samples,
                  escalations, decisions, acts, life, failed>>
  BY DEF Authorize, world, memory, rows
<1>5. MonitorTypeOK'
  BY <1>1, <1>2, <1>3, <1>4 DEF MonitorTypeOK, InTime, Typed
<1>6. Typed'
  BY <1>5, TypesTypedNext
<1>7. InTime'
  BY <1>1, <1>6, <1>2, <1>3, <1>4 DEF InTime, CyclePast, At, DecisionAdded, Grown, Typed
<1>8. ActsPast'
  BY <1>1, <1>6, <1>2, <1>3, <1>4 DEF ActsPast, ActAllowed, InTime, At, ActAdded, Grown, Typed
<1>9. ActAllowed'
  BY <1>1, <1>6, <1>2, <1>3, <1>4 DEF ActAllowed, Ready, InTime, At, Typed
<1>10. ActsLawful'
  BY <1>1, <1>6, <1>2, <1>3, <1>4 DEF ActsLawful, WithdrawalHeeded, ActsPast, ActAllowed, Ready,
    At, ActAdded, Grown, Typed
<1>11. EscalationsPast'
  BY <1>1, <1>6, <1>2, <1>3, <1>4 DEF EscalationsPast, InTime, CyclePast, At, Bad, Regimes,
    SampleAdded, EscalationAdded, Grown, Typed
<1>12. EscalatedOnce'
  BY <1>1, <1>6, <1>2, <1>3, <1>4 DEF EscalatedOnce, EscalationsPast, CyclePast, Between, At,
    Bad, Regimes, SampleAdded, EscalationAdded, Grown, Typed
<1>13. CyclePast'
  BY <1>1, <1>6, <1>2, <1>3, <1>4 DEF CyclePast, InTime, At, SampleAdded, DecisionAdded, Grown,
    Typed
<1>14. CycleSampled'
  BY <1>1, <1>6, <1>2, <1>3, <1>4 DEF CycleSampled, InCycle, At, SampleAdded, Grown, Typed
<1>15. Finalized'
  BY <1>1, <1>6, <1>2, <1>3, <1>4 DEF Finalized, ActAllowed, At, DecisionAdded, Grown, Typed
<1>16. ASSUME ~failed' PROVE ExitsTrue' /\ OpenPoints' /\ SpellKnown'
  <2>1. ExitsTrue /\ OpenPoints /\ SpellKnown
    BY <1>16, <1>2, <1>3, <1>4
  <2>2. ExitsTrue'
    BY <1>1, <1>6, <2>1, <1>2, <1>3, <1>4 DEF ExitsTrue, ExitOf, Between, OpenPoints, Turning,
      CyclePast, CycleSampled, InCycle, At, SampleAdded, DecisionAdded, Grown, Typed
  <2>3. OpenPoints'
    BY <1>1, <1>6, <2>1, <1>2, <1>3, <1>4 DEF OpenPoints, Turning, CyclePast, CycleSampled,
      InCycle, Finalized, InTime, At, SampleAdded, DecisionAdded, Grown, Typed
  <2>4. SpellKnown'
    BY <1>1, <1>6, <2>1, <1>2, <1>3, <1>4 DEF SpellKnown, Turning, Finalized, CycleSampled,
      InCycle, Bad, At, Regimes, Typed
  <2> QED  BY <2>2, <2>3, <2>4
<1> QED  BY <1>5, <1>7, <1>8, <1>9, <1>10, <1>11, <1>12, <1>13, <1>14, <1>15, <1>16

\* What the agent answers is shown, if it answers.
LEMMA GenerateMonitored ==
  ASSUME MonitorInv, Generate
  PROVE  MonitorInv'
<1> USE DEF MonitorInv
<1>1. Typed
  BY TypesTyped
<1>2. /\ loop.pc = "generate" /\ loop' \in LoopStates
      /\ loop'.at = loop.at /\ loop'.regime = loop.regime /\ loop'.dwell = loop.dwell
  BY LoopMoves DEF Generate, At, CycleEnds
<1>3. /\ acts' \in Seq(Acts)
      /\ \/ loop'.pc = "asleep" /\ UNCHANGED <<lastAct, acts>>
         \/ loop'.pc = "record" /\ lastAct' = now /\ UNCHANGED acts
         \/ /\ loop'.pc = "record" /\ lastAct' = now
            /\ ActAdded("delivered")
  BY LoopMoves, ActGrows DEF Generate, CycleEnds, MonitorTypeOK
<1>4. UNCHANGED <<now, mrt, arm, withdrawn, tracker, rateAt, escalated, spell, samples,
                  escalations, decisions, life, failed>>
  BY DEF Generate, world, memory, rows
<1>5. MonitorTypeOK'
  BY <1>1, <1>2, <1>3, <1>4 DEF MonitorTypeOK, InTime, Typed
<1>6. Typed'
  BY <1>5, TypesTypedNext
<1>7. InTime'
  BY <1>1, <1>6, <1>2, <1>3, <1>4 DEF InTime, CyclePast, At, DecisionAdded, Grown, Typed
<1>8. ActsPast'
  <2>1. CASE UNCHANGED acts /\ lastAct' \in {lastAct, now}
    BY <1>1, <2>1, <1>2, <1>3, <1>4 DEF ActsPast, At, InTime, Typed
  <2>2. CASE ActAdded("delivered") /\ lastAct' = now
    BY <2>2, <1>2, <1>3, <1>4, ActsStayPast
  <2> QED  BY <2>1, <2>2, <1>2, <1>3, <1>4
<1>9. ActAllowed'
  BY <1>1, <1>6, <1>2, <1>3, <1>4 DEF ActAllowed, Ready, InTime, At, Typed
<1>10. ActsLawful'
  <2>1. CASE UNCHANGED acts
    BY <2>1, <1>2, <1>3, <1>4 DEF ActsLawful, WithdrawalHeeded
  <2>2. CASE ActAdded("delivered")
    <3>1. /\ Ready /\ arm = "closed" /\ loop.pc # "ended" /\ mrt' = mrt
          /\ mrt \/ withdrawn = None \/ withdrawn >= loop.at
      BY <1>2, <1>3, <1>4 DEF ActAllowed, At
    <3> QED  BY <2>2, <3>1, ActsStayLawful
  <2> QED  BY <2>1, <2>2, <1>2, <1>3, <1>4
<1>11. EscalationsPast'
  BY <1>1, <1>6, <1>2, <1>3, <1>4 DEF EscalationsPast, InTime, CyclePast, At, Bad, Regimes,
    SampleAdded, EscalationAdded, Grown, Typed
<1>12. EscalatedOnce'
  BY <1>1, <1>6, <1>2, <1>3, <1>4 DEF EscalatedOnce, EscalationsPast, CyclePast, Between, At,
    Bad, Regimes, SampleAdded, EscalationAdded, Grown, Typed
<1>13. CyclePast'
  BY <1>1, <1>6, <1>2, <1>3, <1>4 DEF CyclePast, InTime, At, SampleAdded, DecisionAdded, Grown,
    Typed
<1>14. CycleSampled'
  BY <1>1, <1>6, <1>2, <1>3, <1>4 DEF CycleSampled, InCycle, At, SampleAdded, Grown, Typed
<1>15. Finalized'
  BY <1>1, <1>6, <1>2, <1>3, <1>4 DEF Finalized, ActAllowed, At, DecisionAdded, Grown, Typed
<1>16. ASSUME ~failed' PROVE ExitsTrue' /\ OpenPoints' /\ SpellKnown'
  <2>1. ExitsTrue /\ OpenPoints /\ SpellKnown
    BY <1>16, <1>2, <1>3, <1>4
  <2>2. ExitsTrue'
    BY <1>1, <1>6, <2>1, <1>2, <1>3, <1>4 DEF ExitsTrue, ExitOf, Between, OpenPoints, Turning,
      CyclePast, CycleSampled, InCycle, At, SampleAdded, DecisionAdded, Grown, Typed
  <2>3. OpenPoints'
    BY <1>1, <1>6, <2>1, <1>2, <1>3, <1>4 DEF OpenPoints, Turning, CyclePast, CycleSampled,
      InCycle, Finalized, InTime, At, SampleAdded, DecisionAdded, Grown, Typed
  <2>4. SpellKnown'
    BY <1>1, <1>6, <2>1, <1>2, <1>3, <1>4 DEF SpellKnown, Turning, Finalized, CycleSampled,
      InCycle, Bad, At, Regimes, Typed
  <2> QED  BY <2>2, <2>3, <2>4
<1> QED  BY <1>5, <1>7, <1>8, <1>9, <1>10, <1>11, <1>12, <1>13, <1>14, <1>15, <1>16

\* The rate window is stamped, or the cooldown of the trial.
LEMMA RecordMonitored ==
  ASSUME MonitorInv, Record
  PROVE  MonitorInv'
<1> USE DEF MonitorInv
<1>1. Typed
  BY TypesTyped
<1>2. /\ loop.pc = "record" /\ loop' \in LoopStates /\ loop'.pc = "asleep"
      /\ loop'.at = loop.at /\ loop'.regime = loop.regime /\ loop'.dwell = loop.dwell
  BY LoopMoves DEF Record, At, CycleEnds
<1>3. \/ rateAt' = now /\ UNCHANGED lastAct
      \/ lastAct' = loop.at /\ UNCHANGED rateAt
  BY DEF Record
<1>4. UNCHANGED <<now, mrt, arm, withdrawn, tracker, escalated, spell, samples, escalations,
                  decisions, acts, life, failed>>
  BY DEF Record, world, rows, memory
<1>5. MonitorTypeOK'
  BY <1>1, <1>2, <1>3, <1>4 DEF MonitorTypeOK, InTime, Typed
<1>6. Typed'
  BY <1>5, TypesTypedNext
<1>7. InTime'
  BY <1>1, <1>6, <1>2, <1>3, <1>4 DEF InTime, CyclePast, At, DecisionAdded, Grown, Typed
<1>8. ActsPast'
  BY <1>1, <1>6, <1>2, <1>3, <1>4 DEF ActsPast, ActAllowed, InTime, At, ActAdded, Grown, Typed
<1>9. ActAllowed'
  BY <1>1, <1>6, <1>2, <1>3, <1>4 DEF ActAllowed, Ready, InTime, At, Typed
<1>10. ActsLawful'
  BY <1>1, <1>6, <1>2, <1>3, <1>4 DEF ActsLawful, WithdrawalHeeded, ActsPast, ActAllowed, Ready,
    At, ActAdded, Grown, Typed
<1>11. EscalationsPast'
  BY <1>1, <1>6, <1>2, <1>3, <1>4 DEF EscalationsPast, InTime, CyclePast, At, Bad, Regimes,
    SampleAdded, EscalationAdded, Grown, Typed
<1>12. EscalatedOnce'
  BY <1>1, <1>6, <1>2, <1>3, <1>4 DEF EscalatedOnce, EscalationsPast, CyclePast, Between, At,
    Bad, Regimes, SampleAdded, EscalationAdded, Grown, Typed
<1>13. CyclePast'
  BY <1>1, <1>6, <1>2, <1>3, <1>4 DEF CyclePast, InTime, At, SampleAdded, DecisionAdded, Grown,
    Typed
<1>14. CycleSampled'
  BY <1>1, <1>6, <1>2, <1>3, <1>4 DEF CycleSampled, InCycle, At, SampleAdded, Grown, Typed
<1>15. Finalized'
  BY <1>1, <1>6, <1>2, <1>3, <1>4 DEF Finalized, ActAllowed, At, DecisionAdded, Grown, Typed
<1>16. ASSUME ~failed' PROVE ExitsTrue' /\ OpenPoints' /\ SpellKnown'
  <2>1. ExitsTrue /\ OpenPoints /\ SpellKnown
    BY <1>16, <1>2, <1>3, <1>4
  <2>2. ExitsTrue'
    BY <1>1, <1>6, <2>1, <1>2, <1>3, <1>4 DEF ExitsTrue, ExitOf, Between, OpenPoints, Turning,
      CyclePast, CycleSampled, InCycle, At, SampleAdded, DecisionAdded, Grown, Typed
  <2>3. OpenPoints'
    BY <1>1, <1>6, <2>1, <1>2, <1>3, <1>4 DEF OpenPoints, Turning, CyclePast, CycleSampled,
      InCycle, Finalized, InTime, At, SampleAdded, DecisionAdded, Grown, Typed
  <2>4. SpellKnown'
    BY <1>1, <1>6, <2>1, <1>2, <1>3, <1>4 DEF SpellKnown, Turning, Finalized, CycleSampled,
      InCycle, Bad, At, Regimes, Typed
  <2> QED  BY <2>2, <2>3, <2>4
<1> QED  BY <1>5, <1>7, <1>8, <1>9, <1>10, <1>11, <1>12, <1>13, <1>14, <1>15, <1>16

\* The spell is turned with the regime: its points take their exits.
LEMMA TurnSpellMonitored ==
  ASSUME MonitorInv, TurnSpell
  PROVE  MonitorInv'
<1> USE DEF MonitorInv
<1>1. Typed
  BY TypesTyped
<1>2. /\ loop.pc = "decide" /\ mrt /\ loop' \in LoopStates /\ loop'.pc = "draw"
      /\ loop'.at = loop.at /\ loop'.regime = loop.regime /\ loop'.dwell = loop.dwell
  BY LoopMoves DEF TurnSpell, At
<1>3. /\ loop.dwell # 0 => UNCHANGED <<spell, decisions>>
      /\ loop.dwell = 0 => /\ ~Bad(loop.regime) => spell' = None
                           /\ Bad(loop.regime) => spell' \in Spells /\ spell'.open = {} /\ spell' # None
  <2>1. \A t \in Thresholds : [threshold |-> t, open |-> {}] \in Spells
    BY DEF Spells
  <2>2. \A t \in Thresholds : [threshold |-> t, open |-> {}] # None
    BY <2>1, NoneIsNoSpell
  <2> QED  BY <2>1, <2>2 DEF TurnSpell, Opened
<1>4. /\ decisions' \in Seq(Decisions) /\ DOMAIN decisions' = DOMAIN decisions
      /\ \A i \in DOMAIN decisions :
           /\ decisions'[i].at = decisions[i].at /\ decisions'[i].regime = decisions[i].regime
           /\ decisions'[i].censored = decisions[i].censored
           /\ \/ decisions'[i].exit = decisions[i].exit
                 /\ (loop.dwell = 0 /\ spell # None => i \notin spell.open)
              \/ /\ decisions'[i].exit = loop.at
                 /\ loop.dwell = 0 /\ spell # None /\ i \in spell.open
  <2>1. CASE UNCHANGED decisions /\ ~(loop.dwell = 0 /\ spell # None)
    BY <2>1 DEF MonitorTypeOK
  <2>2. CASE decisions' = Exited /\ loop.dwell = 0 /\ spell # None
    <3>1. /\ DOMAIN Exited = DOMAIN decisions /\ Exited = [i \in DOMAIN decisions |-> Exited[i]]
          /\ \A i \in DOMAIN decisions :
               Exited[i] = IF i \in spell.open THEN [decisions[i] EXCEPT !.exit = loop.at] ELSE decisions[i]
      BY DEF Exited
    <3>2. \A i \in DOMAIN decisions : decisions[i] \in Decisions
      BY DEF MonitorTypeOK
    <3>3. \A d \in Decisions :
            LET e == [d EXCEPT !.exit = loop.at]
            IN /\ e \in Decisions /\ e.at = d.at /\ e.regime = d.regime
               /\ e.censored = d.censored /\ e.exit = loop.at
      BY <1>1 DEF Decisions, Typed
    <3>4. \A i \in DOMAIN decisions : Exited[i] \in Decisions
      BY <3>1, <3>2, <3>3
    <3>5. Exited \in Seq(Decisions)
      BY <3>1, <3>4, Replaced DEF MonitorTypeOK
    <3> QED  BY <2>2, <3>1, <3>2, <3>3, <3>5
  <2> QED  BY <2>1, <2>2 DEF TurnSpell
<1>5. UNCHANGED <<now, mrt, arm, withdrawn, tracker, lastAct, rateAt, escalated, samples,
                  escalations, acts, life, failed>>
  BY DEF TurnSpell, world, memory, rows
<1>6. MonitorTypeOK'
  BY <1>1, <1>2, <1>3, <1>4, <1>5 DEF MonitorTypeOK, InTime, Typed
<1>7. Typed'
  BY <1>6, TypesTypedNext
<1>8. InTime'
  BY <1>1, <1>7, <1>2, <1>3, <1>4, <1>5 DEF InTime, CyclePast, At, DecisionAdded, Grown, Typed
<1>9. ActsPast'
  BY <1>1, <1>7, <1>2, <1>3, <1>4, <1>5 DEF ActsPast, ActAllowed, InTime, At, ActAdded, Grown,
    Typed
<1>10. ActAllowed'
  BY <1>1, <1>7, <1>2, <1>3, <1>4, <1>5 DEF ActAllowed, Ready, InTime, At, Typed
<1>11. ActsLawful'
  BY <1>1, <1>7, <1>2, <1>3, <1>4, <1>5 DEF ActsLawful, WithdrawalHeeded, ActsPast, ActAllowed,
    Ready, At, ActAdded, Grown, Typed
<1>12. EscalationsPast'
  BY <1>1, <1>7, <1>2, <1>3, <1>4, <1>5 DEF EscalationsPast, InTime, CyclePast, At, Bad,
    Regimes, SampleAdded, EscalationAdded, Grown, Typed
<1>13. EscalatedOnce'
  BY <1>1, <1>7, <1>2, <1>3, <1>4, <1>5 DEF EscalatedOnce, EscalationsPast, CyclePast, Between,
    At, Bad, Regimes, SampleAdded, EscalationAdded, Grown, Typed
<1>14. CyclePast'
  BY <1>1, <1>7, <1>2, <1>3, <1>4, <1>5 DEF CyclePast, InTime, At, SampleAdded, DecisionAdded,
    Grown, Typed
<1>15. CycleSampled'
  BY <1>1, <1>7, <1>2, <1>3, <1>4, <1>5 DEF CycleSampled, InCycle, At, SampleAdded, Grown, Typed
<1>16. Finalized'
  BY <1>1, <1>7, <1>2, <1>3, <1>4, <1>5 DEF Finalized, ActAllowed, At, DecisionAdded, Grown, Typed
<1>17. ASSUME ~failed' PROVE ExitsTrue' /\ OpenPoints' /\ SpellKnown'
  <2>1. ExitsTrue /\ OpenPoints /\ SpellKnown
    BY <1>17, <1>2, <1>3, <1>4, <1>5
  <2>2. ExitsTrue'
    <3> SUFFICES ASSUME NEW i \in DOMAIN decisions, decisions'[i].exit # None
                 PROVE  /\ \E s \in DOMAIN samples : /\ samples[s].at = decisions'[i].exit
                                                     /\ samples[s].regime # decisions[i].regime
                        /\ \A s \in DOMAIN samples :
                             samples[s].at > decisions[i].at /\ samples[s].at < decisions'[i].exit =>
                               samples[s].regime = decisions[i].regime
      BY <1>2, <1>3, <1>4, <1>5 DEF ExitsTrue, ExitOf, Between
    <3>1. CASE decisions'[i].exit = decisions[i].exit
      BY <2>1, <3>1 DEF ExitsTrue, ExitOf, Between
    <3>2. CASE decisions'[i].exit = loop.at /\ loop.dwell = 0 /\ spell # None /\ i \in spell.open
      <4>1. Turning
        BY <3>2, <1>2, <1>3, <1>4, <1>5 DEF Turning, At
      <4>2. /\ decisions[i].regime # loop.regime
            /\ \A s \in DOMAIN samples :
                 samples[s].at > decisions[i].at /\ samples[s].at < loop.at =>
                   samples[s].regime = decisions[i].regime
        BY <2>1, <3>2, <4>1 DEF OpenPoints
      <4>3. \E s \in DOMAIN samples : samples[s].at = loop.at /\ samples[s].regime = loop.regime
        BY <1>2, <1>3, <1>4, <1>5 DEF CycleSampled, InCycle, At
      <4> QED  BY <3>2, <4>2, <4>3
    <3> QED  BY <3>1, <3>2, <1>2, <1>3, <1>4, <1>5
  <2>3. OpenPoints'
    BY <1>1, <1>7, <2>1, <1>2, <1>3, <1>4, <1>5 DEF OpenPoints, Turning, CyclePast,
      CycleSampled, InCycle, Finalized, InTime, At, SampleAdded, DecisionAdded, Grown, Typed
  <2>4. SpellKnown'
    BY <1>1, <1>7, <2>1, <1>2, <1>3, <1>4, <1>5 DEF SpellKnown, Turning, Finalized,
      CycleSampled, InCycle, Bad, At, Regimes, Typed
  <2> QED  BY <2>2, <2>3, <2>4
<1> QED  BY <1>6, <1>8, <1>9, <1>10, <1>11, <1>12, <1>13, <1>14, <1>15, <1>16, <1>17

\* The ids are lost: the trial's records are true no more.
LEMMA TurnSpellFailsMonitored ==
  ASSUME MonitorInv, TurnSpellFails
  PROVE  MonitorInv'
<1> USE DEF MonitorInv
<1>1. Typed
  BY TypesTyped
<1>2. /\ loop.pc = "decide" /\ loop' \in LoopStates /\ loop'.pc = "asleep"
      /\ loop'.at = loop.at /\ loop'.regime = loop.regime /\ loop'.dwell = loop.dwell
  BY LoopMoves DEF TurnSpellFails, At, CycleEnds
<1>3. failed' = TRUE /\ spell' = None
  BY DEF TurnSpellFails
<1>4. UNCHANGED <<now, mrt, arm, withdrawn, tracker, lastAct, rateAt, escalated, samples,
                  escalations, decisions, acts, life>>
  BY DEF TurnSpellFails, world, rows, memory
<1>5. MonitorTypeOK'
  BY <1>1, <1>2, <1>3, <1>4 DEF MonitorTypeOK, InTime, Typed
<1>6. Typed'
  BY <1>5, TypesTypedNext
<1>7. InTime'
  BY <1>1, <1>6, <1>2, <1>3, <1>4 DEF InTime, CyclePast, At, DecisionAdded, Grown, Typed
<1>8. ActsPast'
  BY <1>1, <1>6, <1>2, <1>3, <1>4 DEF ActsPast, ActAllowed, InTime, At, ActAdded, Grown, Typed
<1>9. ActAllowed'
  BY <1>1, <1>6, <1>2, <1>3, <1>4 DEF ActAllowed, Ready, InTime, At, Typed
<1>10. ActsLawful'
  BY <1>1, <1>6, <1>2, <1>3, <1>4 DEF ActsLawful, WithdrawalHeeded, ActsPast, ActAllowed, Ready,
    At, ActAdded, Grown, Typed
<1>11. EscalationsPast'
  BY <1>1, <1>6, <1>2, <1>3, <1>4 DEF EscalationsPast, InTime, CyclePast, At, Bad, Regimes,
    SampleAdded, EscalationAdded, Grown, Typed
<1>12. EscalatedOnce'
  BY <1>1, <1>6, <1>2, <1>3, <1>4 DEF EscalatedOnce, EscalationsPast, CyclePast, Between, At,
    Bad, Regimes, SampleAdded, EscalationAdded, Grown, Typed
<1>13. CyclePast'
  BY <1>1, <1>6, <1>2, <1>3, <1>4 DEF CyclePast, InTime, At, SampleAdded, DecisionAdded, Grown,
    Typed
<1>14. CycleSampled'
  BY <1>1, <1>6, <1>2, <1>3, <1>4 DEF CycleSampled, InCycle, At, SampleAdded, Grown, Typed
<1>15. Finalized'
  BY <1>1, <1>6, <1>2, <1>3, <1>4 DEF Finalized, ActAllowed, At, DecisionAdded, Grown, Typed
<1>16. ASSUME ~failed' PROVE ExitsTrue' /\ OpenPoints' /\ SpellKnown'
  BY <1>16, <1>2, <1>3, <1>4
<1> QED  BY <1>5, <1>7, <1>8, <1>9, <1>10, <1>11, <1>12, <1>13, <1>14, <1>15, <1>16

\* A decision point of the trial.
LEMMA DrawMonitored ==
  ASSUME MonitorInv, NEW hold \in BOOLEAN, Draw(hold)
  PROVE  MonitorInv'
<1> USE DEF MonitorInv
<1>1. Typed
  BY TypesTyped
<1>2. loop.pc = "draw" /\ spell # None
  BY DEF Draw, At
<1>3. \/ Goto("asleep") /\ UNCHANGED <<spell, decisions, acts, lastAct>>
      \/ \E kind \in {"withhold", "intervene"} :
           /\ spell' = [spell EXCEPT !.open = @ \cup {Len(decisions) + 1}]
           /\ decisions' = Append(decisions, Decision(kind))
           /\ Ready
           /\ \/ Goto("asleep") /\ acts' = Append(acts, Act("withheld")) /\ lastAct' = loop.at
              \/ Goto("generate") /\ arm = "closed" /\ UNCHANGED <<acts, lastAct>>
  BY VerdictFacts, <1>1 DEF Draw, CycleEnds, Withhold
<1>4. /\ loop' \in LoopStates /\ loop'.pc \in {"asleep", "generate"}
      /\ loop'.at = loop.at /\ loop'.regime = loop.regime /\ loop'.dwell = loop.dwell
  BY <1>3, LoopMoves
<1>5. /\ acts' \in Seq(Acts)
      /\ \/ UNCHANGED <<acts, lastAct>> /\ (loop'.pc = "generate" => Ready /\ arm = "closed")
         \/ /\ loop'.pc = "asleep" /\ Ready /\ lastAct' = loop.at
            /\ ActAdded("withheld")
  BY <1>3, LoopMoves, ActGrows DEF MonitorTypeOK
<1>6. /\ decisions' \in Seq(Decisions) /\ spell' \in Spells /\ spell' # None
      /\ \/ UNCHANGED <<spell, decisions>>
         \/ /\ spell'.open = spell.open \cup {Len(decisions) + 1}
            /\ DecisionAdded
  BY <1>2, <1>3, DecisionGrows, NoneIsNoSpell DEF MonitorTypeOK
<1>7. UNCHANGED <<now, mrt, arm, withdrawn, tracker, rateAt, escalated, samples, escalations,
                  life, failed>>
  BY DEF Draw, world, memory, rows
<1>8. MonitorTypeOK'
  BY <1>1, <1>2, <1>4, <1>5, <1>6, <1>7 DEF MonitorTypeOK, InTime, Typed
<1>9. Typed'
  BY <1>8, TypesTypedNext
<1>10. InTime'
  BY <1>1, <1>9, <1>2, <1>4, <1>5, <1>6, <1>7 DEF InTime, CyclePast, At, DecisionAdded, Grown,
    Typed
<1>11. ActsPast'
  <2>1. CASE UNCHANGED <<acts, lastAct>>
    BY <1>1, <2>1, <1>2, <1>4, <1>5, <1>6, <1>7 DEF ActsPast, At, InTime, Typed
  <2>2. CASE ActAdded("withheld") /\ lastAct' = loop.at
    BY <2>2, <1>2, <1>4, <1>5, <1>6, <1>7, ActsStayPast
  <2> QED  BY <2>1, <2>2, <1>2, <1>4, <1>5, <1>6, <1>7
<1>12. ActAllowed'
  BY <1>1, <1>9, <1>2, <1>4, <1>5, <1>6, <1>7 DEF ActAllowed, Ready, InTime, At, Typed
<1>13. ActsLawful'
  <2>1. CASE UNCHANGED acts
    BY <2>1, <1>2, <1>4, <1>5, <1>6, <1>7 DEF ActsLawful, WithdrawalHeeded
  <2>2. CASE ActAdded("withheld") /\ Ready
    BY <2>2, <1>2, <1>4, <1>5, <1>6, <1>7, ActsStayLawful
  <2> QED  BY <2>1, <2>2, <1>2, <1>4, <1>5, <1>6, <1>7
<1>14. EscalationsPast'
  BY <1>1, <1>9, <1>2, <1>4, <1>5, <1>6, <1>7 DEF EscalationsPast, InTime, CyclePast, At, Bad,
    Regimes, SampleAdded, EscalationAdded, Grown, Typed
<1>15. EscalatedOnce'
  BY <1>1, <1>9, <1>2, <1>4, <1>5, <1>6, <1>7 DEF EscalatedOnce, EscalationsPast, CyclePast,
    Between, At, Bad, Regimes, SampleAdded, EscalationAdded, Grown, Typed
<1>16. CyclePast'
  <2>1. \A i \in DOMAIN decisions' :
          \/ decisions'[i].at = loop.at /\ decisions'[i].exit = None
          \/ i \in DOMAIN decisions /\ decisions'[i] = decisions[i]
    BY <1>2, <1>4, <1>5, <1>6, <1>7 DEF DecisionAdded, Grown
  <2>2. \A i \in DOMAIN decisions' :
          /\ decisions'[i].at <= loop.at
          /\ decisions'[i].exit # None => decisions'[i].exit <= loop.at
    BY <1>1, <2>1, <1>2, <1>4, <1>5, <1>6, <1>7 DEF CyclePast, At, Typed
  <2> QED  BY <2>2, <1>2, <1>4, <1>5, <1>6, <1>7 DEF CyclePast, At
<1>17. CycleSampled'
  BY <1>1, <1>9, <1>2, <1>4, <1>5, <1>6, <1>7 DEF CycleSampled, InCycle, At, SampleAdded, Grown,
    Typed
<1>18. Finalized'
  BY <1>1, <1>9, <1>2, <1>4, <1>5, <1>6, <1>7 DEF Finalized, ActAllowed, At, DecisionAdded,
    Grown, Typed
<1>19. ASSUME ~failed' PROVE ExitsTrue' /\ OpenPoints' /\ SpellKnown'
  <2>1. ExitsTrue /\ OpenPoints /\ SpellKnown
    BY <1>19, <1>2, <1>4, <1>5, <1>6, <1>7
  <2>2. ExitsTrue'
    <3>1. CASE UNCHANGED decisions
      BY <2>1, <3>1, <1>2, <1>4, <1>5, <1>6, <1>7 DEF ExitsTrue, ExitOf, Between
    <3>2. CASE DecisionAdded
      BY <2>1, <3>2, <1>2, <1>4, <1>5, <1>6, <1>7, DecisionsStayTrue
    <3> QED  BY <3>1, <3>2, <1>2, <1>4, <1>5, <1>6, <1>7
  <2>3. OpenPoints'
    <3>1. CASE UNCHANGED <<spell, decisions>>
      BY <2>1, <3>1, <1>2, <1>4, <1>5, <1>6, <1>7 DEF OpenPoints, Turning, At
    <3>2. CASE spell'.open = spell.open \cup {Len(decisions) + 1} /\ DecisionAdded
      <4>1. PICK e \in Decisions : /\ Grown(decisions, decisions', Len(decisions) + 1, e)
                                   /\ e.at = loop.at /\ e.regime = loop.regime /\ e.exit = None
        BY <3>2 DEF DecisionAdded
      <4>2. spell.open \subseteq DOMAIN decisions /\ tracker.regime = loop.regime
        BY <1>2, <1>4, <1>5, <1>6, <1>7 DEF InTime, CycleSampled, InCycle, At
      <4>3. \A i \in spell'.open : decisions'[i] = e \/ (i \in spell.open /\ decisions'[i] = decisions[i])
        BY <3>2, <4>1, <4>2 DEF Grown
      <4>4. \A s \in DOMAIN samples : ~(samples[s].at > loop.at)
        BY <1>1, <1>2, <1>4, <1>5, <1>6, <1>7 DEF CyclePast, At, Typed
      <4>5. \A i \in spell.open :
              /\ decisions[i].exit = None /\ decisions[i].regime = tracker.regime
              /\ \A s \in DOMAIN samples :
                   samples[s].at > decisions[i].at => samples[s].regime = decisions[i].regime
        BY <2>1, <1>2, <1>4, <1>5, <1>6, <1>7 DEF OpenPoints, Turning, At
      <4> QED  BY <4>1, <4>2, <4>3, <4>4, <4>5, <1>2, <1>4, <1>5, <1>6, <1>7 DEF OpenPoints,
        Turning, At
    <3> QED  BY <3>1, <3>2, <1>2, <1>4, <1>5, <1>6, <1>7
  <2>4. SpellKnown'
    BY <1>1, <1>9, <2>1, <1>2, <1>4, <1>5, <1>6, <1>7 DEF SpellKnown, Turning, Finalized,
      CycleSampled, InCycle, Bad, At, Regimes, Typed
  <2> QED  BY <2>2, <2>3, <2>4
<1> QED  BY <1>8, <1>10, <1>11, <1>12, <1>13, <1>14, <1>15, <1>16, <1>17, <1>18, <1>19

\* A decision point that cannot be recorded, or comes to nothing.
LEMMA DrawFailsMonitored ==
  ASSUME MonitorInv, DrawFails
  PROVE  MonitorInv'
<1> USE DEF MonitorInv
<1>1. Typed
  BY TypesTyped
<1>2. /\ loop.pc = "draw" /\ spell # None /\ loop' \in LoopStates /\ loop'.pc = "asleep"
      /\ loop'.at = loop.at /\ loop'.regime = loop.regime /\ loop'.dwell = loop.dwell
  BY LoopMoves DEF DrawFails, At, CycleEnds
<1>3. /\ decisions' \in Seq(Decisions) /\ spell' \in Spells /\ spell' # None
      /\ \/ UNCHANGED <<spell, decisions>>
         \/ /\ spell'.open = spell.open \cup {Len(decisions) + 1}
            /\ DecisionAdded
  BY <1>2, DecisionGrows, NoneIsNoSpell DEF MonitorTypeOK, DrawFails
<1>4. UNCHANGED <<now, mrt, arm, withdrawn, tracker, lastAct, rateAt, escalated, samples,
                  escalations, acts, life, failed>>
  BY DEF DrawFails, world, memory, rows
<1>5. MonitorTypeOK'
  BY <1>1, <1>2, <1>3, <1>4 DEF MonitorTypeOK, InTime, Typed
<1>6. Typed'
  BY <1>5, TypesTypedNext
<1>7. InTime'
  BY <1>1, <1>6, <1>2, <1>3, <1>4 DEF InTime, CyclePast, At, DecisionAdded, Grown, Typed
<1>8. ActsPast'
  BY <1>1, <1>6, <1>2, <1>3, <1>4 DEF ActsPast, ActAllowed, InTime, At, ActAdded, Grown, Typed
<1>9. ActAllowed'
  BY <1>1, <1>6, <1>2, <1>3, <1>4 DEF ActAllowed, Ready, InTime, At, Typed
<1>10. ActsLawful'
  BY <1>1, <1>6, <1>2, <1>3, <1>4 DEF ActsLawful, WithdrawalHeeded, ActsPast, ActAllowed, Ready,
    At, ActAdded, Grown, Typed
<1>11. EscalationsPast'
  BY <1>1, <1>6, <1>2, <1>3, <1>4 DEF EscalationsPast, InTime, CyclePast, At, Bad, Regimes,
    SampleAdded, EscalationAdded, Grown, Typed
<1>12. EscalatedOnce'
  BY <1>1, <1>6, <1>2, <1>3, <1>4 DEF EscalatedOnce, EscalationsPast, CyclePast, Between, At,
    Bad, Regimes, SampleAdded, EscalationAdded, Grown, Typed
<1>13. CyclePast'
  <2>1. \A i \in DOMAIN decisions' :
          \/ decisions'[i].at = loop.at /\ decisions'[i].exit = None
          \/ i \in DOMAIN decisions /\ decisions'[i] = decisions[i]
    BY <1>2, <1>3, <1>4 DEF DecisionAdded, Grown
  <2>2. \A i \in DOMAIN decisions' :
          /\ decisions'[i].at <= loop.at
          /\ decisions'[i].exit # None => decisions'[i].exit <= loop.at
    BY <1>1, <2>1, <1>2, <1>3, <1>4 DEF CyclePast, At, Typed
  <2> QED  BY <2>2, <1>2, <1>3, <1>4 DEF CyclePast, At
<1>14. CycleSampled'
  BY <1>1, <1>6, <1>2, <1>3, <1>4 DEF CycleSampled, InCycle, At, SampleAdded, Grown, Typed
<1>15. Finalized'
  BY <1>1, <1>6, <1>2, <1>3, <1>4 DEF Finalized, ActAllowed, At, DecisionAdded, Grown, Typed
<1>16. ASSUME ~failed' PROVE ExitsTrue' /\ OpenPoints' /\ SpellKnown'
  <2>1. ExitsTrue /\ OpenPoints /\ SpellKnown
    BY <1>16, <1>2, <1>3, <1>4
  <2>2. ExitsTrue'
    <3>1. CASE UNCHANGED decisions
      BY <2>1, <3>1, <1>2, <1>3, <1>4 DEF ExitsTrue, ExitOf, Between
    <3>2. CASE DecisionAdded
      BY <2>1, <3>2, <1>2, <1>3, <1>4, DecisionsStayTrue
    <3> QED  BY <3>1, <3>2, <1>2, <1>3, <1>4
  <2>3. OpenPoints'
    BY <1>1, <1>6, <2>1, <1>2, <1>3, <1>4 DEF OpenPoints, Turning, CyclePast, CycleSampled,
      InCycle, Finalized, InTime, At, SampleAdded, DecisionAdded, Grown, Typed
  <2>4. SpellKnown'
    BY <1>1, <1>6, <2>1, <1>2, <1>3, <1>4 DEF SpellKnown, Turning, Finalized, CycleSampled,
      InCycle, Bad, At, Regimes, Typed
  <2> QED  BY <2>2, <2>3, <2>4
<1> QED  BY <1>5, <1>7, <1>8, <1>9, <1>10, <1>11, <1>12, <1>13, <1>14, <1>15, <1>16

\* There is no spell, and nothing to decide.
LEMMA NoSpellMonitored ==
  ASSUME MonitorInv, NoSpell
  PROVE  MonitorInv'
<1> USE DEF MonitorInv
<1>1. Typed
  BY TypesTyped
<1>2. /\ loop.pc = "draw" /\ loop' \in LoopStates /\ loop'.pc = "asleep"
      /\ loop'.at = loop.at /\ loop'.regime = loop.regime /\ loop'.dwell = loop.dwell
  BY LoopMoves DEF NoSpell, At, CycleEnds
<1>3. UNCHANGED <<now, mrt, arm, withdrawn, tracker, lastAct, rateAt, escalated, spell, samples,
                  escalations, decisions, acts, life, failed>>
  BY DEF NoSpell, world, memory, rows
<1>4. MonitorTypeOK'
  BY <1>1, <1>2, <1>3 DEF MonitorTypeOK, InTime, Typed
<1>5. Typed'
  BY <1>4, TypesTypedNext
<1>6. InTime'
  BY <1>1, <1>5, <1>2, <1>3 DEF InTime, CyclePast, At, DecisionAdded, Grown, Typed
<1>7. ActsPast'
  BY <1>1, <1>5, <1>2, <1>3 DEF ActsPast, ActAllowed, InTime, At, ActAdded, Grown, Typed
<1>8. ActAllowed'
  BY <1>1, <1>5, <1>2, <1>3 DEF ActAllowed, Ready, InTime, At, Typed
<1>9. ActsLawful'
  BY <1>1, <1>5, <1>2, <1>3 DEF ActsLawful, WithdrawalHeeded, ActsPast, ActAllowed, Ready, At,
    ActAdded, Grown, Typed
<1>10. EscalationsPast'
  BY <1>1, <1>5, <1>2, <1>3 DEF EscalationsPast, InTime, CyclePast, At, Bad, Regimes,
    SampleAdded, EscalationAdded, Grown, Typed
<1>11. EscalatedOnce'
  BY <1>1, <1>5, <1>2, <1>3 DEF EscalatedOnce, EscalationsPast, CyclePast, Between, At, Bad,
    Regimes, SampleAdded, EscalationAdded, Grown, Typed
<1>12. CyclePast'
  BY <1>1, <1>5, <1>2, <1>3 DEF CyclePast, InTime, At, SampleAdded, DecisionAdded, Grown, Typed
<1>13. CycleSampled'
  BY <1>1, <1>5, <1>2, <1>3 DEF CycleSampled, InCycle, At, SampleAdded, Grown, Typed
<1>14. Finalized'
  BY <1>1, <1>5, <1>2, <1>3 DEF Finalized, ActAllowed, At, DecisionAdded, Grown, Typed
<1>15. ASSUME ~failed' PROVE ExitsTrue' /\ OpenPoints' /\ SpellKnown'
  <2>1. ExitsTrue /\ OpenPoints /\ SpellKnown
    BY <1>15, <1>2, <1>3
  <2>2. ExitsTrue'
    BY <1>1, <1>5, <2>1, <1>2, <1>3 DEF ExitsTrue, ExitOf, Between, OpenPoints, Turning,
      CyclePast, CycleSampled, InCycle, At, SampleAdded, DecisionAdded, Grown, Typed
  <2>3. OpenPoints'
    BY <1>1, <1>5, <2>1, <1>2, <1>3 DEF OpenPoints, Turning, CyclePast, CycleSampled, InCycle,
      Finalized, InTime, At, SampleAdded, DecisionAdded, Grown, Typed
  <2>4. SpellKnown'
    BY <1>1, <1>5, <2>1, <1>2, <1>3 DEF SpellKnown, Turning, Finalized, CycleSampled, InCycle,
      Bad, At, Regimes, Typed
  <2> QED  BY <2>2, <2>3, <2>4
<1> QED  BY <1>4, <1>6, <1>7, <1>8, <1>9, <1>10, <1>11, <1>12, <1>13, <1>14, <1>15

\* What has not left its spell is censored.
LEMMA EndSessionMonitored ==
  ASSUME MonitorInv, EndSession
  PROVE  MonitorInv'
<1> USE DEF MonitorInv
<1>1. Typed
  BY TypesTyped
<1>2. loop.pc # "ended" /\ loop' \in LoopStates /\ loop'.pc = "ended" /\ loop'.at = 0 /\ loop'.dwell = 0
  BY DEF EndSession, Asleep, At, LoopStates, Regimes
<1>3. /\ tracker' = [regime |-> None, since |-> 0]
      /\ lastAct' = None /\ rateAt' = None /\ escalated' = FALSE /\ spell' = None
  BY DEF EndSession, MemoryLost
<1>4. /\ decisions' \in Seq(Decisions) /\ DOMAIN decisions' = DOMAIN decisions
      /\ \A i \in DOMAIN decisions :
           /\ decisions'[i].at = decisions[i].at /\ decisions'[i].regime = decisions[i].regime
           /\ decisions'[i].exit = decisions[i].exit
           /\ decisions'[i].censored <=> decisions[i].censored \/ decisions[i].exit = None
  <3>1. /\ DOMAIN Censored = DOMAIN decisions /\ Censored = [i \in DOMAIN decisions |-> Censored[i]]
        /\ \A i \in DOMAIN decisions :
             Censored[i] = IF decisions[i].exit = None THEN [decisions[i] EXCEPT !.censored = TRUE]
                           ELSE decisions[i]
    BY DEF Censored
  <3>2. \A i \in DOMAIN decisions : decisions[i] \in Decisions
    BY DEF MonitorTypeOK
  <3>3. \A d \in Decisions :
          LET e == [d EXCEPT !.censored = TRUE]
          IN /\ e \in Decisions /\ e.at = d.at /\ e.regime = d.regime
             /\ e.censored = TRUE /\ e.exit = d.exit
    BY DEF Decisions
  <3>4. \A i \in DOMAIN decisions : Censored[i] \in Decisions
    BY <3>1, <3>2, <3>3
  <3>5. Censored \in Seq(Decisions)
    BY <3>1, <3>4, Replaced DEF MonitorTypeOK
  <3>6. decisions' = Censored
    BY DEF EndSession
  <3> QED  BY <3>1, <3>2, <3>3, <3>5, <3>6
<1>5. UNCHANGED <<now, mrt, arm, withdrawn, samples, escalations, acts, life, failed>>
  BY DEF EndSession, world, memory, rows
<1>6. MonitorTypeOK'
  BY <1>1, <1>2, <1>3, <1>4, <1>5 DEF MonitorTypeOK, InTime, Typed
<1>7. Typed'
  BY <1>6, TypesTypedNext
<1>8. InTime'
  BY <1>1, <1>7, <1>2, <1>3, <1>4, <1>5 DEF InTime, CyclePast, At, DecisionAdded, Grown, Typed
<1>9. ActsPast'
  BY <1>1, <1>7, <1>2, <1>3, <1>4, <1>5 DEF ActsPast, ActAllowed, InTime, At, ActAdded, Grown,
    Typed
<1>10. ActAllowed'
  BY <1>1, <1>7, <1>2, <1>3, <1>4, <1>5 DEF ActAllowed, Ready, InTime, At, Typed
<1>11. ActsLawful'
  BY <1>1, <1>7, <1>2, <1>3, <1>4, <1>5 DEF ActsLawful, WithdrawalHeeded, ActsPast, ActAllowed,
    Ready, At, ActAdded, Grown, Typed
<1>12. EscalationsPast'
  BY <1>1, <1>7, <1>2, <1>3, <1>4, <1>5 DEF EscalationsPast, InTime, CyclePast, At, Bad,
    Regimes, SampleAdded, EscalationAdded, Grown, Typed
<1>13. EscalatedOnce'
  BY <1>1, <1>7, <1>2, <1>3, <1>4, <1>5 DEF EscalatedOnce, EscalationsPast, CyclePast, Between,
    At, Bad, Regimes, SampleAdded, EscalationAdded, Grown, Typed
<1>14. CyclePast'
  BY <1>1, <1>7, <1>2, <1>3, <1>4, <1>5 DEF CyclePast, InTime, At, SampleAdded, DecisionAdded,
    Grown, Typed
<1>15. CycleSampled'
  BY <1>1, <1>7, <1>2, <1>3, <1>4, <1>5 DEF CycleSampled, InCycle, At, SampleAdded, Grown, Typed
<1>16. Finalized'
  BY <1>1, <1>7, <1>2, <1>3, <1>4, <1>5 DEF Finalized, ActAllowed, At, DecisionAdded, Grown, Typed
<1>17. ASSUME ~failed' PROVE ExitsTrue' /\ OpenPoints' /\ SpellKnown'
  <2>1. ExitsTrue /\ OpenPoints /\ SpellKnown
    BY <1>17, <1>2, <1>3, <1>4, <1>5
  <2>2. ExitsTrue'
    BY <1>1, <1>7, <2>1, <1>2, <1>3, <1>4, <1>5 DEF ExitsTrue, ExitOf, Between, OpenPoints,
      Turning, CyclePast, CycleSampled, InCycle, At, SampleAdded, DecisionAdded, Grown, Typed
  <2>3. OpenPoints'
    BY <1>1, <1>7, <2>1, <1>2, <1>3, <1>4, <1>5 DEF OpenPoints, Turning, CyclePast,
      CycleSampled, InCycle, Finalized, InTime, At, SampleAdded, DecisionAdded, Grown, Typed
  <2>4. SpellKnown'
    BY <1>1, <1>7, <2>1, <1>2, <1>3, <1>4, <1>5 DEF SpellKnown, Turning, Finalized,
      CycleSampled, InCycle, Bad, At, Regimes, Typed
  <2> QED  BY <2>2, <2>3, <2>4
<1> QED  BY <1>6, <1>8, <1>9, <1>10, <1>11, <1>12, <1>13, <1>14, <1>15, <1>16, <1>17

\* A new monitor knows nothing, and does not turn to what was before it.
LEMMA RestartMonitorMonitored ==
  ASSUME MonitorInv, RestartMonitor
  PROVE  MonitorInv'
<1> USE DEF MonitorInv
<1>1. Typed
  BY TypesTyped
<1>2. /\ loop.pc # "ended" /\ loop' \in LoopStates /\ loop'.pc = "asleep" /\ loop'.at = now /\ loop'.dwell = 0
      /\ life < MaxLives /\ life' = life + 1 /\ arm' \in {arm, "open"}
  BY <1>1 DEF RestartMonitor, Asleep, At, LoopStates, Regimes, Typed
<1>3. /\ tracker' = [regime |-> None, since |-> 0]
      /\ lastAct' = None /\ rateAt' = None /\ escalated' = FALSE /\ spell' = None
  BY DEF RestartMonitor, MemoryLost
<1>4. UNCHANGED <<now, mrt, withdrawn, samples, escalations, decisions, acts, failed>>
  BY DEF RestartMonitor, rows, world, memory
<1>5. MonitorTypeOK'
  <2>1. life' \in 1 .. MaxLives /\ arm' \in {"open", "closed"}
    BY <1>1, <1>2, <1>3, <1>4, MonitorAssumption DEF MonitorTypeOK, Typed
  <2>2. tracker' \in [regime : Regimes \cup {None}, since : Nat]
    BY <1>2, <1>3, <1>4
  <2> QED  BY <2>1, <2>2, <1>2, <1>3, <1>4 DEF MonitorTypeOK
<1>6. Typed'
  BY <1>5, TypesTypedNext
<1>7. InTime'
  BY <1>1, <1>6, <1>2, <1>3, <1>4 DEF InTime, CyclePast, At, DecisionAdded, Grown, Typed
<1>8. ActsPast'
  BY <1>1, <1>6, <1>2, <1>3, <1>4 DEF ActsPast, ActAllowed, InTime, At, ActAdded, Grown, Typed
<1>9. ActAllowed'
  BY <1>1, <1>6, <1>2, <1>3, <1>4 DEF ActAllowed, Ready, InTime, At, Typed
<1>10. ActsLawful'
  BY <1>1, <1>6, <1>2, <1>3, <1>4 DEF ActsLawful, WithdrawalHeeded, ActsPast, ActAllowed, Ready,
    At, ActAdded, Grown, Typed
<1>11. EscalationsPast'
  BY <1>1, <1>6, <1>2, <1>3, <1>4 DEF EscalationsPast, InTime, CyclePast, At, Bad, Regimes,
    SampleAdded, EscalationAdded, Grown, Typed
<1>12. EscalatedOnce'
  BY <1>1, <1>6, <1>2, <1>3, <1>4 DEF EscalatedOnce, EscalationsPast, CyclePast, Between, At,
    Bad, Regimes, SampleAdded, EscalationAdded, Grown, Typed
<1>13. CyclePast'
  BY <1>1, <1>6, <1>2, <1>3, <1>4 DEF CyclePast, InTime, At, SampleAdded, DecisionAdded, Grown,
    Typed
<1>14. CycleSampled'
  BY <1>1, <1>6, <1>2, <1>3, <1>4 DEF CycleSampled, InCycle, At, SampleAdded, Grown, Typed
<1>15. Finalized'
  BY <1>1, <1>6, <1>2, <1>3, <1>4 DEF Finalized, ActAllowed, At, DecisionAdded, Grown, Typed
<1>16. ASSUME ~failed' PROVE ExitsTrue' /\ OpenPoints' /\ SpellKnown'
  <2>1. ExitsTrue /\ OpenPoints /\ SpellKnown
    BY <1>16, <1>2, <1>3, <1>4
  <2>2. ExitsTrue'
    BY <1>1, <1>6, <2>1, <1>2, <1>3, <1>4 DEF ExitsTrue, ExitOf, Between, OpenPoints, Turning,
      CyclePast, CycleSampled, InCycle, At, SampleAdded, DecisionAdded, Grown, Typed
  <2>3. OpenPoints'
    BY <1>1, <1>6, <2>1, <1>2, <1>3, <1>4 DEF OpenPoints, Turning, CyclePast, CycleSampled,
      InCycle, Finalized, InTime, At, SampleAdded, DecisionAdded, Grown, Typed
  <2>4. SpellKnown'
    BY <1>1, <1>6, <2>1, <1>2, <1>3, <1>4 DEF SpellKnown, Turning, Finalized, CycleSampled,
      InCycle, Bad, At, Regimes, Typed
  <2> QED  BY <2>2, <2>3, <2>4
<1> QED  BY <1>5, <1>7, <1>8, <1>9, <1>10, <1>11, <1>12, <1>13, <1>14, <1>15, <1>16

\* Time passes.
LEMMA TickMonitored ==
  ASSUME MonitorInv, Tick
  PROVE  MonitorInv'
<1> USE DEF MonitorInv
<1>1. Typed
  BY TypesTyped
<1>2. loop.pc # "decide" /\ now < MaxTime /\ now' = now + 1
  BY DEF Tick
<1>3. UNCHANGED <<mrt, arm, withdrawn, loop, tracker, lastAct, rateAt, escalated, spell,
                  samples, escalations, decisions, acts, life, failed>>
  BY DEF Tick, memory, rows, world
<1>4. MonitorTypeOK'
  BY <1>1, <1>2, <1>3, MonitorAssumption DEF MonitorTypeOK, Typed
<1>5. Typed'
  BY <1>4, TypesTypedNext
<1>6. InTime'
  BY <1>1, <1>5, <1>2, <1>3 DEF InTime, CyclePast, At, DecisionAdded, Grown, Typed
<1>7. ActsPast'
  BY <1>1, <1>5, <1>2, <1>3 DEF ActsPast, ActAllowed, InTime, At, ActAdded, Grown, Typed
<1>8. ActAllowed'
  BY <1>1, <1>5, <1>2, <1>3 DEF ActAllowed, Ready, InTime, At, Typed
<1>9. ActsLawful'
  BY <1>1, <1>5, <1>2, <1>3 DEF ActsLawful, WithdrawalHeeded, ActsPast, ActAllowed, Ready, At,
    ActAdded, Grown, Typed
<1>10. EscalationsPast'
  BY <1>1, <1>5, <1>2, <1>3 DEF EscalationsPast, InTime, CyclePast, At, Bad, Regimes,
    SampleAdded, EscalationAdded, Grown, Typed
<1>11. EscalatedOnce'
  BY <1>1, <1>5, <1>2, <1>3 DEF EscalatedOnce, EscalationsPast, CyclePast, Between, At, Bad,
    Regimes, SampleAdded, EscalationAdded, Grown, Typed
<1>12. CyclePast'
  BY <1>1, <1>5, <1>2, <1>3 DEF CyclePast, InTime, At, SampleAdded, DecisionAdded, Grown, Typed
<1>13. CycleSampled'
  BY <1>1, <1>5, <1>2, <1>3 DEF CycleSampled, InCycle, At, SampleAdded, Grown, Typed
<1>14. Finalized'
  BY <1>1, <1>5, <1>2, <1>3 DEF Finalized, ActAllowed, At, DecisionAdded, Grown, Typed
<1>15. ASSUME ~failed' PROVE ExitsTrue' /\ OpenPoints' /\ SpellKnown'
  <2>1. ExitsTrue /\ OpenPoints /\ SpellKnown
    BY <1>15, <1>2, <1>3
  <2>2. ExitsTrue'
    BY <1>1, <1>5, <2>1, <1>2, <1>3 DEF ExitsTrue, ExitOf, Between, OpenPoints, Turning,
      CyclePast, CycleSampled, InCycle, At, SampleAdded, DecisionAdded, Grown, Typed
  <2>3. OpenPoints'
    BY <1>1, <1>5, <2>1, <1>2, <1>3 DEF OpenPoints, Turning, CyclePast, CycleSampled, InCycle,
      Finalized, InTime, At, SampleAdded, DecisionAdded, Grown, Typed
  <2>4. SpellKnown'
    BY <1>1, <1>5, <2>1, <1>2, <1>3 DEF SpellKnown, Turning, Finalized, CycleSampled, InCycle,
      Bad, At, Regimes, Typed
  <2> QED  BY <2>2, <2>3, <2>4
<1> QED  BY <1>4, <1>6, <1>7, <1>8, <1>9, <1>10, <1>11, <1>12, <1>13, <1>14, <1>15

\* The learner withdraws, not before now, or agrees again.
LEMMA ChangeConsentMonitored ==
  ASSUME MonitorInv, ChangeConsent
  PROVE  MonitorInv'
<1> USE DEF MonitorInv
<1>1. Typed
  BY TypesTyped
<1>2. loop.pc # "decide" /\ (withdrawn' = None \/ withdrawn' = now)
  BY DEF ChangeConsent
<1>3. UNCHANGED <<now, mrt, arm, loop, tracker, lastAct, rateAt, escalated, spell, samples,
                  escalations, decisions, acts, life, failed>>
  BY DEF ChangeConsent, memory, rows, world
<1>4. MonitorTypeOK'
  BY <1>1, <1>2, <1>3 DEF MonitorTypeOK, InTime, Typed
<1>5. Typed'
  BY <1>4, TypesTypedNext
<1>6. InTime'
  BY <1>1, <1>5, <1>2, <1>3 DEF InTime, CyclePast, At, DecisionAdded, Grown, Typed
<1>7. ActsPast'
  BY <1>1, <1>5, <1>2, <1>3 DEF ActsPast, ActAllowed, InTime, At, ActAdded, Grown, Typed
<1>8. ActAllowed'
  BY <1>1, <1>5, <1>2, <1>3 DEF ActAllowed, Ready, InTime, At, Typed
<1>9. ActsLawful'
  BY <1>1, <1>5, <1>2, <1>3 DEF ActsLawful, WithdrawalHeeded, ActsPast, ActAllowed, Ready, At,
    ActAdded, Grown, Typed
<1>10. EscalationsPast'
  BY <1>1, <1>5, <1>2, <1>3 DEF EscalationsPast, InTime, CyclePast, At, Bad, Regimes,
    SampleAdded, EscalationAdded, Grown, Typed
<1>11. EscalatedOnce'
  BY <1>1, <1>5, <1>2, <1>3 DEF EscalatedOnce, EscalationsPast, CyclePast, Between, At, Bad,
    Regimes, SampleAdded, EscalationAdded, Grown, Typed
<1>12. CyclePast'
  BY <1>1, <1>5, <1>2, <1>3 DEF CyclePast, InTime, At, SampleAdded, DecisionAdded, Grown, Typed
<1>13. CycleSampled'
  BY <1>1, <1>5, <1>2, <1>3 DEF CycleSampled, InCycle, At, SampleAdded, Grown, Typed
<1>14. Finalized'
  BY <1>1, <1>5, <1>2, <1>3 DEF Finalized, ActAllowed, At, DecisionAdded, Grown, Typed
<1>15. ASSUME ~failed' PROVE ExitsTrue' /\ OpenPoints' /\ SpellKnown'
  <2>1. ExitsTrue /\ OpenPoints /\ SpellKnown
    BY <1>15, <1>2, <1>3
  <2>2. ExitsTrue'
    BY <1>1, <1>5, <2>1, <1>2, <1>3 DEF ExitsTrue, ExitOf, Between, OpenPoints, Turning,
      CyclePast, CycleSampled, InCycle, At, SampleAdded, DecisionAdded, Grown, Typed
  <2>3. OpenPoints'
    BY <1>1, <1>5, <2>1, <1>2, <1>3 DEF OpenPoints, Turning, CyclePast, CycleSampled, InCycle,
      Finalized, InTime, At, SampleAdded, DecisionAdded, Grown, Typed
  <2>4. SpellKnown'
    BY <1>1, <1>5, <2>1, <1>2, <1>3 DEF SpellKnown, Turning, Finalized, CycleSampled, InCycle,
      Bad, At, Regimes, Typed
  <2> QED  BY <2>2, <2>3, <2>4
<1> QED  BY <1>4, <1>6, <1>7, <1>8, <1>9, <1>10, <1>11, <1>12, <1>13, <1>14, <1>15
-----------------------------------------------------------------------------
(* The theorems *)

\* A session begins with nothing written down.
LEMMA MonitorStarts == MonitorInit => MonitorInv
<1> SUFFICES ASSUME MonitorInit PROVE MonitorInv
  OBVIOUS
<1>1. /\ samples = <<>> /\ escalations = <<>> /\ decisions = <<>> /\ acts = <<>>
      /\ spell = None /\ lastAct = None /\ rateAt = None /\ withdrawn = None
      /\ now = 1 /\ life = 1 /\ failed = FALSE /\ escalated = FALSE
      /\ tracker = [regime |-> None, since |-> 0]
      /\ mrt \in BOOLEAN /\ arm \in {"open", "closed"}
  BY DEF MonitorInit
<1>2. loop \in LoopStates /\ loop.pc = "asleep" /\ loop.at = 0 /\ loop.dwell = 0
  BY DEF MonitorInit, Asleep, LoopStates, Regimes
<1>3. MonitorTypeOK
  <2>1. now \in 1 .. MaxTime /\ life \in 1 .. MaxLives
    BY <1>1, MonitorAssumption
  <2>2. \A S : <<>> \in Seq(S)
    OBVIOUS
  <2>3. samples \in Seq(Samples) /\ escalations \in Seq(Escalations) /\ decisions \in Seq(Decisions)
        /\ acts \in Seq(Acts)
    BY <1>1, <2>2
  <2>4. tracker \in [regime : Regimes \cup {None}, since : Nat]
    BY <1>1
  <2> QED  BY <1>1, <1>2, <2>1, <2>3, <2>4 DEF MonitorTypeOK
<1>4. InTime /\ ActsPast /\ ActAllowed /\ EscalationsPast /\ EscalatedOnce /\ CyclePast /\ CycleSampled
  BY <1>1, <1>2
  DEF InTime, ActsPast, ActAllowed, At, EscalationsPast, EscalatedOnce, CyclePast, CycleSampled, InCycle
<1>5. ActsLawful /\ Finalized /\ ExitsTrue /\ OpenPoints
  BY <1>1, <1>2 DEF ActsLawful, WithdrawalHeeded, Finalized, At, ExitsTrue, OpenPoints
<1>6. SpellKnown
  BY <1>1, MonitorAssumption DEF SpellKnown, Bad, Regimes
<1> QED  BY <1>3, <1>4, <1>5, <1>6 DEF MonitorInv

\* No step of the monitor or of those around it breaks the invariant.
LEMMA MonitorStep == MonitorInv /\ [MonitorNext]_monitorVars => MonitorInv'
<1> SUFFICES ASSUME MonitorInv, [MonitorNext]_monitorVars PROVE MonitorInv'
  OBVIOUS
<1>1. ASSUME NEW r \in Regimes, Observe(r) \/ ObserveFails(r) PROVE MonitorInv'
  BY <1>1, ObserveMonitored, ObserveFailsMonitored
<1>2. CASE Decide \/ Authorize \/ Generate \/ Record
  BY <1>2, DecideMonitored, AuthorizeMonitored, GenerateMonitored, RecordMonitored
<1>3. CASE TurnSpell \/ TurnSpellFails \/ DrawFails \/ NoSpell
  BY <1>3, TurnSpellMonitored, TurnSpellFailsMonitored, DrawFailsMonitored, NoSpellMonitored
<1>4. ASSUME NEW hold \in BOOLEAN, Draw(hold) PROVE MonitorInv'
  BY <1>4, DrawMonitored
<1>5. CASE EndSession \/ RestartMonitor \/ Tick \/ ChangeConsent
  BY <1>5, EndSessionMonitored, RestartMonitorMonitored, TickMonitored, ChangeConsentMonitored
<1>6. CASE UNCHANGED monitorVars
  BY <1>6
  DEF monitorVars, MonitorInv, MonitorTypeOK, InTime, ActsPast, ActAllowed, ActsLawful, Ready, At,
      WithdrawalHeeded, EscalationsPast, EscalatedOnce, Between, CyclePast, CycleSampled, InCycle,
      Finalized, ExitsTrue, ExitOf, OpenPoints, Turning, SpellKnown
<1> QED  BY <1>1, <1>2, <1>3, <1>4, <1>5, <1>6 DEF MonitorNext

\* In every behaviour.
LEMMA AlwaysMonitored == MonitorSpec => []MonitorInv
BY MonitorStarts, MonitorStep, PTL DEF MonitorSpec

\* The interventions are lawful whatever happens (should_intervene, authorize_act and
\* the escalation of monitor.py): cooldown, arm, consent, one escalation per stretch.
THEOREM InterventionsAlwaysLawful == MonitorSpec => []InterventionsLawful
<1>1. MonitorInv => InterventionsLawful
  BY DEF MonitorInv, ActsLawful, InterventionsLawful
<1> QED  BY <1>1, AlwaysMonitored, PTL

\* The records of the trial are true whatever happens, up to a write that fails
\* (the spells and exits of monitor.py, finalize_session).
THEOREM TrialAlwaysSound == MonitorSpec => []TrialSound
<1>1. MonitorInv => TrackerOK
  <2> SUFFICES ASSUME MonitorInv PROVE TrackerOK
    OBVIOUS
  <2>1. Typed /\ MonitorTypeOK /\ InTime
    BY TypesTyped DEF MonitorInv
  <2>2. {lastAct, rateAt, withdrawn} \subseteq (0 .. now) \cup {None}
    BY <2>1 DEF InTime, Typed
  <2>3. tracker \in [regime : Regimes \cup {None}, since : 0 .. now]
    BY <2>1 DEF MonitorTypeOK, InTime, Typed
  <2>4. loop.dwell \in 0 .. now
    BY <2>1 DEF InTime, Typed
  <2>5. spell # None => spell.threshold \in Thresholds /\ spell.open \subseteq DOMAIN decisions
    BY <2>1 DEF MonitorTypeOK, InTime, Spells
  <2> QED  BY <2>1, <2>2, <2>3, <2>4, <2>5 DEF TrackerOK, MonitorTypeOK, Typed
<1>2. MonitorInv => TrialSound
  BY <1>1
  DEF MonitorInv, TrialSound, ExitsTrue, ExitOf, SpellKnown, Turning, At, Finalized
<1> QED  BY <1>2, AlwaysMonitored, PTL
-----------------------------------------------------------------------------
(* Progress *)

RunPlaces == {"idle", "steps", "finish", "read", "write", "done", "gone"}
ProgressTyped ==
  /\ lab \in Rows \cup {None} /\ inserting \in Starters \cup {None} /\ overlap \in BOOLEAN
  /\ run = [r \in Runs |-> run[r]] /\ stored = [r \in Runs |-> stored[r]] /\ recorded = [r \in Runs |-> recorded[r]]
  /\ \A r \in Runs :
       /\ run[r] = [pc |-> run[r].pc, steps |-> run[r].steps, final |-> run[r].final,
                    verdict |-> run[r].verdict, read |-> run[r].read]
       /\ run[r].pc \in RunPlaces /\ Outcome(run[r].steps) /\ Outcome(run[r].final)
       /\ run[r].verdict \in {"passed", "failed"} /\ run[r].read \in Rows \cup {None}
  /\ starter \in [Starters -> {"idle", "insert", "commit", "done", "failed"}]

\* What a run has final is every step or none, and its verdict is about it.
FinalsWhole ==
  \A r \in Runs :
    /\ run[r].final # <<>> => Len(run[r].final) = Len(LabSpec)
    /\ run[r].verdict = "passed" <=> AllPassed(run[r].final)
    /\ run[r].pc \in {"idle", "steps"} => run[r].final = <<>>
    /\ run[r].pc \in {"read", "write"} => run[r].final # <<>>

\* What is stored of a run, and what is recorded of it.
Pending(r) == stored[r] = [status |-> "running", steps |-> <<>>]
Shows(r) == stored[r] = [status |-> run[r].verdict, steps |-> run[r].final]
StoredAsRun ==
  \A r \in Runs :
    /\ run[r].pc = "idle" => stored[r] = Blank
    /\ run[r].pc \in {"steps", "finish"} => Pending(r)
    /\ run[r].pc \in {"read", "write", "done"} => Shows(r)
    /\ run[r].pc = "gone" => Pending(r) \/ Shows(r)
    /\ recorded[r] # None => run[r].pc = "done" /\ recorded[r] = run[r].final

\* Who inserts the row finds none.
OneInserter ==
  /\ \A s \in Starters : starter[s] = "commit" <=> inserting = s
  /\ inserting # None => lab = None

\* A row that was read is an earlier state of the row.
ReadsBefore ==
  \A r \in Runs : run[r].pc = "write" /\ run[r].read # None =>
    /\ lab # None
    /\ run[r].read.status = "completed" => lab.status = "completed"
    /\ ~overlap => run[r].read = lab
OneWriter == ~overlap => \A q, r \in Runs : run[q].pc = "write" /\ run[r].pc = "write" => q = r

RowTells ==
  /\ lab = None => Credited = {}
  /\ lab # None =>
       /\ lab.status = "completed" <=> \E r \in Credited : AllPassed(recorded[r])
       /\ lab.score = 0 \/ \E r \in Credited : lab.score = Score(recorded[r])
       /\ ~overlap => \A r \in Credited : lab.score >= Score(recorded[r])

ProgressInv ==
  ProgressTyped /\ FinalsWhole /\ StoredAsRun /\ OneInserter /\ ReadsBefore /\ OneWriter /\ RowTells

\* A function has no more values than arguments.
LEMMA ImageBound ==
  ASSUME NEW A, IsFiniteSet(A), NEW f
  PROVE  IsFiniteSet({f[x] : x \in A}) /\ Cardinality({f[x] : x \in A}) <= Cardinality(A)
<1> DEFINE T == {f[x] : x \in A}
           g == [x \in A |-> f[x]]
<1>1. g \in [A -> T] OBVIOUS
<1>2. \A y \in T : \E x \in A : g[x] = y OBVIOUS
<1>3. g \in Surjection(A, T) BY <1>1, <1>2 DEF Surjection
<1> QED BY <1>3, FS_Surjection

\* A score is a number: finitely many checks have passed.
LEMMA ScoreIs == ASSUME NEW o, Outcome(o) PROVE Score(o) \in Nat
<1>0. PICK n, f : n = Len(o) /\ f = [i \in DOMAIN o |-> {i} \X (1 .. o[i])] OBVIOUS
<1>1. n \in Nat /\ DOMAIN o = 1 .. n /\ \A i \in 1 .. n : o[i] \in Nat
  BY <1>0, LenProperties, ElementOfSeq DEF Outcome
<1>2. IsFiniteSet(1 .. n) BY <1>1, FS_Interval
<1>a. PICK A : A = 1 .. n OBVIOUS
<1>b. IsFiniteSet(A) BY <1>2, <1>a
<1>3. IsFiniteSet({f[i] : i \in A}) BY <1>b, ImageBound
<1>4. ASSUME NEW i \in 1 .. n PROVE IsFiniteSet(f[i])
  <2>1. IsFiniteSet({i}) BY FS_Singleton
  <2>2. o[i] \in Int /\ 1 \in Int BY <1>1
  <2>3. IsFiniteSet(1 .. o[i]) BY <2>2, FS_Interval
  <2>4. IsFiniteSet({i} \X (1 .. o[i])) BY <2>1, <2>3, FS_Product
  <2> QED BY <1>0, <1>1, <2>4
<1>5. IsFiniteSet(UNION {f[i] : i \in A}) BY <1>3, <1>4, <1>a, FS_UNION
<1>6. PassedChecks(o) = UNION {f[i] : i \in A} BY <1>0, <1>1, <1>a DEF PassedChecks
<1> QED BY <1>5, <1>6, FS_CardinalityType DEF Score

\* What is absent is none of the values.
LEMMA NoneOf == None \notin Runs /\ None \notin Starters /\ None \notin Rows /\ \A o : Outcome(o) => o # None
BY ProgressAssumption DEF Outcome

\* One run is set.
RunSet(r, p, st, f, v, d) ==
  /\ run' = [u \in Runs |-> run'[u]]
  /\ \A u \in Runs \ {r} : run'[u] = run[u]
  /\ run'[r] = [pc |-> p, steps |-> st, final |-> f, verdict |-> v, read |-> d]

\* A run that goes somewhere.
LEMMA RunGoes ==
  ASSUME ProgressTyped, NEW r \in Runs, NEW p, run' = [run EXCEPT ![r].pc = p]
  PROVE  RunSet(r, p, run[r].steps, run[r].final, run[r].verdict, run[r].read)
<1> PICK o, n : o = run[r] /\ n = run'[r] OBVIOUS
<1>1. o = [pc |-> o.pc, steps |-> o.steps, final |-> o.final, verdict |-> o.verdict, read |-> o.read] BY DEF ProgressTyped
<1>2. run' = [u \in Runs |-> run'[u]] /\ (\A u \in Runs \ {r} : run'[u] = run[u]) /\ n = [o EXCEPT !.pc = p]
  BY DEF ProgressTyped
<1>3. n = [pc |-> p, steps |-> o.steps, final |-> o.final, verdict |-> o.verdict, read |-> o.read] BY <1>1, <1>2
<1> QED BY <1>2, <1>3 DEF RunSet

\* A run with another step.
LEMMA RunSteps ==
  ASSUME ProgressTyped, NEW r \in Runs, NEW st, run' = [run EXCEPT ![r].steps = st]
  PROVE  RunSet(r, run[r].pc, st, run[r].final, run[r].verdict, run[r].read)
<1> PICK o, n : o = run[r] /\ n = run'[r] OBVIOUS
<1>1. o = [pc |-> o.pc, steps |-> o.steps, final |-> o.final, verdict |-> o.verdict, read |-> o.read] BY DEF ProgressTyped
<1>2. run' = [u \in Runs |-> run'[u]] /\ (\A u \in Runs \ {r} : run'[u] = run[u]) /\ n = [o EXCEPT !.steps = st]
  BY DEF ProgressTyped
<1>3. n = [pc |-> o.pc, steps |-> st, final |-> o.final, verdict |-> o.verdict, read |-> o.read] BY <1>1, <1>2
<1> QED BY <1>2, <1>3 DEF RunSet

\* A run with its final steps.
LEMMA RunFinishes ==
  ASSUME ProgressTyped, NEW r \in Runs, NEW p, NEW f, NEW v, run' = [run EXCEPT ![r].pc = p, ![r].final = f, ![r].verdict = v]
  PROVE  RunSet(r, p, run[r].steps, f, v, run[r].read)
<1> PICK o, n : o = run[r] /\ n = run'[r] OBVIOUS
<1>1. o = [pc |-> o.pc, steps |-> o.steps, final |-> o.final, verdict |-> o.verdict, read |-> o.read] BY DEF ProgressTyped
<1>2. run' = [u \in Runs |-> run'[u]] /\ (\A u \in Runs \ {r} : run'[u] = run[u])
      /\ n = [o EXCEPT !.pc = p, !.final = f, !.verdict = v]
  BY DEF ProgressTyped
<1>3. n = [pc |-> p, steps |-> o.steps, final |-> f, verdict |-> v, read |-> o.read] BY <1>1, <1>2
<1> QED BY <1>2, <1>3 DEF RunSet

\* A run that has read the row.
LEMMA RunReads ==
  ASSUME ProgressTyped, NEW r \in Runs, NEW p, NEW d, run' = [run EXCEPT ![r].pc = p, ![r].read = d]
  PROVE  RunSet(r, p, run[r].steps, run[r].final, run[r].verdict, d)
<1> PICK o, n : o = run[r] /\ n = run'[r] OBVIOUS
<1>1. o = [pc |-> o.pc, steps |-> o.steps, final |-> o.final, verdict |-> o.verdict, read |-> o.read] BY DEF ProgressTyped
<1>2. run' = [u \in Runs |-> run'[u]] /\ (\A u \in Runs \ {r} : run'[u] = run[u])
      /\ n = [o EXCEPT !.pc = p, !.read = d]
  BY DEF ProgressTyped
<1>3. n = [pc |-> p, steps |-> o.steps, final |-> o.final, verdict |-> o.verdict, read |-> d] BY <1>1, <1>2
<1> QED BY <1>2, <1>3 DEF RunSet

\* A set run keeps its type.
LEMMA RunTyped ==
  ASSUME ProgressTyped, NEW r \in Runs, NEW p \in RunPlaces, NEW st, Outcome(st), NEW f, Outcome(f), NEW v \in {"passed", "failed"},
         NEW d \in Rows \cup {None}, RunSet(r, p, st, f, v, d), stored' = [u \in Runs |-> stored'[u]],
         recorded' = [u \in Runs |-> recorded'[u]],
         lab' \in Rows \cup {None}, inserting' \in Starters \cup {None}, overlap' \in BOOLEAN,
         starter' \in [Starters -> {"idle", "insert", "commit", "done", "failed"}]
  PROVE  /\ ProgressTyped' /\ (\A u \in Runs \ {r} : run'[u] = run[u])
         /\ run'[r].pc = p /\ run'[r].steps = st /\ run'[r].final = f /\ run'[r].verdict = v /\ run'[r].read = d
BY DEF ProgressTyped, RunSet

\* What a run at a place has final, and what is stored and recorded of it.
WholeAt(p, f, v) ==
  /\ f # <<>> => Len(f) = Len(LabSpec)
  /\ v = "passed" <=> AllPassed(f)
  /\ p \in {"idle", "steps"} => f = <<>>
  /\ p \in {"read", "write"} => f # <<>>
StoredAt(s, p, f, v, c) ==
  LET before == [status |-> "running", steps |-> <<>>]
      after == [status |-> v, steps |-> f]
  IN /\ p = "idle" => s = Blank
     /\ p \in {"steps", "finish"} => s = before
     /\ p \in {"read", "write", "done"} => s = after
     /\ p = "gone" => s = before \/ s = after
     /\ c # None => p = "done" /\ c = f

\* Every run is whole and stored as it says.
LEMMA WholeIs ==
  ASSUME ProgressInv, NEW r \in Runs
  PROVE  /\ WholeAt(run[r].pc, run[r].final, run[r].verdict)
         /\ StoredAt(stored[r], run[r].pc, run[r].final, run[r].verdict, recorded[r])
BY DEF ProgressInv, FinalsWhole, StoredAsRun, WholeAt, StoredAt, Pending, Shows

\* A set run is whole and stored as it says.
LEMMA SetWhole ==
  ASSUME ProgressInv, NEW r \in Runs, NEW p, NEW st, NEW f, NEW v, NEW d, RunSet(r, p, st, f, v, d),
         WholeAt(p, f, v), StoredAt(stored'[r], p, f, v, recorded'[r]),
         \A u \in Runs \ {r} : stored'[u] = stored[u] /\ recorded'[u] = recorded[u]
  PROVE  FinalsWhole' /\ StoredAsRun'
<1>1. run'[r].pc = p /\ run'[r].final = f /\ run'[r].verdict = v /\ \A u \in Runs \ {r} : run'[u] = run[u]
  BY DEF RunSet
<1>2. \A u \in Runs : WholeAt(run'[u].pc, run'[u].final, run'[u].verdict)
  <2> TAKE u \in Runs
  <2>1. CASE u = r BY <1>1, <2>1
  <2>2. CASE u # r BY <1>1, <2>2, WholeIs
  <2> QED BY <2>1, <2>2
<1>3. \A u \in Runs : StoredAt(stored'[u], run'[u].pc, run'[u].final, run'[u].verdict, recorded'[u])
  <2> TAKE u \in Runs
  <2>1. CASE u = r BY <1>1, <2>1
  <2>2. CASE u # r BY <1>1, <2>2, WholeIs
  <2> QED BY <2>1, <2>2
<1>4. FinalsWhole' BY <1>2 DEF FinalsWhole, WholeAt
<1>5. StoredAsRun' BY <1>3 DEF StoredAsRun, StoredAt, Pending, Shows
<1> QED BY <1>4, <1>5

\* A run that leaves the row alone and does not come to write it.
LEMMA Quiet ==
  ASSUME ProgressInv, NEW r \in Runs, NEW p \in RunPlaces, NEW st, Outcome(st), NEW f, Outcome(f),
         NEW v \in {"passed", "failed"}, RunSet(r, p, st, f, v, run[r].read), p # "write",
         UNCHANGED <<lab, inserting, starter, recorded, overlap>>,
         stored' = [u \in Runs |-> stored'[u]], \A u \in Runs \ {r} : stored'[u] = stored[u],
         WholeAt(p, f, v), StoredAt(stored'[r], p, f, v, recorded[r])
  PROVE  ProgressInv'
<1>0. ProgressTyped /\ OneInserter /\ ReadsBefore /\ OneWriter /\ RowTells BY DEF ProgressInv
<1>1. run[r].read \in Rows \cup {None} /\ recorded' = [u \in Runs |-> recorded'[u]] BY <1>0 DEF ProgressTyped
<1>2. /\ lab' \in Rows \cup {None} /\ inserting' \in Starters \cup {None} /\ overlap' \in BOOLEAN
      /\ starter' \in [Starters -> {"idle", "insert", "commit", "done", "failed"}]
  BY <1>0 DEF ProgressTyped
<1>3. /\ ProgressTyped' /\ (\A u \in Runs \ {r} : run'[u] = run[u]) /\ run'[r].pc = p
  BY <1>0, <1>1, <1>2, RunTyped
<1>4. FinalsWhole' /\ StoredAsRun' BY SetWhole
<1>5. OneInserter' BY <1>0 DEF OneInserter
<1>6. ReadsBefore' BY <1>0, <1>3 DEF ReadsBefore
<1>7. OneWriter' BY <1>0, <1>3 DEF OneWriter
<1>8. RowTells' BY <1>0 DEF RowTells, Credited
<1> QED BY <1>3, <1>4, <1>5, <1>6, <1>7, <1>8 DEF ProgressInv

\* No steps are an outcome, of a run that has not passed.
LEMMA EmptyOutcome == Outcome(<<>>) /\ ~AllPassed(<<>>)
BY ProgressAssumption, LenProperties, EmptySeq DEF Outcome, AllPassed

\* A run that is created.
LEMMA CreatePart ==
  ASSUME ProgressInv, NEW r \in Runs, CreateRun(r) PROVE ProgressInv'
<1>0. ProgressTyped BY DEF ProgressInv
<1>1. RunSet(r, "steps", run[r].steps, run[r].final, run[r].verdict, run[r].read) BY <1>0, RunGoes DEF CreateRun, RunTo
<1>2. /\ Outcome(run[r].steps) /\ Outcome(run[r].final) /\ run[r].verdict \in {"passed", "failed"} /\ "steps" \in RunPlaces
      /\ run[r].pc = "idle" /\ stored = [u \in Runs |-> stored[u]]
  BY <1>0 DEF ProgressTyped, CreateRun, RunAt, RunPlaces
<1>3. WholeAt("idle", run[r].final, run[r].verdict) /\ StoredAt(stored[r], "idle", run[r].final, run[r].verdict, recorded[r])
  BY <1>2, WholeIs
<1>4. stored' = [stored EXCEPT ![r].status = "running"] BY DEF CreateRun
<1>5. stored[r] = Blank BY <1>3 DEF StoredAt
<1>6. stored'[r] = [status |-> "running", steps |-> <<>>]
  <2>1. stored'[r] = [stored[r] EXCEPT !.status = "running"] BY <1>2, <1>4
  <2> QED BY <2>1, <1>5 DEF Blank
<1>7. stored' = [u \in Runs |-> stored'[u]] /\ \A u \in Runs \ {r} : stored'[u] = stored[u] BY <1>2, <1>4
<1>8. WholeAt("steps", run[r].final, run[r].verdict) BY <1>3 DEF WholeAt
<1>9. StoredAt(stored'[r], "steps", run[r].final, run[r].verdict, recorded[r]) BY <1>3, <1>6 DEF StoredAt
<1>10. UNCHANGED <<lab, inserting, starter, recorded, overlap>> BY DEF CreateRun
<1> QED BY <1>1, <1>2, <1>7, <1>8, <1>9, <1>10, Quiet

\* A step that is evaluated.
LEMMA EvalPart ==
  ASSUME ProgressInv, NEW r \in Runs, EvalStep(r) PROVE ProgressInv'
<1>0. ProgressTyped BY DEF ProgressInv
<1>1. PICK k \in 0 .. LabSpec[Len(run[r].steps) + 1] : run' = [run EXCEPT ![r].steps = Append(run[r].steps, k)]
  <2>1. run[r] = [pc |-> run[r].pc, steps |-> run[r].steps, final |-> run[r].final,
                    verdict |-> run[r].verdict, read |-> run[r].read] /\ run = [u \in Runs |-> run[u]]
    BY <1>0 DEF ProgressTyped
  <2> QED BY <2>1 DEF EvalStep
<1>2. /\ Outcome(run[r].steps) /\ Outcome(run[r].final) /\ run[r].verdict \in {"passed", "failed"}
      /\ run[r].pc = "steps" /\ run[r].pc \in RunPlaces /\ stored = [u \in Runs |-> stored[u]]
  BY <1>0 DEF ProgressTyped, EvalStep, RunAt, RunPlaces
<1> PICK o, l : o = run[r].steps /\ l = Append(o, k) OBVIOUS
<1>3. RunSet(r, "steps", l, run[r].final, run[r].verdict, run[r].read) BY <1>0, <1>1, <1>2, RunSteps
<1>4. Outcome(l)
  <2>1. o \in Seq(Nat) /\ Len(o) \in Nat /\ Len(o) < Len(LabSpec) /\ \A i \in 1 .. Len(o) : o[i] <= LabSpec[i]
    BY <1>2, LenProperties DEF Outcome, EvalStep
  <2>2. LabSpec \in Seq(Nat) /\ Len(LabSpec) \in Nat BY ProgressAssumption, LenProperties
  <2>3. LabSpec[Len(o) + 1] \in Nat BY <2>1, <2>2, ElementOfSeq
  <2>4. k \in Nat /\ k <= LabSpec[Len(o) + 1] BY <1>1, <2>3
  <2>5. l \in Seq(Nat) /\ Len(l) = Len(o) + 1 /\ (\A i \in 1 .. Len(o) : l[i] = o[i]) /\ l[Len(o) + 1] = k
    BY <2>1, <2>4, AppendProperties
  <2>6. DOMAIN l = 1 .. Len(o) + 1 BY <2>5, LenProperties
  <2>7. ASSUME NEW i \in DOMAIN l PROVE l[i] <= LabSpec[i]
    <3>1. i \in 1 .. Len(o) \/ i = Len(o) + 1 BY <2>1, <2>6
    <3>2. CASE i \in 1 .. Len(o)
      <4>1. l[i] = o[i] /\ o[i] <= LabSpec[i] BY <2>1, <2>5, <3>2
      <4> QED BY <4>1
    <3>3. CASE i = Len(o) + 1
      <4>1. l[i] = k BY <2>5, <3>3
      <4> QED BY <2>4, <3>3, <4>1
    <3> QED BY <3>1, <3>2, <3>3
  <2>8. Len(l) <= Len(LabSpec) BY <2>1, <2>2, <2>5
  <2> QED BY <2>5, <2>7, <2>8 DEF Outcome
<1>5. WholeAt("steps", run[r].final, run[r].verdict) /\ StoredAt(stored[r], "steps", run[r].final, run[r].verdict, recorded[r])
  BY <1>2, WholeIs
<1>6. UNCHANGED <<lab, inserting, stored, starter, recorded, overlap>> BY DEF EvalStep
<1>7. stored' = [u \in Runs |-> stored'[u]] /\ \A u \in Runs \ {r} : stored'[u] = stored[u] BY <1>2, <1>6
<1>8. "steps" \in RunPlaces /\ stored'[r] = stored[r] BY <1>6 DEF RunPlaces
<1> QED BY <1>2, <1>3, <1>4, <1>5, <1>6, <1>7, <1>8, Quiet

\* A run that finishes.
LEMMA FinishPart ==
  ASSUME ProgressInv, NEW r \in Runs, Finish(r) PROVE ProgressInv'
<1>0. ProgressTyped BY DEF ProgressInv
<1> PICK o : o = run[r].steps OBVIOUS
<1>1. PICK v : v = IF \A i \in DOMAIN o : StepOk(o, i) THEN "passed" ELSE "failed" OBVIOUS
<1>2. run' = [run EXCEPT ![r].pc = "finish", ![r].final = o, ![r].verdict = v] BY <1>1 DEF Finish
<1>3. /\ Outcome(o) /\ run[r].pc = "steps" /\ stored = [u \in Runs |-> stored[u]] /\ Len(o) = Len(LabSpec)
  BY <1>0 DEF ProgressTyped, Finish, RunAt
<1>4. RunSet(r, "finish", o, o, v, run[r].read) BY <1>0, <1>2, RunFinishes
<1>5. o # <<>> BY <1>3, ProgressAssumption, LenProperties, EmptySeq
<1>6. v \in {"passed", "failed"} /\ (v = "passed" <=> AllPassed(o)) BY <1>1, <1>5 DEF AllPassed
<1>7. WholeAt("finish", o, v) BY <1>3, <1>5, <1>6 DEF WholeAt
<1>8. StoredAt(stored[r], "steps", run[r].final, run[r].verdict, recorded[r]) BY <1>3, WholeIs
<1>9. UNCHANGED <<lab, inserting, stored, starter, recorded, overlap>> BY DEF Finish
<1>10. StoredAt(stored'[r], "finish", o, v, recorded[r]) BY <1>8, <1>9 DEF StoredAt
<1>11. stored' = [u \in Runs |-> stored'[u]] /\ \A u \in Runs \ {r} : stored'[u] = stored[u] BY <1>3, <1>9
<1>12. "finish" \in RunPlaces BY DEF RunPlaces
<1> QED BY <1>3, <1>4, <1>6, <1>7, <1>9, <1>10, <1>11, <1>12, Quiet

\* A run that is cut.
LEMMA CutPart ==
  ASSUME ProgressInv, NEW r \in Runs, Cut(r) PROVE ProgressInv'
<1>0. ProgressTyped BY DEF ProgressInv
<1>1. PICK p \in {"finish", "gone"} : run' = [run EXCEPT ![r].pc = p] /\ (p = "finish" => run[r].pc = "steps")
  BY DEF Cut, RunAt, RunTo
<1>2. RunSet(r, p, run[r].steps, run[r].final, run[r].verdict, run[r].read) BY <1>0, <1>1, RunGoes
<1>3. /\ Outcome(run[r].steps) /\ Outcome(run[r].final) /\ run[r].verdict \in {"passed", "failed"} /\ p \in RunPlaces
      /\ stored = [u \in Runs |-> stored[u]]
  BY <1>0 DEF ProgressTyped, RunPlaces
<1>4. run[r].pc \in {"steps", "finish", "read", "write"} BY DEF Cut
<1>5. WholeAt(run[r].pc, run[r].final, run[r].verdict) /\ StoredAt(stored[r], run[r].pc, run[r].final, run[r].verdict, recorded[r])
  BY WholeIs
<1>6. WholeAt(p, run[r].final, run[r].verdict) BY <1>5 DEF WholeAt
<1>7. StoredAt(stored[r], p, run[r].final, run[r].verdict, recorded[r]) BY <1>1, <1>4, <1>5 DEF StoredAt
<1>8. UNCHANGED <<lab, inserting, stored, starter, recorded, overlap>> BY DEF Cut
<1>9. stored' = [u \in Runs |-> stored'[u]] /\ (\A u \in Runs \ {r} : stored'[u] = stored[u]) /\ stored'[r] = stored[r] BY <1>3, <1>8
<1> QED BY <1>2, <1>3, <1>6, <1>7, <1>8, <1>9, Quiet

\* A run whose outcome is stored.
LEMMA StorePart ==
  ASSUME ProgressInv, NEW r \in Runs, FinishRun(r) PROVE ProgressInv'
<1>0. ProgressTyped BY DEF ProgressInv
<1>1. PICK p : p = IF run[r].final = <<>> THEN "done" ELSE "read" OBVIOUS
<1>2. RunSet(r, p, run[r].steps, run[r].final, run[r].verdict, run[r].read) BY <1>0, <1>1, RunGoes DEF FinishRun, RunTo
<1>3. /\ Outcome(run[r].steps) /\ Outcome(run[r].final) /\ run[r].verdict \in {"passed", "failed"}
      /\ run[r].pc = "finish" /\ stored = [u \in Runs |-> stored[u]]
  BY <1>0 DEF ProgressTyped, FinishRun, RunAt
<1>4. p \in RunPlaces /\ p # "write" /\ p \in {"done", "read"} BY <1>1 DEF RunPlaces
<1>5. WholeAt("finish", run[r].final, run[r].verdict) /\ StoredAt(stored[r], "finish", run[r].final, run[r].verdict, recorded[r])
  BY <1>3, WholeIs
<1>6. WholeAt(p, run[r].final, run[r].verdict) BY <1>1, <1>5 DEF WholeAt
<1>7. stored' = [stored EXCEPT ![r] = [status |-> run[r].verdict, steps |-> run[r].final]] BY DEF FinishRun
<1>8. /\ stored'[r] = [status |-> run[r].verdict, steps |-> run[r].final] /\ stored' = [u \in Runs |-> stored'[u]]
      /\ \A u \in Runs \ {r} : stored'[u] = stored[u]
  BY <1>3, <1>7
<1>9. StoredAt(stored'[r], p, run[r].final, run[r].verdict, recorded[r]) BY <1>4, <1>5, <1>8 DEF StoredAt
<1>10. UNCHANGED <<lab, inserting, starter, recorded, overlap>> BY DEF FinishRun
<1> QED BY <1>2, <1>3, <1>4, <1>6, <1>8, <1>9, <1>10, Quiet

\* A run that reads the row.
LEMMA ReadPart ==
  ASSUME ProgressInv, NEW r \in Runs, ReadProgress(r) PROVE ProgressInv'
<1>0. ProgressTyped /\ OneInserter /\ ReadsBefore /\ OneWriter /\ RowTells BY DEF ProgressInv
<1>1. PICK l : l = lab OBVIOUS
<1>2. run' = [run EXCEPT ![r].pc = "write", ![r].read = l] BY <1>1 DEF ReadProgress
<1>3. RunSet(r, "write", run[r].steps, run[r].final, run[r].verdict, l) BY <1>0, <1>2, RunReads
<1>4. /\ Outcome(run[r].steps) /\ Outcome(run[r].final) /\ run[r].verdict \in {"passed", "failed"} /\ "write" \in RunPlaces
      /\ run[r].pc = "read" /\ stored = [u \in Runs |-> stored[u]] /\ recorded = [u \in Runs |-> recorded[u]]
      /\ l \in Rows \cup {None}
  BY <1>0, <1>1 DEF ProgressTyped, ReadProgress, RunAt, RunPlaces
<1>5. /\ UNCHANGED <<lab, inserting, stored, starter, recorded>>
      /\ overlap' = (overlap \/ \E q \in Runs \ {r} : run[q].pc = "write")
  BY DEF ReadProgress, Recording, RunAt
<1>6. /\ lab' \in Rows \cup {None} /\ inserting' \in Starters \cup {None} /\ overlap' \in BOOLEAN
      /\ starter' \in [Starters -> {"idle", "insert", "commit", "done", "failed"}]
      /\ stored' = [u \in Runs |-> stored'[u]] /\ recorded' = [u \in Runs |-> recorded'[u]]
  BY <1>0, <1>4, <1>5 DEF ProgressTyped
<1>7. /\ ProgressTyped' /\ (\A u \in Runs \ {r} : run'[u] = run[u]) /\ run'[r].pc = "write" /\ run'[r].read = l
  BY <1>0, <1>3, <1>4, <1>6, RunTyped
<1>8. WholeAt("read", run[r].final, run[r].verdict) /\ StoredAt(stored[r], "read", run[r].final, run[r].verdict, recorded[r])
  BY <1>4, WholeIs
<1>9. WholeAt("write", run[r].final, run[r].verdict) BY <1>8 DEF WholeAt
<1>10. StoredAt(stored'[r], "write", run[r].final, run[r].verdict, recorded'[r]) BY <1>5, <1>8 DEF StoredAt
<1>11. FinalsWhole' /\ StoredAsRun' BY <1>3, <1>5, <1>9, <1>10, SetWhole
<1>12. OneInserter' BY <1>0, <1>5 DEF OneInserter
<1>13. ReadsBefore'
  <2>1. ASSUME NEW u \in Runs, run'[u].pc = "write", run'[u].read # None
        PROVE  /\ lab' # None
               /\ run'[u].read.status = "completed" => lab'.status = "completed"
               /\ ~overlap' => run'[u].read = lab'
    <3>1. CASE u = r BY <1>1, <1>5, <1>7, <2>1, <3>1
    <3>2. CASE u # r
      <4>1. run'[u] = run[u] /\ lab' = lab /\ (~overlap' => ~overlap) BY <1>5, <1>7, <3>2
      <4> QED BY <1>0, <2>1, <4>1 DEF ReadsBefore
    <3> QED BY <3>1, <3>2
  <2> QED BY <2>1 DEF ReadsBefore
<1>14. OneWriter' BY <1>5, <1>7 DEF OneWriter
<1>15. RowTells'
  <2>1. ~overlap' => ~overlap BY <1>5
  <2> QED BY <1>0, <1>5, <2>1 DEF RowTells, Credited
<1> QED BY <1>7, <1>11, <1>12, <1>13, <1>14, <1>15 DEF ProgressInv

\* The columns a recorded run leaves in a row.
Raises(new, row, read, o) ==
  /\ new \in Rows
  /\ new.status = "completed" <=> row.status = "completed" \/ (AllPassed(o) /\ read.status # "completed")
  /\ new.score = row.score \/ new.score = Score(o)
  /\ read = row => new.score >= row.score /\ new.score >= Score(o)

\* A write of the row is such.
LEMMA UpdatedIs ==
  ASSUME NEW row \in Rows, NEW read \in Rows, NEW o, Outcome(o)
  PROVE  Raises(Updated(row, read, o), row, read, o)
<1>1. Score(o) \in Nat BY ScoreIs
<1>a. PICK new : new = Updated(row, read, o) OBVIOUS
<1>2. /\ row.score \in Nat /\ row.status \in {"in_progress", "completed"}
      /\ read.score \in Nat /\ read.status \in {"in_progress", "completed"}
  BY DEF Rows
<1>3. /\ new.score = IF Best(read.score, Score(o)) = read.score THEN row.score ELSE Score(o)
      /\ new.status = IF AllPassed(o) /\ read.status # "completed" THEN "completed" ELSE row.status
  BY <1>a DEF Updated
<1>4. new \in Rows BY <1>1, <1>2, <1>a DEF Updated, Rows
<1>5. new.status = "completed" <=> row.status = "completed" \/ (AllPassed(o) /\ read.status # "completed") BY <1>2, <1>3
<1>6. new.score = row.score \/ new.score = Score(o) BY <1>3
<1>7. read = row => new.score >= row.score /\ new.score >= Score(o) BY <1>1, <1>2, <1>3 DEF Best
<1>8. Raises(new, row, read, o) BY <1>4, <1>5, <1>6, <1>7 DEF Raises
<1> QED BY <1>8, <1>a

\* The row of a first run.
LEMMA NewRowIs ==
  ASSUME NEW o, Outcome(o)
  PROVE  /\ NewRow(o) \in Rows /\ NewRow(o).score = Score(o)
         /\ NewRow(o).status = "completed" <=> AllPassed(o)
BY ScoreIs DEF NewRow, Rows

\* A run that wrote the row, or could not.
LEMMA Written ==
  ASSUME ProgressInv, NEW r \in Runs, WriteProgress(r)
  PROVE  /\ RunSet(r, "done", run[r].steps, run[r].final, run[r].verdict, run[r].read)
         /\ Outcome(run[r].final) /\ run[r].final # None /\ r \notin Credited
         /\ UNCHANGED <<inserting, stored, starter, overlap>>
         /\ recorded' = [u \in Runs |-> recorded'[u]] /\ (\A u \in Runs \ {r} : recorded'[u] = recorded[u])
         /\ recorded'[r] \in {recorded[r], run[r].final}
         /\ (lab' \in Rows \cup {None} => ProgressTyped')
         /\ (\A u \in Runs \ {r} : run'[u] = run[u]) /\ run'[r].pc = "done"
         /\ FinalsWhole' /\ StoredAsRun' /\ OneWriter'
<1>0. ProgressTyped /\ OneWriter BY DEF ProgressInv
<1>1. RunSet(r, "done", run[r].steps, run[r].final, run[r].verdict, run[r].read) BY <1>0, RunGoes DEF WriteProgress, RunTo
<1>2. /\ Outcome(run[r].steps) /\ Outcome(run[r].final) /\ run[r].verdict \in {"passed", "failed"} /\ "done" \in RunPlaces
      /\ run[r].pc = "write" /\ stored = [u \in Runs |-> stored[u]] /\ recorded = [u \in Runs |-> recorded[u]]
      /\ run[r].read \in Rows \cup {None}
  BY <1>0 DEF ProgressTyped, WriteProgress, Recording, RunAt, RunPlaces
<1>3. UNCHANGED <<inserting, stored, starter, overlap>> BY DEF WriteProgress
<1>4. WholeAt("write", run[r].final, run[r].verdict) /\ StoredAt(stored[r], "write", run[r].final, run[r].verdict, recorded[r])
  BY <1>2, WholeIs
<1>5. run[r].final # None BY <1>2, NoneOf
<1>6. r \notin Credited BY <1>4 DEF StoredAt, Credited
<1>7. recorded' = [recorded EXCEPT ![r] = run[r].final] \/ recorded' = recorded BY DEF WriteProgress
<1>8. /\ recorded' = [u \in Runs |-> recorded'[u]] /\ (\A u \in Runs \ {r} : recorded'[u] = recorded[u])
      /\ recorded'[r] \in {recorded[r], run[r].final}
  BY <1>2, <1>7
<1>9. /\ inserting' \in Starters \cup {None} /\ overlap' \in BOOLEAN
      /\ starter' \in [Starters -> {"idle", "insert", "commit", "done", "failed"}]
      /\ stored' = [u \in Runs |-> stored'[u]]
  BY <1>0, <1>2, <1>3 DEF ProgressTyped
<1>10. ASSUME lab' \in Rows \cup {None} PROVE ProgressTyped'
  BY <1>0, <1>1, <1>2, <1>8, <1>9, <1>10, RunTyped
<1>11. (\A u \in Runs \ {r} : run'[u] = run[u]) /\ run'[r].pc = "done" BY <1>1 DEF RunSet
<1>12. WholeAt("done", run[r].final, run[r].verdict) BY <1>4 DEF WholeAt
<1>13. StoredAt(stored'[r], "done", run[r].final, run[r].verdict, recorded'[r]) BY <1>3, <1>4, <1>8 DEF StoredAt
<1>14. \A u \in Runs \ {r} : stored'[u] = stored[u] BY <1>3
<1>15. FinalsWhole' /\ StoredAsRun' BY <1>1, <1>8, <1>12, <1>13, <1>14, SetWhole
<1>16. OneWriter' BY <1>0, <1>3, <1>11 DEF OneWriter
<1> QED BY <1>1, <1>2, <1>3, <1>5, <1>6, <1>8, <1>10, <1>11, <1>15, <1>16

\* The row after a run wrote it, or could not.
LEMMA WritePart ==
  ASSUME ProgressInv, NEW r \in Runs, WriteProgress(r) PROVE ProgressInv'
<1>0. ProgressTyped /\ OneInserter /\ ReadsBefore /\ OneWriter /\ RowTells BY DEF ProgressInv
<1>1. /\ Outcome(run[r].final) /\ run[r].final # None /\ r \notin Credited
      /\ UNCHANGED <<inserting, stored, starter, overlap>>
      /\ (\A u \in Runs \ {r} : recorded'[u] = recorded[u])
      /\ (lab' \in Rows \cup {None} => ProgressTyped')
      /\ (\A u \in Runs \ {r} : run'[u] = run[u]) /\ run'[r].pc = "done"
      /\ FinalsWhole' /\ StoredAsRun' /\ OneWriter'
  BY Written
<1>2. run[r].pc = "write" /\ lab \in Rows \cup {None} /\ recorded = [u \in Runs |-> recorded[u]] /\ run[r].read \in Rows \cup {None}
  BY <1>0 DEF ProgressTyped, WriteProgress, Recording, RunAt
<1>3. PICK o : o = run[r].final OBVIOUS
<1>4. Outcome(o) /\ o # None BY <1>1, <1>3
<1>5. CASE run[r].read # None /\ Update(r) /\ recorded' = [recorded EXCEPT ![r] = run[r].final]
  <2>1. PICK l, d, n : l = lab /\ d = run[r].read /\ n = Updated(l, d, o) OBVIOUS
  <2>2. l # None /\ (d.status = "completed" => l.status = "completed") /\ (~overlap => d = l) BY <1>0, <1>2, <1>5, <2>1 DEF ReadsBefore
  <2>3. l \in Rows /\ d \in Rows BY <1>2, <1>5, <2>1, <2>2
  <2>4. /\ n \in Rows
        /\ n.status = "completed" <=> l.status = "completed" \/ (AllPassed(o) /\ d.status # "completed")
        /\ n.score = l.score \/ n.score = Score(o)
        /\ d = l => n.score >= l.score /\ n.score >= Score(o)
    <3>1. Raises(n, l, d, o) BY <1>4, <2>1, <2>3, UpdatedIs
    <3> QED BY <3>1 DEF Raises
  <2>5. lab' = n BY <1>3, <1>5, <2>1 DEF Update
  <2>6. lab' # None /\ ProgressTyped' BY <1>1, <2>4, <2>5, NoneOf
  <2>7. recorded'[r] = o BY <1>2, <1>3, <1>5
  <2>8. Credited' = Credited \cup {r} BY <1>1, <1>4, <2>7 DEF Credited
  <2>9. OneInserter' BY <1>0, <1>1, <2>1, <2>2 DEF OneInserter
  <2>10. ReadsBefore' BY <1>0, <1>1, <1>2, <2>1, <2>4, <2>5, <2>6 DEF ReadsBefore, OneWriter
  <2>11. /\ l.status = "completed" <=> \E u \in Credited : AllPassed(recorded[u])
         /\ l.score = 0 \/ \E u \in Credited : l.score = Score(recorded[u])
         /\ ~overlap => \A u \in Credited : l.score >= Score(recorded[u])
    BY <1>0, <2>1, <2>2 DEF RowTells
  <2>12. \A u \in Credited : recorded'[u] = recorded[u] /\ u \in Runs BY <1>1 DEF Credited
  <2>13. n.status = "completed" <=> \E u \in Credited' : AllPassed(recorded'[u])
    <3>1. (\E u \in Credited' : AllPassed(recorded'[u])) <=> AllPassed(o) \/ \E u \in Credited : AllPassed(recorded[u])
      BY <2>7, <2>8, <2>12
    <3> QED BY <2>2, <2>4, <2>11, <3>1
  <2>14. n.score = 0 \/ \E u \in Credited' : n.score = Score(recorded'[u]) BY <2>4, <2>7, <2>8, <2>11, <2>12
  <2>15. ~overlap' => \A u \in Credited' : n.score >= Score(recorded'[u])
    <3> SUFFICES ASSUME ~overlap', NEW u \in Credited' PROVE n.score >= Score(recorded'[u]) OBVIOUS
    <3>1. n.score >= l.score /\ n.score >= Score(o) BY <1>1, <2>2, <2>4
    <3>2. CASE u = r BY <2>7, <3>1, <3>2
    <3>3. CASE u # r
      <4>1. u \in Credited /\ l.score >= Score(recorded[u]) BY <1>1, <2>8, <2>11, <3>3
      <4>2. u \in Runs /\ recorded[u] # None /\ recorded'[u] = recorded[u] BY <2>12, <4>1 DEF Credited
      <4>3. Outcome(recorded[u]) BY <1>0, <4>2 DEF ProgressInv, StoredAsRun, ProgressTyped
      <4>4. Score(recorded[u]) \in Nat /\ l.score \in Nat /\ n.score \in Nat BY <2>3, <2>4, <4>3, ScoreIs DEF Rows
      <4> QED BY <3>1, <4>1, <4>2, <4>4
    <3> QED BY <3>2, <3>3
  <2>16. RowTells' BY <2>5, <2>6, <2>13, <2>14, <2>15 DEF RowTells
  <2> QED BY <1>1, <2>6, <2>9, <2>10, <2>16 DEF ProgressInv
<1>6. CASE run[r].read = None /\ lab = None /\ inserting = None /\ lab' = NewRow(run[r].final)
           /\ recorded' = [recorded EXCEPT ![r] = run[r].final]
  <2>1. PICK n : n = NewRow(o) OBVIOUS
  <2>2. n \in Rows /\ n.score = Score(o) /\ (n.status = "completed" <=> AllPassed(o)) BY <1>4, <2>1, NewRowIs
  <2>3. lab' = n BY <1>3, <1>6, <2>1
  <2>4. lab' # None /\ ProgressTyped' BY <1>1, <2>2, <2>3, NoneOf
  <2>5. recorded'[r] = o BY <1>2, <1>3, <1>6
  <2>6. Credited' = {r}
    <3>1. Credited = {} BY <1>0, <1>6 DEF RowTells
    <3> QED BY <1>1, <1>4, <2>5, <3>1 DEF Credited
  <2>7. OneInserter' BY <1>0, <1>1, <1>6 DEF OneInserter
  <2>8. ReadsBefore' BY <1>0, <1>1, <1>6 DEF ReadsBefore
  <2>9. Score(o) \in Nat BY <1>4, ScoreIs
  <2>10. RowTells' BY <2>2, <2>3, <2>4, <2>5, <2>6, <2>9 DEF RowTells
  <2> QED BY <1>1, <2>4, <2>7, <2>8, <2>10 DEF ProgressInv
<1>7. CASE run[r].read = None /\ lab # None /\ UNCHANGED <<lab, recorded>>
  <2>1. ProgressTyped' BY <1>1, <1>2, <1>7
  <2>2. OneInserter' BY <1>0, <1>1, <1>7 DEF OneInserter
  <2>3. ReadsBefore' BY <1>0, <1>1, <1>7 DEF ReadsBefore
  <2>4. RowTells' BY <1>0, <1>1, <1>7 DEF RowTells, Credited
  <2> QED BY <1>1, <2>1, <2>2, <2>3, <2>4 DEF ProgressInv
<1> QED BY <1>5, <1>6, <1>7 DEF WriteProgress

\* A step of the request that starts the lab.
StarterStep(s, p) ==
  /\ starter' \in [Starters -> {"idle", "insert", "commit", "done", "failed"}]
  /\ starter'[s] = p /\ \A u \in Starters \ {s} : starter'[u] = starter[u]

\* The place of a request is set.
LEMMA StarterGoes ==
  ASSUME ProgressTyped, NEW s \in Starters, NEW p \in {"idle", "insert", "commit", "done", "failed"}, StarterTo(s, p)
  PROVE  StarterStep(s, p)
BY DEF ProgressTyped, StarterTo, StarterStep

\* A request that finds no row inserts one.
LEMMA StartsPart ==
  ASSUME ProgressInv, NEW s \in Starters, StartRead(s) \/ StartInsert(s) PROVE ProgressInv'
<1>0. ProgressTyped /\ FinalsWhole /\ StoredAsRun /\ OneInserter /\ ReadsBefore /\ OneWriter /\ RowTells BY DEF ProgressInv
<1>1. UNCHANGED <<lab, run, stored, recorded, overlap>> BY DEF StartRead, StartInsert
<1>2. PICK p \in {"insert", "done", "failed", "commit"} :
        /\ StarterTo(s, p) /\ starter[s] \in {"idle", "insert"}
        /\ IF p = "commit" THEN inserting' = s /\ inserting = None /\ lab = None ELSE inserting' = inserting
  BY DEF StartRead, StartInsert
<1>3. StarterStep(s, p) BY <1>0, <1>2, StarterGoes
<1>4. inserting' \in Starters \cup {None} BY <1>0, <1>2 DEF ProgressTyped
<1>5. ProgressTyped' BY <1>0, <1>1, <1>3, <1>4 DEF ProgressTyped, StarterStep
<1>6. FinalsWhole' BY <1>0, <1>1 DEF FinalsWhole
<1>7. StoredAsRun' BY <1>0, <1>1 DEF StoredAsRun, Pending, Shows
<1>8. OneInserter'
  <2>1. starter[s] # "commit" /\ inserting # s BY <1>0, <1>2 DEF OneInserter
  <2>2. CASE p = "commit" BY <1>0, <1>1, <1>2, <1>3, <2>1, <2>2, NoneOf DEF OneInserter, StarterStep
  <2>3. CASE p # "commit" BY <1>0, <1>1, <1>2, <1>3, <2>1, <2>3 DEF OneInserter, StarterStep
  <2> QED BY <2>2, <2>3
<1>9. ReadsBefore' BY <1>0, <1>1 DEF ReadsBefore
<1>10. OneWriter' BY <1>0, <1>1 DEF OneWriter
<1>11. RowTells' BY <1>0, <1>1 DEF RowTells, Credited
<1> QED BY <1>5, <1>6, <1>7, <1>8, <1>9, <1>10, <1>11 DEF ProgressInv

\* A request commits its row, or fails to.
LEMMA CommitPart ==
  ASSUME ProgressInv, NEW s \in Starters, StartCommit(s) PROVE ProgressInv'
<1>0. ProgressTyped /\ FinalsWhole /\ StoredAsRun /\ OneInserter /\ ReadsBefore /\ OneWriter /\ RowTells BY DEF ProgressInv
<1>1. UNCHANGED <<run, stored, recorded, overlap>> /\ inserting' = None /\ starter[s] = "commit" BY DEF StartCommit
<1>2. inserting = s /\ lab = None /\ s # None BY <1>0, <1>1, NoneOf DEF OneInserter
<1>3. PICK p \in {"done", "failed"} : StarterTo(s, p) BY DEF StartCommit
<1>4. StarterStep(s, p) BY <1>0, <1>3, StarterGoes
<1>5. PICK n : n = [score |-> 0, status |-> "in_progress"] OBVIOUS
<1>6. n \in Rows /\ n.score = 0 /\ n.status = "in_progress" BY <1>5 DEF Rows
<1>7. lab' = n \/ lab' = lab BY <1>5 DEF StartCommit
<1>8. lab' \in Rows \cup {None} BY <1>2, <1>6, <1>7
<1>9. ProgressTyped' BY <1>0, <1>1, <1>4, <1>8 DEF ProgressTyped, StarterStep
<1>10. FinalsWhole' BY <1>0, <1>1 DEF FinalsWhole
<1>11. StoredAsRun' BY <1>0, <1>1 DEF StoredAsRun, Pending, Shows
<1>12. OneInserter' BY <1>0, <1>1, <1>2, <1>4, <1>3, NoneOf DEF OneInserter, StarterStep
<1>13. ReadsBefore' BY <1>0, <1>1, <1>2 DEF ReadsBefore
<1>14. OneWriter' BY <1>0, <1>1 DEF OneWriter
<1>15. RowTells'
  <2>1. Credited = {} /\ Credited' = Credited BY <1>0, <1>1, <1>2 DEF RowTells, Credited
  <2> QED BY <1>2, <1>6, <1>7, <2>1 DEF RowTells
<1> QED BY <1>9, <1>10, <1>11, <1>12, <1>13, <1>14, <1>15 DEF ProgressInv

\* The invariant holds at first.
LEMMA ProgressBegins == ASSUME ProgressInit PROVE ProgressInv
<1>1. ProgressTyped BY EmptyOutcome DEF ProgressInit, ProgressTyped, Idle, Blank, RunPlaces
<1>2. FinalsWhole BY EmptyOutcome DEF ProgressInit, FinalsWhole, Idle
<1>3. StoredAsRun BY DEF ProgressInit, StoredAsRun, Idle
<1>4. OneInserter BY NoneOf DEF ProgressInit, OneInserter
<1>5. ReadsBefore /\ OneWriter BY DEF ProgressInit, ReadsBefore, OneWriter, Idle
<1>6. RowTells BY DEF ProgressInit, RowTells, Credited
<1> QED BY <1>1, <1>2, <1>3, <1>4, <1>5, <1>6 DEF ProgressInv

\* Every step keeps the invariant.
LEMMA ProgressGoesOn == ASSUME ProgressInv, [ProgressNext]_progressVars PROVE ProgressInv'
<1>1. CASE UNCHANGED progressVars
  <2>1. UNCHANGED <<lab, inserting, run, stored, starter, recorded, overlap>> BY <1>1 DEF progressVars
  <2>2. ProgressTyped /\ FinalsWhole /\ StoredAsRun /\ OneInserter /\ ReadsBefore /\ OneWriter /\ RowTells BY DEF ProgressInv
  <2>3. ProgressTyped' BY <2>1, <2>2 DEF ProgressTyped
  <2>4. FinalsWhole' BY <2>1, <2>2 DEF FinalsWhole
  <2>5. StoredAsRun' BY <2>1, <2>2 DEF StoredAsRun, Pending, Shows
  <2>6. OneInserter' /\ ReadsBefore' /\ OneWriter' BY <2>1, <2>2 DEF OneInserter, ReadsBefore, OneWriter
  <2>7. RowTells' BY <2>1, <2>2 DEF RowTells, Credited
  <2> QED BY <2>3, <2>4, <2>5, <2>6, <2>7 DEF ProgressInv
<1>2. ASSUME NEW r \in Runs,
             \/ CreateRun(r) \/ EvalStep(r) \/ Finish(r) \/ Cut(r) \/ FinishRun(r) \/ ReadProgress(r) \/ WriteProgress(r)
      PROVE  ProgressInv'
  BY <1>2, CreatePart, EvalPart, FinishPart, CutPart, StorePart, ReadPart, WritePart
<1>3. ASSUME NEW s \in Starters, StartRead(s) \/ StartInsert(s) \/ StartCommit(s) PROVE ProgressInv'
  BY <1>3, StartsPart, CommitPart
<1> QED BY <1>1, <1>2, <1>3 DEF ProgressNext

\* The invariant is about what is shown.
LEMMA ProgressShown == ASSUME ProgressInv PROVE ProgressSound
<1>0. ProgressTyped /\ FinalsWhole /\ StoredAsRun /\ OneInserter /\ ReadsBefore /\ OneWriter /\ RowTells BY DEF ProgressInv
<1>1. ASSUME NEW r \in Runs
      PROVE  /\ stored[r].steps # <<>> => Len(stored[r].steps) = Len(LabSpec)
             /\ stored[r].status = "passed" <=> AllPassed(stored[r].steps)
             /\ stored[r].status = "running" => run[r].pc \in {"steps", "finish", "gone"}
             /\ r \in Credited => recorded[r] = stored[r].steps
             /\ stored[r].status \in {"none", "running", "passed", "failed"}
  <2>1. stored[r] = Blank \/ Pending(r) \/ Shows(r) BY <1>0 DEF StoredAsRun, ProgressTyped, RunPlaces
  <2>2. run[r].verdict \in {"passed", "failed"} BY <1>0 DEF ProgressTyped
  <2>3. CASE stored[r] = Blank
    <3>1. run[r].pc \in {"idle"} \/ Shows(r) \/ Pending(r) BY <1>0 DEF StoredAsRun, ProgressTyped, RunPlaces
    <3>2. stored[r].status = "none" /\ stored[r].steps = <<>> BY <2>3 DEF Blank
    <3>3. ~Pending(r) /\ ~Shows(r) BY <2>2, <3>2 DEF Pending, Shows
    <3>4. r \notin Credited BY <1>0, <3>1, <3>3 DEF StoredAsRun, Credited
    <3> QED BY <3>2, <3>4, EmptyOutcome
  <2>4. CASE Pending(r)
    <3>1. stored[r].status = "running" /\ stored[r].steps = <<>> BY <2>4 DEF Pending
    <3>2. ~Shows(r) /\ stored[r] # Blank BY <2>2, <3>1 DEF Shows, Blank
    <3>3. run[r].pc \in {"steps", "finish", "gone"} BY <1>0, <3>2 DEF StoredAsRun, ProgressTyped, RunPlaces
    <3>4. r \notin Credited BY <1>0, <3>3 DEF StoredAsRun, Credited
    <3> QED BY <3>1, <3>3, <3>4, EmptyOutcome
  <2>5. CASE Shows(r)
    <3>1. stored[r].status = run[r].verdict /\ stored[r].steps = run[r].final BY <2>5 DEF Shows
    <3> QED BY <1>0, <2>2, <3>1 DEF FinalsWhole, StoredAsRun, Credited
  <2> QED BY <2>1, <2>3, <2>4, <2>5
<1>2. ProgressTypeOK BY <1>0, <1>1 DEF ProgressTyped, ProgressTypeOK, Rows
<1>3. lab # None => lab.score \in {0} \cup {Score(recorded[r]) : r \in Credited} BY <1>0 DEF RowTells
<1> QED BY <1>0, <1>1, <1>2, <1>3 DEF ProgressSound, RowTells

\* What the dashboard reads is what the runs have shown.
THEOREM ProgressAlwaysSound == ProgressSpec => []ProgressSound
<1>1. ProgressInit => ProgressInv BY ProgressBegins
<1>2. ProgressInv /\ [ProgressNext]_progressVars => ProgressInv' BY ProgressGoesOn
<1>3. ProgressInv => ProgressSound BY ProgressShown
<1> QED BY <1>1, <1>2, <1>3, PTL DEF ProgressSpec
-----------------------------------------------------------------------------
(* Checks on shared consoles *)

\* Taking an entry out leaves the others as they were and in their order.
LEMMA RemoveAtIs ==
  ASSUME NEW S, NEW s \in Seq(S), NEW i \in 1 .. Len(s)
  PROVE  /\ RemoveAt(s, i) \in Seq(S) /\ Len(RemoveAt(s, i)) = Len(s) - 1
         /\ \A j \in 1 .. (Len(s) - 1) : RemoveAt(s, i)[j] = s[IF j < i THEN j ELSE j + 1]
<1>0. PICK n, a, b : n = Len(s) /\ a = SubSeq(s, 1, i - 1) /\ b = SubSeq(s, i + 1, n) OBVIOUS
<1>1. n \in Nat /\ \A j \in 1 .. n : s[j] \in S BY <1>0, LenProperties, ElementOfSeq
<1>2. a \in Seq(S) /\ Len(a) = i - 1 /\ \A j \in 1 .. (i - 1) : a[j] = s[j]
  <2>1. \A j \in 1 .. (i - 1) : s[j] \in S BY <1>1
  <2>2. /\ SubSeq(s, 1, i - 1) \in Seq(S) /\ Len(SubSeq(s, 1, i - 1)) = IF 1 <= i - 1 THEN (i - 1) - 1 + 1 ELSE 0
        /\ \A j \in 1 .. ((i - 1) - 1 + 1) : SubSeq(s, 1, i - 1)[j] = s[1 + j - 1]
    BY <1>1, <2>1, SubSeqProperties
  <2>3. \A j \in 1 .. (i - 1) : 1 + j - 1 = j /\ j \in 1 .. ((i - 1) - 1 + 1) BY <1>1
  <2>4. Len(a) = i - 1 BY <1>0, <1>1, <2>2
  <2> QED BY <1>0, <2>2, <2>3, <2>4
<1>3. b \in Seq(S) /\ Len(b) = n - i /\ \A j \in 1 .. (n - i) : b[j] = s[i + j]
  <2>1. \A j \in (i + 1) .. n : s[j] \in S BY <1>1
  <2>2. /\ SubSeq(s, i + 1, n) \in Seq(S)
        /\ Len(SubSeq(s, i + 1, n)) = IF i + 1 <= n THEN n - (i + 1) + 1 ELSE 0
        /\ \A j \in 1 .. (n - (i + 1) + 1) : SubSeq(s, i + 1, n)[j] = s[(i + 1) + j - 1]
    BY <1>1, <2>1, SubSeqProperties
  <2>3. \A j \in 1 .. (n - i) : (i + 1) + j - 1 = i + j /\ j \in 1 .. (n - (i + 1) + 1) BY <1>1
  <2>4. Len(b) = n - i BY <1>0, <1>1, <2>2
  <2> QED BY <1>0, <2>2, <2>3, <2>4
<1>4. /\ a \o b \in Seq(S) /\ Len(a \o b) = Len(a) + Len(b)
      /\ \A j \in 1 .. Len(a) + Len(b) : (a \o b)[j] = IF j <= Len(a) THEN a[j] ELSE b[j - Len(a)]
  BY <1>2, <1>3, ConcatProperties
<1>5. RemoveAt(s, i) = a \o b BY <1>0 DEF RemoveAt
<1>6. Len(a) + Len(b) = n - 1 BY <1>1, <1>2, <1>3
<1>7. ASSUME NEW j \in 1 .. (n - 1) PROVE (a \o b)[j] = s[IF j < i THEN j ELSE j + 1]
  <2>1. (a \o b)[j] = IF j <= Len(a) THEN a[j] ELSE b[j - Len(a)] BY <1>4, <1>6
  <2>2. CASE j < i
    <3>1. j <= Len(a) /\ j \in 1 .. (i - 1) BY <1>1, <1>2, <2>2
    <3> QED BY <1>2, <2>1, <2>2, <3>1
  <2>3. CASE ~(j < i)
    <3>1. ~(j <= Len(a)) /\ j - Len(a) \in 1 .. (n - i) /\ i + (j - Len(a)) = j + 1 BY <1>1, <1>2, <2>3
    <3> QED BY <1>3, <2>1, <2>3, <3>1
  <2> QED BY <2>2, <2>3
<1> QED BY <1>0, <1>4, <1>5, <1>6, <1>7

\* An execution of a handler.
Executions ==
  [pc : {"idle", "connect", "ask", "close", "again", "ping", "done", "rejected", "cut"},
   node : Nodes \cup {None}, asks : {"none", "show_ip", "ping", "cisco", "save"},
   connects : 0 .. ConnectAttempts, reads : 0 .. (ReadAttempts - 1),
   answer : {None, "good", "bad"}, ok : BOOLEAN, observed : BOOLEAN]

\* Who asks a console, or is about to, has a lock for it.
Queues(x) == x.pc \in {"connect", "ask", "close"}
Goes(x) == x.pc \in {"connect", "ask", "close", "again", "ping"}

\* What an execution remembers, and what it concludes.
Consistent(c, x) ==
  /\ Goes(x) => x.node \in Nodes
  /\ x.pc = "connect" => x.answer = None
  /\ x.pc \in {"connect", "ask"} => x.connects < Tries(c)
  /\ x.pc = "done" /\ x.asks = "show_ip" =>
       /\ x.observed <=> x.answer # None
       /\ ~x.observed => x.reads = ReadAttempts - 1

ConsolesTyped ==
  /\ up \subseteq Nodes
  /\ locks \in [Nodes -> Seq(Checks)]
  /\ client \in [Nodes -> Checks \cup {None, "closing"}]
  /\ check \in [Checks -> Executions]

Holds(q, c) == \E i \in DOMAIN q : q[i] = c

\* The queue of a lock is without repetition, and of those who want the console.
QueuesOf(q, n, x) ==
  /\ \A i, j \in DOMAIN q : q[i] = q[j] => i = j
  /\ \A c \in Checks : Holds(q, c) <=> Locking(c) /\ Queues(x[c]) /\ x[c].node = n

\* Who is connected has come to its turn and has not left.
Served(n, d, q, x) == d \in Checks =>
  /\ x[d].pc \in {"ask", "close"} /\ x[d].node = n
  /\ Locking(d) => Head(q) = d

ConsolesInv ==
  /\ ConsolesTyped
  /\ \A c \in Checks : Consistent(c, check[c])
  /\ \A n \in Nodes : QueuesOf(locks[n], n, check) /\ Served(n, client[n], locks[n], check)

Distinct(q) == \A i, j \in DOMAIN q : q[i] = q[j] => i = j

\* Who leaves a queue leaves the others in it, and the first one first.
LEMMA QueueLeft ==
  ASSUME NEW q \in Seq(Checks), Distinct(q), NEW c \in Checks, NEW r, r = LeftBy(q, c)
  PROVE  /\ r \in Seq(Checks) /\ Distinct(r) /\ \A d : Holds(r, d) <=> Holds(q, d) /\ d # c
         /\ \A d : d # c /\ Head(q) = d /\ Holds(q, d) => Head(r) = d
<1>1. CASE Places(q, c) = {}
  <2>1. r = q BY <1>1 DEF LeftBy
  <2>2. \A i \in DOMAIN q : q[i] # c BY <1>1 DEF Places
  <2> QED BY <2>1, <2>2 DEF Holds
<1>2. CASE Places(q, c) # {}
  <2>1. PICK i : i = CHOOSE p \in Places(q, c) : TRUE OBVIOUS
  <2>2. PICK n : n = Len(q) OBVIOUS
  <2>3. n \in Nat /\ DOMAIN q = 1 .. n /\ \A j \in 1 .. n : q[j] \in Checks BY <2>2, LenProperties, ElementOfSeq
  <2>4. i \in 1 .. n /\ q[i] = c BY <1>2, <2>1, <2>3 DEF Places
  <2>5. r = RemoveAt(q, i) BY <1>2, <2>1 DEF LeftBy
  <2>6. r \in Seq(Checks) /\ Len(r) = n - 1 /\ \A j \in 1 .. (n - 1) : r[j] = q[IF j < i THEN j ELSE j + 1]
    BY <2>2, <2>4, <2>5, RemoveAtIs
  <2>7. DOMAIN r = 1 .. (n - 1) BY <2>6, LenProperties
  <2>8. \A j, k \in 1 .. n : q[j] = q[k] => j = k BY <2>3 DEF Distinct
  <2>9. Distinct(r)
    <3> SUFFICES ASSUME NEW j \in 1 .. (n - 1), NEW k \in 1 .. (n - 1), r[j] = r[k] PROVE j = k BY <2>7 DEF Distinct
    <3>1. PICK a : a = IF j < i THEN j ELSE j + 1 OBVIOUS
    <3>2. PICK b : b = IF k < i THEN k ELSE k + 1 OBVIOUS
    <3>3. a \in 1 .. n /\ b \in 1 .. n BY <2>3, <2>4, <3>1, <3>2
    <3>4. q[a] = q[b] BY <2>6, <3>1, <3>2
    <3>5. a = b BY <2>8, <3>3, <3>4
    <3> QED BY <2>4, <3>1, <3>2, <3>5
  <2>10. ASSUME NEW d, Holds(r, d) PROVE Holds(q, d) /\ d # c
    <3>1. PICK j \in 1 .. (n - 1) : r[j] = d BY <2>7, <2>10 DEF Holds
    <3>2. PICK a : a = IF j < i THEN j ELSE j + 1 OBVIOUS
    <3>3. a \in 1 .. n /\ a # i BY <2>3, <2>4, <3>2
    <3>4. q[a] = d BY <2>6, <3>1, <3>2
    <3>5. d # c BY <2>4, <2>8, <3>3, <3>4
    <3> QED BY <2>3, <3>3, <3>4, <3>5 DEF Holds
  <2>11. ASSUME NEW d, Holds(q, d), d # c PROVE Holds(r, d)
    <3>1. PICK a \in 1 .. n : q[a] = d BY <2>3, <2>11 DEF Holds
    <3>2. a # i BY <2>4, <2>11, <3>1
    <3>3. PICK j : j = IF a < i THEN a ELSE a - 1 OBVIOUS
    <3>4. j \in 1 .. (n - 1) /\ a = (IF j < i THEN j ELSE j + 1) BY <2>3, <2>4, <3>2, <3>3
    <3>5. r[j] = q[a] BY <2>6, <3>4
    <3> QED BY <2>7, <3>1, <3>4, <3>5 DEF Holds
  <2>12. ASSUME NEW d, d # c, Head(q) = d, Holds(q, d) PROVE Head(r) = d
    <3>1. PICK a \in 1 .. n : q[a] = d BY <2>3, <2>12 DEF Holds
    <3>2. q # <<>> BY <2>2, <2>3, <3>1, EmptySeq
    <3>3. q[1] = d BY <2>12, <3>2, HeadTailProperties
    <3>4. i # 1 /\ i > 1 /\ 1 \in 1 .. (n - 1) BY <2>3, <2>4, <2>12, <3>3
    <3>5. r[1] = q[1] BY <2>6, <3>4
    <3>6. r # <<>> BY <2>3, <2>6, <3>4, EmptySeq
    <3> QED BY <2>6, <3>3, <3>5, <3>6, HeadTailProperties
  <2> QED BY <2>6, <2>9, <2>10, <2>11, <2>12
<1> QED BY <1>1, <1>2

\* Who joins a queue comes after the others.
LEMMA QueueJoined ==
  ASSUME NEW q \in Seq(Checks), Distinct(q), NEW c \in Checks, ~Holds(q, c), NEW r, r = Append(q, c)
  PROVE  /\ r \in Seq(Checks) /\ Distinct(r) /\ \A d : Holds(r, d) <=> Holds(q, d) \/ d = c
         /\ \A d : Head(q) = d /\ Holds(q, d) => Head(r) = d
<1>1. PICK n : n = Len(q) OBVIOUS
<1>2. n \in Nat /\ DOMAIN q = 1 .. n BY <1>1, LenProperties
<1>3. r \in Seq(Checks) /\ Len(r) = n + 1 /\ (\A i \in 1 .. n : r[i] = q[i]) /\ r[n + 1] = c BY <1>1, AppendProperties
<1>4. DOMAIN r = 1 .. n + 1 BY <1>2, <1>3, LenProperties
<1>5. \A i \in 1 .. n + 1 : i \in 1 .. n \/ i = n + 1 BY <1>2
<1>6. \A i \in 1 .. n : q[i] # c /\ i \in 1 .. n + 1 BY <1>2 DEF Holds
<1>7. \A j, k \in 1 .. n : q[j] = q[k] => j = k BY <1>2 DEF Distinct
<1>8. Distinct(r)
  <2> SUFFICES ASSUME NEW j \in 1 .. n + 1, NEW k \in 1 .. n + 1, r[j] = r[k] PROVE j = k BY <1>4 DEF Distinct
  <2>1. CASE j \in 1 .. n /\ k \in 1 .. n BY <1>3, <1>7, <2>1
  <2>2. CASE j \in 1 .. n /\ k = n + 1 BY <1>3, <1>6, <2>2
  <2>3. CASE j = n + 1 /\ k \in 1 .. n BY <1>3, <1>6, <2>3
  <2> QED BY <1>5, <2>1, <2>2, <2>3
<1>9. \A d : Holds(r, d) <=> Holds(q, d) \/ d = c
  <2>1. n + 1 \in 1 .. n + 1 BY <1>2
  <2> QED BY <1>2, <1>3, <1>4, <1>5, <1>6, <2>1 DEF Holds
<1>10. ASSUME NEW d, Head(q) = d, Holds(q, d) PROVE Head(r) = d
  <2>1. PICK a \in 1 .. n : q[a] = d BY <1>2, <1>10 DEF Holds
  <2>2. q # <<>> /\ 1 \in 1 .. n BY <1>1, <1>2, <2>1, EmptySeq
  <2>3. q[1] = d BY <1>10, <2>2, HeadTailProperties
  <2>4. r # <<>> BY <1>2, <1>3, EmptySeq
  <2> QED BY <1>3, <2>2, <2>3, <2>4, HeadTailProperties
<1> QED BY <1>3, <1>8, <1>9, <1>10

\* One execution is set.
LEMMA ExecutionSet ==
  ASSUME ConsolesTyped, NEW c \in Checks, NEW x \in Executions, check' = [check EXCEPT ![c] = x]
  PROVE  check' \in [Checks -> Executions] /\ check'[c] = x /\ \A d \in Checks \ {c} : check'[d] = check[d]
BY DEF ConsolesTyped

\* An execution goes on where it queues, or where it does not.
LEMMA StaysQueued ==
  ASSUME ConsolesInv, NEW c \in Checks, NEW x \in Executions, check' = [check EXCEPT ![c] = x], Consistent(c, x),
         UNCHANGED <<up, locks>>, Queues(x) <=> Queues(check[c]), Queues(x) => x.node = check[c].node,
         check[c].pc \in {"ask", "close"} => x.pc \in {"ask", "close"},
         \/ client' = client
         \/ /\ client' = [client EXCEPT ![x.node] = c] /\ x.pc = "ask" /\ Queues(x)
            /\ Locking(c) => Head(locks[x.node]) = c
  PROVE  ConsolesInv'
<1>1. /\ check' \in [Checks -> Executions] /\ check'[c] = x /\ \A d \in Checks \ {c} : check'[d] = check[d]
  BY ExecutionSet DEF ConsolesInv
<1>2. ConsolesTyped' BY <1>1 DEF ConsolesInv, ConsolesTyped
<1>3. \A d \in Checks : Consistent(d, check'[d]) BY <1>1 DEF ConsolesInv
<1>4. ASSUME NEW n \in Nodes PROVE QueuesOf(locks'[n], n, check')
  <2>1. QueuesOf(locks[n], n, check) BY DEF ConsolesInv
  <2>2. \A d \in Checks : Queues(check'[d]) /\ check'[d].node = n <=> Queues(check[d]) /\ check[d].node = n
    BY <1>1 DEF Queues
  <2> QED BY <2>1, <2>2 DEF QueuesOf
<1>5. ASSUME NEW n \in Nodes PROVE Served(n, client'[n], locks'[n], check')
  <2>1. Served(n, client[n], locks[n], check) /\ client \in [Nodes -> Checks \cup {None, "closing"}]
    BY DEF ConsolesInv, ConsolesTyped
  <2>2. CASE client'[n] = client[n]
    <3>1. CASE client[n] = c BY <1>1, <2>1, <2>2, <3>1 DEF Served, Queues
    <3>2. CASE client[n] # c BY <1>1, <2>1, <2>2, <3>2 DEF Served
    <3> QED BY <3>1, <3>2
  <2>3. CASE client'[n] # client[n]
    <3>1. n = x.node /\ client'[n] = c /\ x.pc = "ask" /\ (Locking(c) => Head(locks[n]) = c) BY <2>1, <2>3
    <3> QED BY <1>1, <3>1 DEF Served
  <2> QED BY <2>2, <2>3
<1> QED BY <1>2, <1>3, <1>4, <1>5 DEF ConsolesInv

\* An execution leaves its console.
LEMMA LeavesConsole ==
  ASSUME ConsolesInv, NEW c \in Checks, NEW x \in Executions, check' = [check EXCEPT ![c] = x], Consistent(c, x),
         up' = up, client' = HungUp(c), locks' = Released(c), ~Queues(x)
  PROVE  ConsolesInv'
<1>0. ConsolesTyped BY DEF ConsolesInv
<1>1. /\ check' \in [Checks -> Executions] /\ check'[c] = x /\ \A d \in Checks \ {c} : check'[d] = check[d]
  BY <1>0, ExecutionSet
<1>2. ASSUME NEW n \in Nodes
      PROVE /\ locks'[n] \in Seq(Checks) /\ client'[n] \in Checks \cup {None, "closing"} /\ QueuesOf(locks'[n], n, check')
            /\ Served(n, client'[n], locks'[n], check')
  <2>1. PICK q, r : q = locks[n] /\ r = locks'[n] OBVIOUS
  <2>2. QueuesOf(q, n, check) /\ Served(n, client[n], q, check) BY <2>1 DEF ConsolesInv
  <2>3. r = LeftBy(q, c) BY <2>1 DEF Released
  <2>4. q \in Seq(Checks) /\ Distinct(q) BY <1>0, <2>1, <2>2 DEF ConsolesTyped, QueuesOf, Distinct
  <2>5. /\ r \in Seq(Checks) /\ Distinct(r) /\ \A d : Holds(r, d) <=> Holds(q, d) /\ d # c
        /\ \A d : d # c /\ Head(q) = d /\ Holds(q, d) => Head(r) = d
    BY <2>3, <2>4, QueueLeft
  <2>6. \A d \in Checks : Holds(r, d) <=> Locking(d) /\ Queues(check'[d]) /\ check'[d].node = n
    <3> TAKE d \in Checks
    <3>1. CASE d = c BY <1>1, <2>5, <3>1
    <3>2. CASE d # c BY <1>1, <2>2, <2>5, <3>2 DEF QueuesOf
    <3> QED BY <3>1, <3>2
  <2>7. QueuesOf(r, n, check') BY <2>5, <2>6 DEF QueuesOf, Distinct
  <2>8. client'[n] = IF client[n] = c THEN "closing" ELSE client[n] BY DEF HungUp, Hangup
  <2>9. client[n] \in Checks \cup {None, "closing"} BY <1>0 DEF ConsolesTyped
  <2>10. Served(n, client'[n], r, check')
    <3>1. CASE client[n] = c BY <2>8, <3>1, CheckAssumption DEF Served
    <3>2. CASE client[n] # c
      <4> SUFFICES ASSUME client[n] \in Checks
                   PROVE  /\ check'[client[n]].pc \in {"ask", "close"} /\ check'[client[n]].node = n
                          /\ Locking(client[n]) => Head(r) = client[n]
        BY <2>8, <3>2 DEF Served
      <4>1. PICK d : d = client[n] OBVIOUS
      <4>2. /\ d \in Checks /\ d # c /\ check[d].pc \in {"ask", "close"} /\ check[d].node = n /\ (Locking(d) => Head(q) = d)
            /\ check'[d] = check[d]
        BY <1>1, <2>2, <3>2, <4>1 DEF Served
      <4>3. Locking(d) => Holds(q, d) BY <2>2, <4>2 DEF QueuesOf, Queues
      <4>4. Locking(d) => Head(r) = d BY <2>5, <4>2, <4>3
      <4> QED BY <4>1, <4>2, <4>4
    <3> QED BY <3>1, <3>2
  <2> QED BY <2>1, <2>5, <2>7, <2>8, <2>9, <2>10
<1>3. ConsolesTyped'
  <2>1. locks' = [n \in Nodes |-> LeftBy(locks[n], c)] BY DEF Released
  <2>2. client' = [n \in Nodes |-> IF client[n] = c THEN "closing" ELSE client[n]] BY DEF HungUp, Hangup
  <2>3. locks' \in [Nodes -> Seq(Checks)] BY <1>2, <2>1
  <2>4. client' \in [Nodes -> Checks \cup {None, "closing"}] BY <1>2, <2>2
  <2> QED BY <1>0, <1>1, <2>3, <2>4 DEF ConsolesTyped
<1>4. \A d \in Checks : Consistent(d, check'[d]) BY <1>1 DEF ConsolesInv
<1> QED BY <1>2, <1>3, <1>4 DEF ConsolesInv

\* An execution comes to a console.
LEMMA Approaches ==
  ASSUME ConsolesInv, NEW c \in Checks, NEW m \in Nodes, NEW asks \in {"show_ip", "ping", "cisco", "save"},
         Approach(c, m, asks), UNCHANGED <<up, client>>, ~Queues(check[c])
  PROVE  ConsolesInv'
<1>0. ConsolesTyped BY DEF ConsolesInv
<1>1. PICK o : o = check[c] OBVIOUS
<1>2. PICK x : x = [o EXCEPT !.pc = "connect", !.node = m, !.asks = asks, !.connects = 0, !.answer = None] OBVIOUS
<1>3. o \in Executions BY <1>0, <1>1 DEF ConsolesTyped
<1>4. x \in Executions /\ x.pc = "connect" /\ x.node = m /\ x.connects = 0 /\ x.answer = None
  <2>1. x = [pc |-> "connect", node |-> m, asks |-> asks, connects |-> 0, reads |-> o.reads, answer |-> None, ok |-> o.ok,
             observed |-> o.observed]
    BY <1>2, <1>3 DEF Executions
  <2>2. 0 \in 0 .. ConnectAttempts BY CheckAssumption
  <2>3. o.reads \in 0 .. (ReadAttempts - 1) /\ o.ok \in BOOLEAN /\ o.observed \in BOOLEAN BY <1>3 DEF Executions
  <2> QED BY <2>1, <2>2, <2>3 DEF Executions
<1>5. check' = [check EXCEPT ![c] = x] BY <1>0, <1>1, <1>2 DEF Approach, ConsolesTyped, Executions
<1>6. /\ check' \in [Checks -> Executions] /\ check'[c] = x /\ \A d \in Checks \ {c} : check'[d] = check[d]
  BY <1>0, <1>4, <1>5, ExecutionSet
<1>7. Consistent(c, x)
  <2>1. Tries(c) > 0 BY CheckAssumption DEF Tries
  <2> QED BY <1>4, <2>1 DEF Consistent
<1>8. locks' = IF Locking(c) THEN [locks EXCEPT ![m] = Append(locks[m], c)] ELSE locks BY DEF Approach
<1>9. Queues(x) BY <1>4 DEF Queues
<1>10. ASSUME NEW n \in Nodes
      PROVE /\ locks'[n] \in Seq(Checks) /\ QueuesOf(locks'[n], n, check') /\ Served(n, client'[n], locks'[n], check')
  <2>1. PICK q, r : q = locks[n] /\ r = locks'[n] OBVIOUS
  <2>2. QueuesOf(q, n, check) /\ Served(n, client[n], q, check) BY <2>1 DEF ConsolesInv
  <2>3. q \in Seq(Checks) /\ Distinct(q) BY <1>0, <2>1, <2>2 DEF ConsolesTyped, QueuesOf, Distinct
  <2>4. ~Holds(q, c) BY <2>2 DEF QueuesOf
  <2>5. /\ r \in Seq(Checks) /\ Distinct(r) /\ \A d \in Checks : Holds(r, d) <=> Holds(q, d) \/ (d = c /\ Locking(c) /\ m = n)
        /\ \A d : Head(q) = d /\ Holds(q, d) => Head(r) = d
    <3>1. CASE Locking(c) /\ m = n
      <4>1. r = Append(q, c) BY <1>0, <1>8, <2>1, <3>1 DEF ConsolesTyped
      <4> QED BY <2>3, <2>4, <3>1, <4>1, QueueJoined
    <3>2. CASE ~(Locking(c) /\ m = n)
      <4>1. r = q BY <1>0, <1>8, <2>1, <3>2 DEF ConsolesTyped
      <4> QED BY <2>3, <3>2, <4>1
    <3> QED BY <3>1, <3>2
  <2>6. \A d \in Checks : Holds(r, d) <=> Locking(d) /\ Queues(check'[d]) /\ check'[d].node = n
    <3> TAKE d \in Checks
    <3>1. CASE d = c BY <1>4, <1>6, <1>9, <2>4, <2>5, <3>1
    <3>2. CASE d # c BY <1>6, <2>2, <2>5, <3>2 DEF QueuesOf
    <3> QED BY <3>1, <3>2
  <2>7. QueuesOf(r, n, check') BY <2>5, <2>6 DEF QueuesOf, Distinct
  <2>8. Served(n, client[n], r, check')
    <3> SUFFICES ASSUME client[n] \in Checks
                 PROVE  /\ check'[client[n]].pc \in {"ask", "close"} /\ check'[client[n]].node = n
                        /\ Locking(client[n]) => Head(r) = client[n]
      BY DEF Served
    <3>1. PICK d : d = client[n] OBVIOUS
    <3>2. /\ d \in Checks /\ check[d].pc \in {"ask", "close"} /\ check[d].node = n /\ (Locking(d) => Head(q) = d)
      BY <2>2, <3>1 DEF Served
    <3>3. d # c /\ check'[d] = check[d] BY <1>6, <3>2 DEF Queues
    <3>4. Locking(d) => Holds(q, d) BY <2>2, <3>2 DEF QueuesOf, Queues
    <3>5. Locking(d) => Head(r) = d BY <2>5, <3>2, <3>4
    <3> QED BY <3>1, <3>2, <3>3, <3>5
  <2> QED BY <2>1, <2>5, <2>7, <2>8
<1>11. ConsolesTyped'
  <2>1. locks' = [n \in Nodes |-> locks'[n]] BY <1>0, <1>8 DEF ConsolesTyped
  <2>2. locks' \in [Nodes -> Seq(Checks)] BY <1>10, <2>1
  <2> QED BY <1>0, <1>6, <2>2 DEF ConsolesTyped
<1>12. \A d \in Checks : Consistent(d, check'[d]) BY <1>6, <1>7 DEF ConsolesInv
<1> QED BY <1>10, <1>11, <1>12 DEF ConsolesInv

\* An execution at a place.
LEMMA ExecutionAt ==
  ASSUME ConsolesInv, NEW c \in Checks
  PROVE  check[c] \in Executions /\ Consistent(c, check[c])
BY DEF ConsolesInv, ConsolesTyped

\* An execution that goes on with what it remembers.
LEMMA ExecutionGoes ==
  ASSUME NEW o \in Executions, NEW x, NEW p \in {"idle", "connect", "ask", "close", "again", "ping", "done", "rejected", "cut"},
         x = [o EXCEPT !.pc = p]
  PROVE  /\ x \in Executions /\ x.pc = p /\ x.node = o.node /\ x.asks = o.asks /\ x.connects = o.connects
         /\ x.reads = o.reads /\ x.answer = o.answer /\ x.ok = o.ok /\ x.observed = o.observed
BY DEF Executions

\* A check begins.
LEMMA BeginPart == ASSUME ConsolesInv, NEW c \in Checks, Begin(c) PROVE ConsolesInv'
<1>1. PICK o : o = check[c] OBVIOUS
<1>2. o \in Executions /\ Consistent(c, o) /\ o.pc = "idle" /\ ~Queues(o) BY <1>1, ExecutionAt DEF Begin, CheckAt, Queues
<1>3. UNCHANGED <<up, client>> BY DEF Begin
<1>4. Target[c] \in Nodes /\ Source[c] \in Nodes /\ Kind[c] \in CheckKinds BY CheckAssumption
<1>5. CASE Kind[c] = "ping_node" /\ Approach(c, Target[c], "show_ip") BY <1>1, <1>2, <1>3, <1>4, <1>5, Approaches
<1>6. CASE Kind[c] # "ping_node" /\ Approach(c, Source[c], Kind[c])
  <2>1. Kind[c] \in {"show_ip", "ping", "cisco", "save"} BY <1>4, <1>6 DEF CheckKinds
  <2> QED BY <1>1, <1>2, <1>3, <1>4, <1>6, <2>1, Approaches
<1>7. CASE CheckTo(c, "rejected") /\ UNCHANGED locks
  <2>1. PICK x : x = [o EXCEPT !.pc = "rejected"] OBVIOUS
  <2>2. x \in Executions /\ x.pc = "rejected" BY <1>2, <2>1, ExecutionGoes
  <2>3. check' = [check EXCEPT ![c] = x] BY <1>1, <1>2, <1>7, <2>1 DEF CheckTo, Executions
  <2>4. Consistent(c, x) /\ ~Queues(x) BY <2>2 DEF Consistent, Queues, Goes
  <2> QED BY <1>1, <1>2, <1>3, <1>7, <2>2, <2>3, <2>4, StaysQueued
<1> QED BY <1>5, <1>6, <1>7 DEF Begin

\* A check connects, or is refused.
LEMMA ConnectPart == ASSUME ConsolesInv, NEW c \in Checks, Connect(c) PROVE ConsolesInv'
<1>1. PICK o, n : o = check[c] /\ n = check[c].node OBVIOUS
<1>2. o \in Executions /\ Consistent(c, o) /\ o.pc = "connect" /\ Queues(o) /\ o.node = n /\ n \in Nodes
  BY <1>1, ExecutionAt DEF Connect, CheckAt, Queues, Consistent, Goes
<1>3. UNCHANGED <<up, locks>> /\ (Locking(c) => Head(locks[n]) = c) BY <1>1 DEF Connect, Turn, MyTurn, Node
<1>4. o.answer = None /\ o.connects < Tries(c) /\ o.connects \in 0 .. ConnectAttempts BY <1>2 DEF Consistent, Executions
<1>5. CASE client[n] = None /\ n \in up
  <2>1. PICK x : x = [o EXCEPT !.pc = "ask"] OBVIOUS
  <2>2. x \in Executions /\ x.pc = "ask" /\ x.node = n /\ x.connects = o.connects BY <1>2, <2>1, ExecutionGoes
  <2>3. check' = [check EXCEPT ![c] = x] /\ client' = [client EXCEPT ![n] = c]
    BY <1>1, <1>2, <1>5, <2>1 DEF Connect, CheckTo, Node, Executions
  <2>4. Consistent(c, x) /\ Queues(x) BY <1>2, <1>4, <2>2 DEF Consistent, Queues, Goes
  <2> QED BY <1>1, <1>2, <1>3, <2>2, <2>3, <2>4, StaysQueued
<1>6. CASE ~(client[n] = None /\ n \in up)
  <2>1. PICK p : p = IF o.connects + 1 = Tries(c) THEN "close" ELSE "connect" OBVIOUS
  <2>2. PICK x : x = [o EXCEPT !.connects = o.connects + 1, !.pc = p] OBVIOUS
  <2>3. p \in {"close", "connect"} BY <2>1
  <2>4. Tries(c) \in Nat /\ Tries(c) <= ConnectAttempts /\ ConnectAttempts \in Nat BY CheckAssumption DEF Tries
  <2>5. o.connects + 1 \in 0 .. ConnectAttempts /\ (p = "connect" => o.connects + 1 < Tries(c)) BY <1>4, <2>1, <2>4
  <2>6. x = [pc |-> p, node |-> o.node, asks |-> o.asks, connects |-> o.connects + 1, reads |-> o.reads, answer |-> o.answer,
             ok |-> o.ok, observed |-> o.observed]
    BY <1>2, <2>2 DEF Executions
  <2>7. x \in Executions
    <3>1. /\ o.node \in Nodes \cup {None} /\ o.asks \in {"none", "show_ip", "ping", "cisco", "save"}
          /\ o.reads \in 0 .. (ReadAttempts - 1) /\ o.answer \in {None, "good", "bad"} /\ o.ok \in BOOLEAN /\ o.observed \in BOOLEAN
      BY <1>2 DEF Executions
    <3> QED BY <2>3, <2>5, <2>6, <3>1 DEF Executions
  <2>8. x.pc = p /\ x.node = n /\ x.connects = o.connects + 1 /\ x.answer = None BY <1>2, <1>4, <2>6
  <2>9. check' = [check EXCEPT ![c] = x] /\ client' = client
    <3>1. /\ check' = [check EXCEPT ![c].connects = check[c].connects + 1,
                                    ![c].pc = IF check[c].connects + 1 = Tries(c) THEN "close" ELSE check[c].pc]
          /\ client' = client
      BY <1>1, <1>2, <1>6 DEF Connect, Node, Executions
    <3>2. check' = [check EXCEPT ![c] = [o EXCEPT !.connects = o.connects + 1, !.pc = p]]
      BY <1>1, <1>2, <2>1, <3>1 DEF Executions
    <3> QED BY <2>2, <3>1, <3>2
  <2>10. Consistent(c, x) /\ Queues(x) BY <1>2, <2>3, <2>5, <2>8 DEF Consistent, Queues, Goes
  <2> QED BY <1>1, <1>2, <1>3, <2>3, <2>7, <2>8, <2>9, <2>10, StaysQueued
<1> QED BY <1>5, <1>6

\* A check asks.
LEMMA AskPart == ASSUME ConsolesInv, NEW c \in Checks, Ask(c) PROVE ConsolesInv'
<1>1. PICK o : o = check[c] OBVIOUS
<1>2. o \in Executions /\ Consistent(c, o) /\ o.pc = "ask" /\ Queues(o) BY <1>1, ExecutionAt DEF Ask, CheckAt, Queues
<1>3. PICK a \in {None, "good", "bad"} : check' = [check EXCEPT ![c].pc = "close", ![c].answer = a] BY DEF Ask
<1>4. PICK x : x = [o EXCEPT !.pc = "close", !.answer = a] OBVIOUS
<1>5. x \in Executions /\ x.pc = "close" /\ x.node = o.node BY <1>2, <1>4 DEF Executions
<1>6. check' = [check EXCEPT ![c] = x] BY <1>1, <1>2, <1>3, <1>4 DEF Executions
<1>7. Consistent(c, x) /\ Queues(x) BY <1>2, <1>5 DEF Consistent, Queues, Goes
<1>8. UNCHANGED <<up, locks, client>> BY DEF Ask
<1> QED BY <1>1, <1>2, <1>5, <1>6, <1>7, <1>8, StaysQueued

\* A check leaves its console.
LEMMA LeavePart == ASSUME ConsolesInv, NEW c \in Checks, Leave(c) PROVE ConsolesInv'
<1>1. PICK o : o = check[c] OBVIOUS
<1>2. o \in Executions /\ Consistent(c, o) /\ o.pc = "close" BY <1>1, ExecutionAt DEF Leave, CheckAt
<1>3. up' = up /\ client' = HungUp(c) /\ locks' = Released(c) BY DEF Leave
<1>4. PICK x : x \in Executions /\ check' = [check EXCEPT ![c] = x] /\ Consistent(c, x) /\ ~Queues(x)
  <2>1. o.node \in Nodes /\ ReadAttempts \in Nat /\ o.reads \in 0 .. (ReadAttempts - 1)
    BY <1>2, CheckAssumption DEF Consistent, Goes, Executions
  <2>2. CASE Silent(c) /\ Asks(c, "show_ip") /\ check[c].reads + 1 < ReadAttempts
             /\ check' = [check EXCEPT ![c].pc = "again", ![c].reads = @ + 1]
    <3>1. PICK x : x = [o EXCEPT !.pc = "again", !.reads = o.reads + 1] OBVIOUS
    <3>2. o.reads + 1 \in 0 .. (ReadAttempts - 1) BY <1>1, <2>1, <2>2
    <3>3. x \in Executions /\ x.pc = "again" /\ x.node = o.node BY <1>2, <3>1, <3>2 DEF Executions
    <3>4. check' = [check EXCEPT ![c] = x] BY <1>1, <1>2, <2>2, <3>1 DEF Executions
    <3>5. Consistent(c, x) /\ ~Queues(x) BY <2>1, <3>3 DEF Consistent, Queues, Goes
    <3> QED BY <3>3, <3>4, <3>5
  <2>3. ASSUME NEW k \in BOOLEAN, NEW b \in BOOLEAN, Conclude(c, k, b),
               o.asks = "show_ip" => (b <=> o.answer # None) /\ (~b => o.reads = ReadAttempts - 1)
        PROVE  \E y : y \in Executions /\ check' = [check EXCEPT ![c] = y] /\ Consistent(c, y) /\ ~Queues(y)
    <3>1. PICK x : x = [o EXCEPT !.pc = "done", !.ok = k, !.observed = b] OBVIOUS
    <3>2. /\ x \in Executions /\ x.pc = "done" /\ x.asks = o.asks /\ x.observed = b /\ x.answer = o.answer
          /\ x.reads = o.reads
      BY <1>2, <3>1 DEF Executions
    <3>3. check' = [check EXCEPT ![c] = x] BY <1>1, <1>2, <2>3, <3>1 DEF Conclude, Executions
    <3>4. Consistent(c, x) /\ ~Queues(x) BY <2>3, <3>2 DEF Consistent, Queues, Goes
    <3> QED BY <3>2, <3>3, <3>4
  <2>4. CASE Silent(c) /\ Asks(c, "show_ip") /\ check[c].reads + 1 = ReadAttempts /\ Conclude(c, FALSE, FALSE)
    <3>1. o.answer = None /\ o.reads = ReadAttempts - 1 BY <1>1, <2>1, <2>4 DEF Silent
    <3> QED BY <2>3, <2>4, <3>1
  <2>5. CASE Silent(c) /\ ~Asks(c, "show_ip") /\ Conclude(c, FALSE, Asks(c, "ping") => check[c].connects = Tries(c))
    <3>1. o.asks # "show_ip" BY <1>1, <2>5 DEF Asks
    <3>2. (Asks(c, "ping") => check[c].connects = Tries(c)) \in BOOLEAN OBVIOUS
    <3> QED BY <2>3, <2>5, <3>1, <3>2
  <2>6. CASE ~Silent(c) /\ Kind[c] = "ping_node" /\ Asks(c, "show_ip") /\ CheckTo(c, "ping")
    <3>1. PICK x : x = [o EXCEPT !.pc = "ping"] OBVIOUS
    <3>2. x \in Executions /\ x.pc = "ping" /\ x.node = o.node BY <1>2, <3>1, ExecutionGoes
    <3>3. check' = [check EXCEPT ![c] = x] BY <1>1, <1>2, <2>6, <3>1 DEF CheckTo, Executions
    <3>4. Consistent(c, x) /\ ~Queues(x) BY <2>1, <3>2 DEF Consistent, Queues, Goes
    <3> QED BY <3>2, <3>3, <3>4
  <2>7. CASE ~Silent(c) /\ ~(Kind[c] = "ping_node" /\ Asks(c, "show_ip")) /\ Conclude(c, check[c].answer = "good", TRUE)
    <3>1. o.answer # None BY <1>1, <2>7 DEF Silent
    <3>2. (check[c].answer = "good") \in BOOLEAN OBVIOUS
    <3> QED BY <2>3, <2>7, <3>1, <3>2
  <2> QED BY <2>2, <2>4, <2>5, <2>6, <2>7 DEF Leave
<1> QED BY <1>3, <1>4, LeavesConsole

\* A check reads again, or pings.
LEMMA GoOnPart == ASSUME ConsolesInv, NEW c \in Checks, GoOn(c) PROVE ConsolesInv'
<1>1. check[c] \in Executions /\ Consistent(c, check[c]) BY ExecutionAt
<1>2. UNCHANGED <<up, client>> BY DEF GoOn
<1>3. CASE CheckAt(c, "again") /\ Approach(c, Node(c), "show_ip")
  <2>1. ~Queues(check[c]) /\ Node(c) \in Nodes BY <1>1, <1>3 DEF CheckAt, Queues, Consistent, Goes, Node
  <2>2. PICK m \in Nodes : m = Node(c) BY <2>1
  <2>3. Approach(c, m, "show_ip") BY <1>3, <2>2
  <2> QED BY <1>2, <2>1, <2>3, Approaches
<1>4. CASE CheckAt(c, "ping") /\ Approach(c, Source[c], "ping")
  <2>1. ~Queues(check[c]) /\ Source[c] \in Nodes BY <1>4, CheckAssumption DEF CheckAt, Queues
  <2> QED BY <1>2, <1>4, <2>1, Approaches
<1> QED BY <1>3, <1>4 DEF GoOn

\* A check is cut off.
LEMMA CutCheckPart == ASSUME ConsolesInv, NEW c \in Checks, CutCheck(c) PROVE ConsolesInv'
<1>1. PICK o : o = check[c] OBVIOUS
<1>2. o \in Executions BY <1>1, ExecutionAt
<1>3. PICK x : x = [o EXCEPT !.pc = "cut"] OBVIOUS
<1>4. x \in Executions /\ x.pc = "cut" BY <1>2, <1>3, ExecutionGoes
<1>5. check' = [check EXCEPT ![c] = x] BY <1>1, <1>2, <1>3 DEF CutCheck, CheckTo, Executions
<1>6. Consistent(c, x) /\ ~Queues(x) BY <1>4 DEF Consistent, Queues, Goes
<1>7. up' = up /\ client' = HungUp(c) /\ locks' = Released(c) BY DEF CutCheck
<1> QED BY <1>4, <1>5, <1>6, <1>7, LeavesConsole

\* GNS3 notices, or a node is switched.
LEMMA NoticePart == ASSUME ConsolesInv, NEW n \in Nodes, Notice(n) \/ SwitchNode(n) PROVE ConsolesInv'
<1>1. UNCHANGED <<locks, check>> /\ up' \subseteq Nodes BY DEF Notice, SwitchNode, ConsolesInv, ConsolesTyped
<1>2. \A m \in Nodes : client'[m] \in {client[m], None} BY DEF Notice, SwitchNode, ConsolesInv, ConsolesTyped
<1>3. client' \in [Nodes -> Checks \cup {None, "closing"}] BY DEF Notice, SwitchNode, ConsolesInv, ConsolesTyped
<1>4. ConsolesTyped' BY <1>1, <1>3 DEF ConsolesInv, ConsolesTyped
<1>5. \A c \in Checks : Consistent(c, check'[c]) BY <1>1 DEF ConsolesInv
<1>6. ASSUME NEW m \in Nodes PROVE QueuesOf(locks'[m], m, check') /\ Served(m, client'[m], locks'[m], check')
  <2>1. QueuesOf(locks[m], m, check) /\ Served(m, client[m], locks[m], check) BY DEF ConsolesInv
  <2>2. Served(m, None, locks[m], check) BY CheckAssumption DEF Served
  <2> QED BY <1>1, <1>2, <2>1, <2>2
<1> QED BY <1>4, <1>5, <1>6 DEF ConsolesInv

\* The invariant holds at first.
LEMMA ConsolesBegin == ASSUME ConsoleInit PROVE ConsolesInv
<1>1. Unchecked \in Executions BY CheckAssumption DEF Unchecked, Executions
<1>2. <<>> \in Seq(Checks) /\ DOMAIN <<>> = {} BY EmptySeq
<1>3. ConsolesTyped BY <1>1, <1>2 DEF ConsoleInit, ConsolesTyped
<1>4. \A c \in Checks : Consistent(c, check[c]) BY DEF ConsoleInit, Consistent, Unchecked, Goes
<1>5. \A n \in Nodes : QueuesOf(locks[n], n, check) BY <1>2 DEF ConsoleInit, QueuesOf, Holds, Unchecked, Queues
<1>6. \A n \in Nodes : Served(n, client[n], locks[n], check) BY CheckAssumption DEF ConsoleInit, Served
<1> QED BY <1>3, <1>4, <1>5, <1>6 DEF ConsolesInv

\* Every step keeps the invariant.
LEMMA ConsolesGoOn == ASSUME ConsolesInv, [ConsoleNext]_consoleVars PROVE ConsolesInv'
<1>1. CASE UNCHANGED consoleVars
  <2>1. UNCHANGED <<up, locks, client, check>> BY <1>1 DEF consoleVars
  <2> QED BY <2>1 DEF ConsolesInv, ConsolesTyped, Consistent, QueuesOf, Served
<1>2. ASSUME NEW c \in Checks, Begin(c) \/ Connect(c) \/ Ask(c) \/ Leave(c) \/ GoOn(c) \/ CutCheck(c) PROVE ConsolesInv'
  BY <1>2, BeginPart, ConnectPart, AskPart, LeavePart, GoOnPart, CutCheckPart
<1>3. ASSUME NEW n \in Nodes, Notice(n) \/ SwitchNode(n) PROVE ConsolesInv' BY <1>3, NoticePart
<1> QED BY <1>1, <1>2, <1>3 DEF ConsoleNext

\* The invariant is about who is connected.
LEMMA ConsolesShown == ASSUME ConsolesInv PROVE ConsolesShared
<1>1. \A c \in Checks : check[c] \in Executions /\ Consistent(c, check[c]) BY ExecutionAt
<1>2. ConsoleTypeOK
  <2>1. \A c \in Checks : check[c].connects \in 0 .. ConnectAttempts /\ check[c].reads < ReadAttempts
    BY <1>1, CheckAssumption DEF Executions
  <2>2. \A c \in Checks : check[c].node \in Nodes \cup {None} /\ check[c].answer \in {None, "good", "bad"}
    BY <1>1 DEF Executions
  <2> QED BY <2>1, <2>2 DEF ConsolesInv, ConsolesTyped, ConsoleTypeOK
<1>3. ASSUME NEW n \in Nodes
      PROVE /\ client[n] \in Checks => Running(client[n]) /\ Node(client[n]) = n
            /\ IsInjective(locks[n])
            /\ \A c \in Range(locks[n]) : Running(c) /\ Node(c) = n
  <2>1. QueuesOf(locks[n], n, check) /\ Served(n, client[n], locks[n], check) /\ locks[n] \in Seq(Checks)
    BY DEF ConsolesInv, ConsolesTyped
  <2>2. client[n] \in Checks => Running(client[n]) /\ Node(client[n]) = n BY <2>1 DEF Served, Running, Node
  <2>3. IsInjective(locks[n]) BY <2>1 DEF QueuesOf, IsInjective
  <2>4. ASSUME NEW c \in Range(locks[n]) PROVE Running(c) /\ Node(c) = n
    <3>1. PICK i \in DOMAIN locks[n] : locks[n][i] = c BY DEF Range
    <3>2. c \in Checks BY <2>1, <3>1, ElementOfSeq, LenProperties
    <3> QED BY <2>1, <3>1, <3>2 DEF QueuesOf, Holds, Queues, Running, Node
  <2> QED BY <2>2, <2>3, <2>4
<1>4. ASSUME NEW c \in Checks, CheckAt(c, "connect"), Locking(c), Turn(c)
      PROVE client[Node(c)] \notin {d \in Checks : Locking(d)}
  <2>1. Node(c) \in Nodes /\ Head(locks[Node(c)]) = c BY <1>1, <1>4 DEF CheckAt, Turn, MyTurn, Consistent, Goes, Node
  <2> SUFFICES ASSUME client[Node(c)] \in Checks, Locking(client[Node(c)]) PROVE FALSE OBVIOUS
  <2>2. Served(Node(c), client[Node(c)], locks[Node(c)], check) BY <2>1 DEF ConsolesInv
  <2>3. client[Node(c)] = c BY <2>1, <2>2 DEF Served
  <2> QED BY <1>4, <2>2, <2>3 DEF Served, CheckAt
<1>5. ASSUME NEW c \in Checks, CheckAt(c, "done"), Asks(c, "show_ip")
      PROVE  /\ check[c].observed <=> ~Silent(c)
             /\ ~check[c].observed => check[c].reads = ReadAttempts - 1
  BY <1>1, <1>5 DEF Consistent, CheckAt, Asks, Silent
<1> QED BY <1>2, <1>3, <1>4, <1>5 DEF ConsolesShared

\* The checks of a lab share the consoles of its nodes.
THEOREM ConsolesAreShared == ConsoleSpec => []ConsolesShared
<1>1. ConsoleInit => ConsolesInv BY ConsolesBegin
<1>2. ConsolesInv /\ [ConsoleNext]_consoleVars => ConsolesInv' BY ConsolesGoOn
<1>3. ConsolesInv => ConsolesShared BY ConsolesShown
<1> QED BY <1>1, <1>2, <1>3, PTL DEF ConsoleSpec
=============================================================================
