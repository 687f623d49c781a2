---------------------------- MODULE MCLearnerLoop ----------------------------
(***************************************************************************)
(* Small instances, side by side, of what follows one session in the       *)
(* backend, and of what is made of its records.  The parts share nothing   *)
(* but the session, so that a behaviour picks one of them and leaves the   *)
(* others where they start.                                                *)
(***************************************************************************)
EXTENDS SessionMonitor, BehavioralEvents, ProgressObserver, MonitorRegistry,
        StruggleWindow, ThresholdSearch, ChatTurn, AccountAccess, BackOffice, LiveFeeds, TLC

CONSTANTS r1, r2, k1, k2, w1, s1, s2, c1, restorer, e1, e2, g1, g2, j1, j2

VARIABLE part    \* the component that runs

TwoSteps == <<{k1}, {k2}>>
TwoStruggles == <<"stuck_on_step", "idle">>
Grid == <<0, 1, 3>>

\* The pair of sessions serves as people and as nodes, the pair of enders as turns, sockets
\* and messages, and the pair of checks as requests of the parts, which never run together.
LoopSymmetry ==
  Permutations(BadRegimes) \cup Permutations(Sessions) \cup Permutations(Enders)

\* Bound: two sessions and one path that ends them, or one session and two paths.
FewAtOnce ==
  Cardinality({s \in Sessions : row[s] # "none"}) + Cardinality({e \in Enders : stop[e].pc # "idle"}) <= 3

\* The parts that do not run stay as they began, so a state is told by the one that does,
\* and by what a later step or a property of it reads: nothing reads stored, currentStep
\* and seenAt back, nor an answer that was revoked, and started and collectors only bound
\* the restarts, which leave the same state behind whatever their number.
PartView ==
  CASE part = "monitor" -> <<part, monitorVars>>
    [] part = "events" -> <<part, happened, listener, ring, poll, collector>>
    [] part = "observer" -> <<part, SelectSeq(answers, LAMBDA r : ~r.revoked), Len(answers), prev, snap, obs, recorded>>
    [] part = "registry" -> <<part, registryVars>>
    [] part = "window" -> <<part, windowVars>>
    [] part = "search" -> <<part, searchVars>>
    [] part = "chat" -> <<part, chatVars>>
    [] part = "account" -> <<part, accountVars>>
    [] part = "office" -> <<part, officeVars>>
    [] part = "feed" -> <<part, feedVars>>

LoopInit ==
  /\ part \in {"monitor", "events", "observer", "registry", "window", "search", "chat", "account", "office", "feed"}
  /\ MonitorInit /\ EventInit /\ ObserverInit /\ RegistryInit
  /\ WindowInit /\ SearchInit /\ ChatInit /\ AccountInit /\ OfficeInit /\ FeedInit
  /\ part # "monitor" => mrt = FALSE /\ arm = "closed"
  /\ part # "search" => threshold = FirstCandidates
  /\ part # "chat" => model = None
  /\ part # "account" => created = 0
  /\ part # "office" => desk = "card"
  /\ part # "feed" => feed = "activity"

LoopNext ==
  \/ /\ part = "monitor" /\ MonitorNext
     /\ UNCHANGED <<part, eventVars, observerVars, registryVars, windowVars, searchVars, chatVars, accountVars, officeVars, feedVars>>
  \/ /\ part = "events" /\ EventNext
     /\ UNCHANGED <<part, monitorVars, observerVars, registryVars, windowVars, searchVars, chatVars, accountVars, officeVars, feedVars>>
  \/ /\ part = "observer" /\ ObserverNext
     /\ UNCHANGED <<part, monitorVars, eventVars, registryVars, windowVars, searchVars, chatVars, accountVars, officeVars, feedVars>>
  \/ /\ part = "registry" /\ RegistryNext /\ FewAtOnce'
     /\ UNCHANGED <<part, monitorVars, eventVars, observerVars, windowVars, searchVars, chatVars, accountVars, officeVars, feedVars>>
  \/ /\ part = "window" /\ WindowNext
     /\ UNCHANGED <<part, monitorVars, eventVars, observerVars, registryVars, searchVars, chatVars, accountVars, officeVars, feedVars>>
  \/ /\ part = "search" /\ SearchNext
     /\ UNCHANGED <<part, monitorVars, eventVars, observerVars, registryVars, windowVars, chatVars, accountVars, officeVars, feedVars>>
  \/ /\ part = "chat" /\ ChatNext
     /\ UNCHANGED <<part, monitorVars, eventVars, observerVars, registryVars, windowVars, searchVars, accountVars, officeVars, feedVars>>
  \/ /\ part = "account" /\ AccountNext
     /\ UNCHANGED <<part, monitorVars, eventVars, observerVars, registryVars, windowVars, searchVars, chatVars, officeVars, feedVars>>
  \/ /\ part = "office" /\ OfficeNext
     /\ UNCHANGED <<part, monitorVars, eventVars, observerVars, registryVars, windowVars, searchVars, chatVars, accountVars, feedVars>>
  \/ /\ part = "feed" /\ FeedNext
     /\ UNCHANGED <<part, monitorVars, eventVars, observerVars, registryVars, windowVars, searchVars, chatVars, accountVars, officeVars>>

LoopSpec ==
  LoopInit /\ [][LoopNext]_<<part, monitorVars, eventVars, observerVars, registryVars, windowVars,
                            searchVars, chatVars, accountVars, officeVars, feedVars>>
=============================================================================
