------------------------ MODULE MonitorRegistry_proofs ------------------------
(***************************************************************************)
(* Whatever polls for a session is within the reach of those who stop it,  *)
(* and every live session is watched: for any number of sessions, of       *)
(* launches and ends that run at once, and of restarts, whatever fails.    *)
(* Those who watch one are shown what happens, for any sockets and sizes,  *)
(* what is recorded of a lab's checks tells their story, and of an answer  *)
(* of the tutor the tab, the history and the model are told the same; what *)
(* happens in the lab is taken once, within the collector's memory, and    *)
(* its window tells what one who had followed every event would have said, *)
(* and the search of thresholds judges the policy that a session has.      *)
(***************************************************************************)
EXTENDS MonitorRegistry, LiveFeeds, ProgressObserver, ChatTurn, BehavioralEvents,
        StruggleWindow, ThresholdSearch, FiniteSetTheorems, SequenceTheorems, WellFoundedInduction, TLAPS

(* The inductive invariant *)

StopsOf(e, pc, s, c) == StopAt(e, pc) /\ stop[e].session = s /\ stop[e].victim = c
Undoes(d, s, c) == StartAt(d, "undo") /\ start[d].session = s /\ start[d].victim = c

\* An execution is about a session exactly while it is at work, and a start is
\* undone only where the session is given up.
Shaped ==
  /\ \A c \in Starters :
       /\ start[c].session = None <=> start[c].pc \in {"idle", "select", "down"}
       /\ start[c].pc \in {"select", "down"} => c = Restorer
       /\ StartAt(c, "undo") => start[c].session \in skipped
  /\ \A e \in Enders : stop[e].session = None <=> StopAt(e, "idle")

\* Nothing is about a session before its launch.
Begun ==
  \A s \in Sessions : row[s] = "none" =>
    /\ s \notin todo
    /\ \A c \in Starters : c \notin watching[s] \cup polling[s] /\ start[c].session # s
    /\ \A e \in Enders : stop[e].session # s

\* What is registered polls, and nobody is about to stop it.
Polls ==
  \A s \in Sessions :
    /\ monitors[s] # None =>
         /\ monitors[s] \in watching[s]
         /\ \A e \in Enders : ~StopsOf(e, "monitor", s, monitors[s])
    /\ observers[s] # None =>
         /\ observers[s] \in polling[s]
         /\ \A e \in Enders : ~StopsOf(e, "observer", s, observers[s])
         /\ \A d \in Starters : ~Undoes(d, s, observers[s])

\* An execution of start that has a step still ahead of it.
Ahead(c, s, pcs) ==
  \/ start[c].session = s /\ start[c].pc \in pcs
  \/ c = Restorer /\ (s \in todo \/ StartAt(Restorer, "select"))

MayWatch(c, s) == Ahead(c, s, {"called", "observer", "monitor"})
MayPoll(c, s) == Ahead(c, s, {"called", "observer"})

\* In the life of a process, an execution starts one monitor and one observer
\* of a session at most.
NamedOnce ==
  /\ start[Restorer].session \notin todo
  /\ \A s \in Sessions, c \in Starters :
       /\ MayWatch(c, s) =>
            c \notin watching[s] /\ \A e \in Enders : ~StopsOf(e, "monitor", s, c)
       /\ MayPoll(c, s) =>
            /\ c \notin polling[s]
            /\ \A e \in Enders : ~StopsOf(e, "observer", s, c)
            /\ \A d \in Starters : ~Undoes(d, s, c)

\* What polls is registered, or somebody is about to stop it.
Accounted ==
  \A s \in Sessions \ late :
    /\ \A c \in Starters : c \in watching[s] =>
         monitors[s] = c \/ \E e \in Enders : StopsOf(e, "monitor", s, c)
    /\ \A c \in Starters : c \in polling[s] =>
         \/ observers[s] = c
         \/ \E e \in Enders : StopsOf(e, "observer", s, c)
         \/ \E d \in Starters : Undoes(d, s, c)

\* One start at a time, and only of what is not registered.
Alone ==
  \A s \in Sessions \ late :
    /\ \A c, d \in Starters : start[c].session = s /\ start[d].session = s => c = d
    /\ s \in todo => ~Starting(s) /\ monitors[s] = None /\ observers[s] = None
    /\ \A c \in Starters : start[c].session = s =>
         /\ start[c].pc \in {"called", "observer", "monitor"} => monitors[s] = None
         /\ start[c].pc \in {"called", "observer"} => observers[s] = None

\* A live session has a monitor, or is on the way to one, or given up.
Live ==
  ~Down /\ ~StartAt(Restorer, "select") =>
    \A s \in Sessions :
      row[s] = "active" /\ s \notin skipped \cup todo /\ ~Starting(s) /\ ~Stopping(s)
        => monitors[s] # None

\* A process that is shut down does nothing.
Silent ==
  Down =>
    /\ \A c \in Launchers : StartAt(c, "idle")
    /\ \A e \in Enders : StopAt(e, "idle")
    /\ \A s \in Sessions \ late, c \in Starters : c \notin watching[s] \cup polling[s]

RegistryInv ==
  /\ RegistryTypeOK /\ Shaped /\ Begun /\ Polls /\ NamedOnce
  /\ Accounted /\ Alone /\ Live /\ Silent
-----------------------------------------------------------------------------
\* A launch: nothing is about the session yet.
LEMMA LaunchInv ==
  ASSUME RegistryInv, NEW c \in Starters, NEW s \in Sessions, Launch(c, s)
  PROVE  RegistryInv'
<1> USE DEF RegistryInv, StartAt, StopAt, StopsOf, Undoes
<1>0. /\ Starters = Launchers \cup {Restorer} /\ Restorer \notin Launchers
      /\ None \notin Sessions /\ None \notin Starters
      /\ todo \subseteq Sessions
      /\ \A t \in Sessions :
           /\ watching[t] \subseteq Starters /\ polling[t] \subseteq Starters
           /\ monitors[t] \in Starters \cup {None} /\ observers[t] \in Starters \cup {None}
  BY RegistryAssumption DEF Starters, RegistryTypeOK
<1>1. c # Restorer /\ start[c].pc = "idle" /\ row[s] = "none" /\ ~Down /\ s # None /\ Restorer \in Starters
  BY RegistryAssumption DEF Launch, Starters
<1>2. UNCHANGED <<monitors, observers, watching, polling, stop, todo, late, skipped, crashes>>
  BY DEF Launch
<1>3. \A t \in Sessions : row'[t] = IF t = s THEN "active" ELSE row[t]
  BY DEF Launch, RegistryTypeOK
<1>4. \A d \in Starters :
        /\ start'[d].pc = IF d = c THEN "called" ELSE start[d].pc
        /\ start'[d].session = IF d = c THEN s ELSE start[d].session
        /\ start'[d].victim = IF d = c THEN None ELSE start[d].victim
  BY DEF Launch, RegistryTypeOK
<1>5. RegistryTypeOK'
  BY DEF RegistryTypeOK, Launch
<1>6. Shaped'
  BY <1>0, <1>1, <1>2, <1>3, <1>4 DEF Shaped
<1>7. Begun'
  BY <1>0, <1>1, <1>2, <1>3, <1>4 DEF Begun
<1>8. Polls'
  BY <1>0, <1>1, <1>2, <1>3, <1>4 DEF Polls
<1>9. NamedOnce'
  BY <1>0, <1>1, <1>2, <1>3, <1>4 DEF NamedOnce, MayWatch, MayPoll, Ahead, Begun
<1>10. Accounted'
  BY <1>0, <1>1, <1>2, <1>3, <1>4 DEF Accounted
<1>11. Alone'
  BY <1>0, <1>1, <1>2, <1>3, <1>4 DEF Alone, Starting, Begun, Polls, Shaped
<1>12. Live'
  BY <1>0, <1>1, <1>2, <1>3, <1>4 DEF Live, Down, Starting, Stopping, Shaped
<1>13. Silent'
  BY <1>0, <1>1, <1>2, <1>3, <1>4 DEF Silent, Down
<1> QED  BY <1>5, <1>6, <1>7, <1>8, <1>9, <1>10, <1>11, <1>12, <1>13

\* The selection: what a launch has meanwhile started is late.
LEMMA RestoreSelectInv ==
  ASSUME RegistryInv, RestoreSelect
  PROVE  RegistryInv'
<1> USE DEF RegistryInv, StartAt, StopAt, StopsOf, Undoes
<1>0. /\ Starters = Launchers \cup {Restorer} /\ Restorer \notin Launchers
      /\ None \notin Sessions /\ None \notin Starters
      /\ todo \subseteq Sessions
      /\ \A s \in Sessions :
           /\ watching[s] \subseteq Starters /\ polling[s] \subseteq Starters
           /\ monitors[s] \in Starters \cup {None} /\ observers[s] \in Starters \cup {None}
  BY RegistryAssumption DEF Starters, RegistryTypeOK
<1>1. Restorer \in Starters /\ start[Restorer].pc = "select" /\ todo' \subseteq Active /\ skipped \subseteq skipped'
      /\ skipped' \subseteq Sessions /\ Active \subseteq todo' \cup skipped'
  BY DEF RestoreSelect, Starters, Active, RegistryTypeOK
<1>2. UNCHANGED <<row, monitors, observers, watching, polling, stop, crashes>>
  BY DEF RestoreSelect
<1>3. late' = late \cup {s \in todo' : Starting(s) \/ watching[s] \cup polling[s] # {}}
  BY DEF RestoreSelect
<1>4. \A d \in Starters :
        /\ start'[d].pc = IF d = Restorer THEN "idle" ELSE start[d].pc
        /\ start'[d].session = IF d = Restorer THEN None ELSE start[d].session
        /\ start'[d].victim = IF d = Restorer THEN None ELSE start[d].victim
  BY <1>1 DEF RestoreSelect, StartEnds, IdleStart, RegistryTypeOK
<1>5. RegistryTypeOK'
  BY <1>1, <1>2, <1>3 DEF RegistryTypeOK, RestoreSelect, StartEnds, IdleStart, Active
<1>6. Shaped'
  BY <1>0, <1>1, <1>2, <1>3, <1>4 DEF Shaped
<1>7. Begun'
  BY <1>0, <1>1, <1>2, <1>3, <1>4 DEF Begun, Active
<1>8. Polls'
  BY <1>0, <1>1, <1>2, <1>3, <1>4 DEF Polls
<1>9. NamedOnce'
  BY <1>0, <1>1, <1>2, <1>3, <1>4 DEF NamedOnce, MayWatch, MayPoll, Ahead, Active, Shaped
<1>10. Accounted'
  BY <1>0, <1>1, <1>2, <1>3, <1>4 DEF Accounted
<1>11. Alone'
  BY <1>0, <1>1, <1>2, <1>3, <1>4 DEF Alone, Starting, Polls, Shaped, Active
<1>12. Live'
  BY <1>0, <1>1, <1>2, <1>3, <1>4 DEF Live, Down, Starting, Stopping, Active, Shaped
<1>13. Silent'
  BY <1>0, <1>1, <1>2, <1>3, <1>4 DEF Silent, Down
<1> QED  BY <1>5, <1>6, <1>7, <1>8, <1>9, <1>10, <1>11, <1>12, <1>13

\* A session of the selection: nobody else starts it, unless it is late.
LEMMA RestoreNextInv ==
  ASSUME RegistryInv, NEW s \in Sessions, RestoreNext(s)
  PROVE  RegistryInv'
<1> USE DEF RegistryInv, StartAt, StopAt, StopsOf, Undoes
<1>0. /\ Starters = Launchers \cup {Restorer} /\ Restorer \notin Launchers
      /\ None \notin Sessions /\ None \notin Starters
      /\ todo \subseteq Sessions
      /\ \A t \in Sessions :
           /\ watching[t] \subseteq Starters /\ polling[t] \subseteq Starters
           /\ monitors[t] \in Starters \cup {None} /\ observers[t] \in Starters \cup {None}
  BY RegistryAssumption DEF Starters, RegistryTypeOK
<1>1. Restorer \in Starters /\ start[Restorer].pc = "idle" /\ s \in todo /\ s # None /\ todo' = todo \ {s}
  BY RegistryAssumption DEF RestoreNext, Starters
<1>2. UNCHANGED <<row, monitors, observers, watching, polling, stop, late, skipped, crashes>>
  BY DEF RestoreNext
<1>3. \A d \in Starters :
        /\ start'[d].pc = IF d = Restorer THEN "called" ELSE start[d].pc
        /\ start'[d].session = IF d = Restorer THEN s ELSE start[d].session
        /\ start'[d].victim = IF d = Restorer THEN None ELSE start[d].victim
  BY <1>1 DEF RestoreNext, RegistryTypeOK
<1>4. RegistryTypeOK'
  BY <1>1 DEF RegistryTypeOK, RestoreNext
<1>5. Shaped'
  BY <1>0, <1>1, <1>2, <1>3 DEF Shaped
<1>6. Begun'
  BY <1>0, <1>1, <1>2, <1>3 DEF Begun
<1>7. Polls'
  BY <1>0, <1>1, <1>2, <1>3 DEF Polls
<1>8. NamedOnce'
  BY <1>0, <1>1, <1>2, <1>3 DEF NamedOnce, MayWatch, MayPoll, Ahead
<1>9. Accounted'
  BY <1>0, <1>1, <1>2, <1>3 DEF Accounted
<1>10. Alone'
  BY <1>0, <1>1, <1>2, <1>3 DEF Alone, Starting
<1>11. Live'
  BY <1>0, <1>1, <1>2, <1>3 DEF Live, Down, Starting, Stopping, Shaped
<1>12. Silent'
  BY <1>0, <1>1, <1>2, <1>3 DEF Silent, Down
<1> QED  BY <1>4, <1>5, <1>6, <1>7, <1>8, <1>9, <1>10, <1>11, <1>12

\* A repeat call ends, any other goes on to the observer.
LEMMA StartCalledInv ==
  ASSUME RegistryInv, NEW c \in Starters, StartCalled(c)
  PROVE  RegistryInv'
<1> USE DEF RegistryInv, StartAt, StopAt, StopsOf, Undoes
<1>0. /\ Starters = Launchers \cup {Restorer} /\ Restorer \notin Launchers
      /\ None \notin Sessions /\ None \notin Starters
      /\ todo \subseteq Sessions
      /\ \A s \in Sessions :
           /\ watching[s] \subseteq Starters /\ polling[s] \subseteq Starters
           /\ monitors[s] \in Starters \cup {None} /\ observers[s] \in Starters \cup {None}
  BY RegistryAssumption DEF Starters, RegistryTypeOK
<1>1. start[c].pc = "called" /\ start[c].session \in Sessions
  BY DEF StartCalled, Shaped, RegistryTypeOK
<1>2. UNCHANGED <<row, monitors, observers, watching, polling, stop, todo, late, skipped, crashes>>
  BY DEF StartCalled
<1>3. \/ /\ monitors[start[c].session] # None
         /\ \A d \in Starters :
              /\ start'[d].pc = IF d = c THEN "idle" ELSE start[d].pc
              /\ start'[d].session = IF d = c THEN None ELSE start[d].session
              /\ start'[d].victim = IF d = c THEN None ELSE start[d].victim
      \/ /\ monitors[start[c].session] = None
         /\ \A d \in Starters :
              /\ start'[d].pc = IF d = c THEN "observer" ELSE start[d].pc
              /\ start'[d].session = start[d].session
              /\ start'[d].victim = start[d].victim
  BY <1>1 DEF StartCalled, StartEnds, StartTo, IdleStart, RegistryTypeOK
<1>4. RegistryTypeOK'
  BY <1>1, <1>2 DEF RegistryTypeOK, StartCalled, StartEnds, StartTo, IdleStart
<1>5. Shaped'
  BY <1>0, <1>1, <1>2, <1>3 DEF Shaped
<1>6. Begun'
  BY <1>0, <1>1, <1>2, <1>3 DEF Begun
<1>7. Polls'
  BY <1>0, <1>1, <1>2, <1>3 DEF Polls
<1>8. NamedOnce'
  BY <1>0, <1>1, <1>2, <1>3 DEF NamedOnce, MayWatch, MayPoll, Ahead
<1>9. Accounted'
  BY <1>0, <1>1, <1>2, <1>3 DEF Accounted
<1>10. Alone'
  BY <1>0, <1>1, <1>2, <1>3 DEF Alone, Starting
<1>11. Live'
  BY <1>0, <1>1, <1>2, <1>3 DEF Live, Down, Starting, Stopping
<1>12. Silent'
  BY <1>0, <1>1, <1>2, <1>3 DEF Silent, Down
<1> QED  BY <1>4, <1>5, <1>6, <1>7, <1>8, <1>9, <1>10, <1>11, <1>12

\* The observer is registered as it begins to poll; there was none.
LEMMA StartObserverInv ==
  ASSUME RegistryInv, NEW c \in Starters, StartObserver(c)
  PROVE  RegistryInv'
<1> USE DEF RegistryInv, StartAt, StopAt, StopsOf, Undoes
<1>0. /\ Starters = Launchers \cup {Restorer} /\ Restorer \notin Launchers
      /\ None \notin Sessions /\ None \notin Starters
      /\ todo \subseteq Sessions
      /\ \A s \in Sessions :
           /\ watching[s] \subseteq Starters /\ polling[s] \subseteq Starters
           /\ monitors[s] \in Starters \cup {None} /\ observers[s] \in Starters \cup {None}
  BY RegistryAssumption DEF Starters, RegistryTypeOK
<1>1. start[c].pc = "observer" /\ start[c].session \in Sessions /\ c # None
  BY RegistryAssumption DEF StartObserver, Shaped, RegistryTypeOK
<1>2. UNCHANGED <<row, monitors, watching, stop, todo, late, skipped, crashes>>
  BY DEF StartObserver
<1>3. \A d \in Starters :
        /\ start'[d].pc = IF d = c THEN "monitor" ELSE start[d].pc
        /\ start'[d].session = start[d].session
        /\ start'[d].victim = start[d].victim
  BY <1>1 DEF StartObserver, StartTo, RegistryTypeOK
<1>4. \/ UNCHANGED <<observers, polling>>
      \/ \A t \in Sessions :
           /\ observers'[t] = IF t = start[c].session THEN c ELSE observers[t]
           /\ \A d \in Starters : d \in polling'[t] <=> d \in polling[t] \/ (t = start[c].session /\ d = c)
  BY <1>1 DEF StartObserver, RegistryTypeOK
<1>5. RegistryTypeOK'
  BY <1>1, <1>2 DEF RegistryTypeOK, StartObserver, StartTo
<1>6. Shaped'
  BY <1>0, <1>1, <1>2, <1>3, <1>4 DEF Shaped
<1>7. Begun'
  BY <1>0, <1>1, <1>2, <1>3, <1>4 DEF Begun
<1>8. Polls'
  BY <1>0, <1>1, <1>2, <1>3, <1>4 DEF Polls, NamedOnce, MayPoll, Ahead
<1>9. NamedOnce'
  BY <1>0, <1>1, <1>2, <1>3, <1>4 DEF NamedOnce, MayWatch, MayPoll, Ahead
<1>10. Accounted'
  BY <1>0, <1>1, <1>2, <1>3, <1>4 DEF Accounted, Alone
<1>11. Alone'
  BY <1>0, <1>1, <1>2, <1>3, <1>4 DEF Alone, Starting
<1>12. Live'
  BY <1>0, <1>1, <1>2, <1>3, <1>4 DEF Live, Down, Starting, Stopping
<1>13. Silent'
  BY <1>0, <1>1, <1>2, <1>3, <1>4 DEF Silent, Down
<1> QED  BY <1>5, <1>6, <1>7, <1>8, <1>9, <1>10, <1>11, <1>12, <1>13

\* The monitor is registered as it begins to watch; there was none.
LEMMA StartMonitorInv ==
  ASSUME RegistryInv, NEW c \in Starters, StartMonitor(c)
  PROVE  RegistryInv'
<1> USE DEF RegistryInv, StartAt, StopAt, StopsOf, Undoes
<1>0. /\ Starters = Launchers \cup {Restorer} /\ Restorer \notin Launchers
      /\ None \notin Sessions /\ None \notin Starters
      /\ todo \subseteq Sessions
      /\ \A s \in Sessions :
           /\ watching[s] \subseteq Starters /\ polling[s] \subseteq Starters
           /\ monitors[s] \in Starters \cup {None} /\ observers[s] \in Starters \cup {None}
  BY RegistryAssumption DEF Starters, RegistryTypeOK
<1>1. start[c].pc = "monitor" /\ start[c].session \in Sessions /\ c # None
  BY RegistryAssumption DEF StartMonitor, Shaped, RegistryTypeOK
<1>2. UNCHANGED <<row, observers, polling, stop, todo, late, skipped, crashes>>
  BY DEF StartMonitor
<1>3. \A d \in Starters :
        /\ start'[d].pc = IF d = c THEN "idle" ELSE start[d].pc
        /\ start'[d].session = IF d = c THEN None ELSE start[d].session
        /\ start'[d].victim = IF d = c THEN None ELSE start[d].victim
  BY <1>1 DEF StartMonitor, StartEnds, IdleStart, RegistryTypeOK
<1>4. \A t \in Sessions :
        /\ monitors'[t] = IF t = start[c].session THEN c ELSE monitors[t]
        /\ \A d \in Starters : d \in watching'[t] <=> d \in watching[t] \/ (t = start[c].session /\ d = c)
  BY <1>1 DEF StartMonitor, RegistryTypeOK
<1>5. RegistryTypeOK'
  BY <1>1, <1>2 DEF RegistryTypeOK, StartMonitor, StartEnds, IdleStart
<1>6. Shaped'
  BY <1>0, <1>1, <1>2, <1>3, <1>4 DEF Shaped
<1>7. Begun'
  BY <1>0, <1>1, <1>2, <1>3, <1>4 DEF Begun
<1>8. Polls'
  BY <1>0, <1>1, <1>2, <1>3, <1>4 DEF Polls, NamedOnce, MayWatch, Ahead
<1>9. NamedOnce'
  BY <1>0, <1>1, <1>2, <1>3, <1>4 DEF NamedOnce, MayWatch, MayPoll, Ahead
<1>10. Accounted'
  BY <1>0, <1>1, <1>2, <1>3, <1>4 DEF Accounted, Alone
<1>11. Alone'
  BY <1>0, <1>1, <1>2, <1>3, <1>4 DEF Alone, Starting
<1>12. Live'
  BY <1>0, <1>1, <1>2, <1>3, <1>4 DEF Live, Down, Starting, Stopping
<1>13. Silent'
  BY <1>0, <1>1, <1>2, <1>3, <1>4 DEF Silent, Down
<1> QED  BY <1>5, <1>6, <1>7, <1>8, <1>9, <1>10, <1>11, <1>12, <1>13

\* A start that fails takes its observer out, to stop it.
LEMMA StartFailsInv ==
  ASSUME RegistryInv, NEW c \in Starters, StartFails(c)
  PROVE  RegistryInv'
<1> USE DEF RegistryInv, StartAt, StopAt, StopsOf, Undoes
<1>0. /\ Starters = Launchers \cup {Restorer} /\ Restorer \notin Launchers
      /\ None \notin Sessions /\ None \notin Starters
      /\ todo \subseteq Sessions
      /\ \A s \in Sessions :
           /\ watching[s] \subseteq Starters /\ polling[s] \subseteq Starters
           /\ monitors[s] \in Starters \cup {None} /\ observers[s] \in Starters \cup {None}
  BY RegistryAssumption DEF Starters, RegistryTypeOK
<1>1. start[c].pc = "monitor" /\ start[c].session \in Sessions
  BY DEF StartFails, Shaped, RegistryTypeOK
<1>2. UNCHANGED <<row, monitors, watching, polling, stop, todo, late, crashes>>
  BY DEF StartFails
<1>3. skipped' = skipped \cup {start[c].session}
  BY DEF StartFails
<1>4. \A t \in Sessions : observers'[t] = IF t = start[c].session THEN None ELSE observers[t]
  BY <1>1 DEF StartFails, Undo, RegistryTypeOK
<1>5. \/ /\ observers[start[c].session] = None
         /\ \A d \in Starters :
              /\ start'[d].pc = IF d = c THEN "idle" ELSE start[d].pc
              /\ start'[d].session = IF d = c THEN None ELSE start[d].session
              /\ start'[d].victim = IF d = c THEN None ELSE start[d].victim
      \/ /\ observers[start[c].session] # None
         /\ \A d \in Starters :
              /\ start'[d].pc = IF d = c THEN "undo" ELSE start[d].pc
              /\ start'[d].session = start[d].session
              /\ start'[d].victim = IF d = c THEN observers[start[c].session] ELSE start[d].victim
  BY <1>1 DEF StartFails, Undo, StartEnds, IdleStart, RegistryTypeOK
<1>6. RegistryTypeOK'
  BY <1>1, <1>2, <1>3 DEF RegistryTypeOK, StartFails, Undo, StartEnds, IdleStart
<1>7. Shaped'
  BY <1>0, <1>1, <1>2, <1>3, <1>4, <1>5 DEF Shaped
<1>8. Begun'
  BY <1>0, <1>1, <1>2, <1>3, <1>4, <1>5 DEF Begun
<1>9. Polls'
  BY <1>0, <1>1, <1>2, <1>3, <1>4, <1>5 DEF Polls
<1>10. NamedOnce'
  BY <1>0, <1>1, <1>2, <1>3, <1>4, <1>5 DEF NamedOnce, MayWatch, MayPoll, Ahead, Polls
<1>11. Accounted'
  BY <1>0, <1>1, <1>2, <1>3, <1>4, <1>5 DEF Accounted
<1>12. Alone'
  BY <1>0, <1>1, <1>2, <1>3, <1>4, <1>5 DEF Alone, Starting
<1>13. Live'
  BY <1>0, <1>1, <1>2, <1>3, <1>4, <1>5 DEF Live, Down, Starting, Stopping
<1>14. Silent'
  BY <1>0, <1>1, <1>2, <1>3, <1>4, <1>5 DEF Silent, Down
<1> QED  BY <1>6, <1>7, <1>8, <1>9, <1>10, <1>11, <1>12, <1>13, <1>14

\* ... and ends once it is stopped.
LEMMA StartUndoneInv ==
  ASSUME RegistryInv, NEW c \in Starters, StartUndone(c)
  PROVE  RegistryInv'
<1> USE DEF RegistryInv, StartAt, StopAt, StopsOf, Undoes
<1>0. /\ Starters = Launchers \cup {Restorer} /\ Restorer \notin Launchers
      /\ None \notin Sessions /\ None \notin Starters
      /\ todo \subseteq Sessions
      /\ \A s \in Sessions :
           /\ watching[s] \subseteq Starters /\ polling[s] \subseteq Starters
           /\ monitors[s] \in Starters \cup {None} /\ observers[s] \in Starters \cup {None}
  BY RegistryAssumption DEF Starters, RegistryTypeOK
<1>1. start[c].pc = "undo" /\ start[c].session \in Sessions
  BY DEF StartUndone, Shaped, RegistryTypeOK
<1>2. UNCHANGED <<row, monitors, observers, watching, stop, todo, late, skipped, crashes>>
  BY DEF StartUndone
<1>3. \A d \in Starters :
        /\ start'[d].pc = IF d = c THEN "idle" ELSE start[d].pc
        /\ start'[d].session = IF d = c THEN None ELSE start[d].session
        /\ start'[d].victim = IF d = c THEN None ELSE start[d].victim
  BY <1>1 DEF StartUndone, StartEnds, IdleStart, RegistryTypeOK
<1>4. \A t \in Sessions, d \in Starters :
        d \in polling'[t] <=> d \in polling[t] /\ ~(t = start[c].session /\ d = start[c].victim)
  BY <1>1 DEF StartUndone, RegistryTypeOK
<1>5. RegistryTypeOK'
  BY <1>1, <1>2 DEF RegistryTypeOK, StartUndone, StartEnds, IdleStart
<1>6. Shaped'
  BY <1>0, <1>1, <1>2, <1>3, <1>4 DEF Shaped
<1>7. Begun'
  BY <1>0, <1>1, <1>2, <1>3, <1>4 DEF Begun
<1>8. Polls'
  BY <1>0, <1>1, <1>2, <1>3, <1>4 DEF Polls
<1>9. NamedOnce'
  BY <1>0, <1>1, <1>2, <1>3, <1>4 DEF NamedOnce, MayWatch, MayPoll, Ahead
<1>10. Accounted'
  BY <1>0, <1>1, <1>2, <1>3, <1>4 DEF Accounted
<1>11. Alone'
  BY <1>0, <1>1, <1>2, <1>3, <1>4 DEF Alone, Starting
<1>12. Live'
  BY <1>0, <1>1, <1>2, <1>3, <1>4 DEF Live, Down, Starting, Stopping, Shaped
<1>13. Silent'
  BY <1>0, <1>1, <1>2, <1>3, <1>4 DEF Silent, Down
<1> QED  BY <1>5, <1>6, <1>7, <1>8, <1>9, <1>10, <1>11, <1>12, <1>13

\* An end takes the monitor out, or else the observer, to stop it.
LEMMA EndWatchedInv ==
  ASSUME RegistryInv, NEW e \in Enders, NEW s \in Sessions, EndWatched(e, s)
  PROVE  RegistryInv'
<1> USE DEF RegistryInv, StartAt, StopAt, StopsOf, Undoes
<1>0. /\ Starters = Launchers \cup {Restorer} /\ Restorer \notin Launchers
      /\ None \notin Sessions /\ None \notin Starters
      /\ todo \subseteq Sessions
      /\ \A t \in Sessions :
           /\ watching[t] \subseteq Starters /\ polling[t] \subseteq Starters
           /\ monitors[t] \in Starters \cup {None} /\ observers[t] \in Starters \cup {None}
  BY RegistryAssumption DEF Starters, RegistryTypeOK
<1>1. stop[e].pc = "idle" /\ row[s] # "none" /\ ~Down /\ s # None
  BY RegistryAssumption DEF EndWatched
<1>2. UNCHANGED <<row, watching, polling, start, todo, late, skipped, crashes>>
  BY DEF EndWatched
<1>3. \A d \in Enders : d # e =>
        stop'[d].pc = stop[d].pc /\ stop'[d].session = stop[d].session /\ stop'[d].victim = stop[d].victim
  BY DEF EndWatched, PopObserver, RegistryTypeOK
<1>4. stop'[e].session = s /\ stop'[e].pc \in {"monitor", "observer", "mark"}
  BY DEF EndWatched, PopObserver, RegistryTypeOK
<1>5. \/ /\ monitors[s] # None /\ stop'[e].pc = "monitor" /\ stop'[e].victim = monitors[s]
         /\ UNCHANGED observers
         /\ \A t \in Sessions : monitors'[t] = IF t = s THEN None ELSE monitors[t]
      \/ /\ monitors[s] = None /\ stop'[e].victim = observers[s]
         /\ stop'[e].pc = IF observers[s] = None THEN "mark" ELSE "observer"
         /\ UNCHANGED monitors
         /\ \A t \in Sessions : observers'[t] = IF t = s THEN None ELSE observers[t]
  BY DEF EndWatched, PopObserver, RegistryTypeOK
<1>6. RegistryTypeOK'
  BY <1>2 DEF RegistryTypeOK, EndWatched, PopObserver
<1>7. Shaped'
  BY <1>0, <1>1, <1>2, <1>3, <1>4, <1>5 DEF Shaped
<1>8. Begun'
  BY <1>0, <1>1, <1>2, <1>3, <1>4, <1>5 DEF Begun
<1>9. Polls'
  BY <1>0, <1>1, <1>2, <1>3, <1>4, <1>5 DEF Polls
<1>10. NamedOnce'
  BY <1>0, <1>1, <1>2, <1>3, <1>4, <1>5 DEF NamedOnce, MayWatch, MayPoll, Ahead, Polls
<1>11. Accounted'
  BY <1>0, <1>1, <1>2, <1>3, <1>4, <1>5 DEF Accounted
<1>12. Alone'
  BY <1>0, <1>1, <1>2, <1>3, <1>4, <1>5 DEF Alone, Starting
<1>13. Live'
  BY <1>0, <1>1, <1>2, <1>3, <1>4, <1>5 DEF Live, Down, Starting, Stopping, Shaped
<1>14. Silent'
  BY <1>0, <1>1, <1>2, <1>3, <1>4, <1>5 DEF Silent, Down
<1> QED  BY <1>6, <1>7, <1>8, <1>9, <1>10, <1>11, <1>12, <1>13, <1>14

\* The monitor is stopped, and the observer taken out.
LEMMA StopMonitorInv ==
  ASSUME RegistryInv, NEW e \in Enders, StopMonitor(e)
  PROVE  RegistryInv'
<1> USE DEF RegistryInv, StartAt, StopAt, StopsOf, Undoes
<1>0. /\ Starters = Launchers \cup {Restorer} /\ Restorer \notin Launchers
      /\ None \notin Sessions /\ None \notin Starters
      /\ todo \subseteq Sessions
      /\ \A s \in Sessions :
           /\ watching[s] \subseteq Starters /\ polling[s] \subseteq Starters
           /\ monitors[s] \in Starters \cup {None} /\ observers[s] \in Starters \cup {None}
  BY RegistryAssumption DEF Starters, RegistryTypeOK
<1>1. stop[e].pc = "monitor" /\ stop[e].session \in Sessions
  BY DEF StopMonitor, Shaped, RegistryTypeOK
<1>2. UNCHANGED <<row, monitors, polling, start, todo, late, skipped, crashes>>
  BY DEF StopMonitor
<1>3. \A d \in Enders :
        /\ stop'[d].pc = IF d = e THEN IF observers[stop[e].session] = None THEN "mark" ELSE "observer" ELSE stop[d].pc
        /\ stop'[d].session = IF d = e THEN stop[e].session ELSE stop[d].session
        /\ stop'[d].victim = IF d = e THEN observers[stop[e].session] ELSE stop[d].victim
  BY <1>1 DEF StopMonitor, PopObserver, RegistryTypeOK
<1>4. \A t \in Sessions :
        /\ \A d \in Starters :
             d \in watching'[t] <=> d \in watching[t] /\ ~(t = stop[e].session /\ d = stop[e].victim)
        /\ observers'[t] = IF t = stop[e].session THEN None ELSE observers[t]
  BY <1>1 DEF StopMonitor, PopObserver, RegistryTypeOK
<1>5. RegistryTypeOK'
  BY <1>1, <1>2 DEF RegistryTypeOK, StopMonitor, PopObserver
<1>6. Shaped'
  BY <1>0, <1>1, <1>2, <1>3, <1>4 DEF Shaped
<1>7. Begun'
  BY <1>0, <1>1, <1>2, <1>3, <1>4 DEF Begun
<1>8. Polls'
  BY <1>0, <1>1, <1>2, <1>3, <1>4 DEF Polls
<1>9. NamedOnce'
  BY <1>0, <1>1, <1>2, <1>3, <1>4 DEF NamedOnce, MayWatch, MayPoll, Ahead, Polls
<1>10. Accounted'
  BY <1>0, <1>1, <1>2, <1>3, <1>4 DEF Accounted
<1>11. Alone'
  BY <1>0, <1>1, <1>2, <1>3, <1>4 DEF Alone, Starting
<1>12. Live'
  BY <1>0, <1>1, <1>2, <1>3, <1>4 DEF Live, Down, Starting, Stopping
<1>13. Silent'
  BY <1>0, <1>1, <1>2, <1>3, <1>4 DEF Silent, Down
<1> QED  BY <1>5, <1>6, <1>7, <1>8, <1>9, <1>10, <1>11, <1>12, <1>13

\* The observer is stopped.
LEMMA StopObserverInv ==
  ASSUME RegistryInv, NEW e \in Enders, StopObserver(e)
  PROVE  RegistryInv'
<1> USE DEF RegistryInv, StartAt, StopAt, StopsOf, Undoes
<1>0. /\ Starters = Launchers \cup {Restorer} /\ Restorer \notin Launchers
      /\ None \notin Sessions /\ None \notin Starters
      /\ todo \subseteq Sessions
      /\ \A s \in Sessions :
           /\ watching[s] \subseteq Starters /\ polling[s] \subseteq Starters
           /\ monitors[s] \in Starters \cup {None} /\ observers[s] \in Starters \cup {None}
  BY RegistryAssumption DEF Starters, RegistryTypeOK
<1>1. stop[e].pc = "observer" /\ stop[e].session \in Sessions
  BY DEF StopObserver, Shaped, RegistryTypeOK
<1>2. UNCHANGED <<row, monitors, observers, watching, start, todo, late, skipped, crashes>>
  BY DEF StopObserver
<1>3. \A d \in Enders :
        /\ stop'[d].pc = IF d = e THEN "mark" ELSE stop[d].pc
        /\ stop'[d].session = IF d = e THEN stop[e].session ELSE stop[d].session
        /\ stop'[d].victim = IF d = e THEN stop[e].victim ELSE stop[d].victim
  BY <1>1 DEF StopObserver, RegistryTypeOK
<1>4. \A t \in Sessions, d \in Starters :
        d \in polling'[t] <=> d \in polling[t] /\ ~(t = stop[e].session /\ d = stop[e].victim)
  BY <1>1 DEF StopObserver, RegistryTypeOK
<1>5. RegistryTypeOK'
  BY <1>1, <1>2 DEF RegistryTypeOK, StopObserver
<1>6. Shaped'
  BY <1>0, <1>1, <1>2, <1>3, <1>4 DEF Shaped
<1>7. Begun'
  BY <1>0, <1>1, <1>2, <1>3, <1>4 DEF Begun
<1>8. Polls'
  BY <1>0, <1>1, <1>2, <1>3, <1>4 DEF Polls
<1>9. NamedOnce'
  BY <1>0, <1>1, <1>2, <1>3, <1>4 DEF NamedOnce, MayWatch, MayPoll, Ahead
<1>10. Accounted'
  BY <1>0, <1>1, <1>2, <1>3, <1>4 DEF Accounted
<1>11. Alone'
  BY <1>0, <1>1, <1>2, <1>3, <1>4 DEF Alone, Starting
<1>12. Live'
  BY <1>0, <1>1, <1>2, <1>3, <1>4 DEF Live, Down, Starting, Stopping
<1>13. Silent'
  BY <1>0, <1>1, <1>2, <1>3, <1>4 DEF Silent, Down
<1> QED  BY <1>5, <1>6, <1>7, <1>8, <1>9, <1>10, <1>11, <1>12, <1>13

\* The row is finalized.
LEMMA MarkEndedInv ==
  ASSUME RegistryInv, NEW e \in Enders, MarkEnded(e)
  PROVE  RegistryInv'
<1> USE DEF RegistryInv, StartAt, StopAt, StopsOf, Undoes
<1>0. /\ Starters = Launchers \cup {Restorer} /\ Restorer \notin Launchers
      /\ None \notin Sessions /\ None \notin Starters
      /\ todo \subseteq Sessions
      /\ \A s \in Sessions :
           /\ watching[s] \subseteq Starters /\ polling[s] \subseteq Starters
           /\ monitors[s] \in Starters \cup {None} /\ observers[s] \in Starters \cup {None}
  BY RegistryAssumption DEF Starters, RegistryTypeOK
<1>1. stop[e].pc = "mark" /\ stop[e].session \in Sessions
  BY DEF MarkEnded, Shaped, RegistryTypeOK
<1>2. UNCHANGED <<monitors, observers, watching, polling, start, todo, late, skipped, crashes>>
  BY DEF MarkEnded
<1>3. \A d \in Enders :
        /\ stop'[d].pc = IF d = e THEN "idle" ELSE stop[d].pc
        /\ stop'[d].session = IF d = e THEN None ELSE stop[d].session
        /\ stop'[d].victim = IF d = e THEN None ELSE stop[d].victim
  BY <1>1 DEF MarkEnded, IdleStop, RegistryTypeOK
<1>4. \A t \in Sessions : row'[t] = IF t = stop[e].session THEN "ended" ELSE row[t]
  BY <1>1 DEF MarkEnded, RegistryTypeOK
<1>5. RegistryTypeOK'
  BY <1>1, <1>2 DEF RegistryTypeOK, MarkEnded, IdleStop
<1>6. Shaped'
  BY <1>0, <1>1, <1>2, <1>3, <1>4 DEF Shaped
<1>7. Begun'
  BY <1>0, <1>1, <1>2, <1>3, <1>4 DEF Begun
<1>8. Polls'
  BY <1>0, <1>1, <1>2, <1>3, <1>4 DEF Polls
<1>9. NamedOnce'
  BY <1>0, <1>1, <1>2, <1>3, <1>4 DEF NamedOnce, MayWatch, MayPoll, Ahead
<1>10. Accounted'
  BY <1>0, <1>1, <1>2, <1>3, <1>4 DEF Accounted
<1>11. Alone'
  BY <1>0, <1>1, <1>2, <1>3, <1>4 DEF Alone, Starting
<1>12. Live'
  BY <1>0, <1>1, <1>2, <1>3, <1>4 DEF Live, Down, Starting, Stopping
<1>13. Silent'
  BY <1>0, <1>1, <1>2, <1>3, <1>4 DEF Silent, Down
<1> QED  BY <1>5, <1>6, <1>7, <1>8, <1>9, <1>10, <1>11, <1>12, <1>13

\* stop_all stops all that polls: the rest was being stopped by nobody.
LEMMA ShutdownInv ==
  ASSUME RegistryInv, Shutdown
  PROVE  RegistryInv'
<1> USE DEF RegistryInv, StartAt, StopAt, StopsOf, Undoes
<1>0. /\ Starters = Launchers \cup {Restorer} /\ Restorer \notin Launchers
      /\ None \notin Sessions /\ None \notin Starters
      /\ todo \subseteq Sessions
      /\ \A s \in Sessions :
           /\ watching[s] \subseteq Starters /\ polling[s] \subseteq Starters
           /\ monitors[s] \in Starters \cup {None} /\ observers[s] \in Starters \cup {None}
  BY RegistryAssumption DEF Starters, RegistryTypeOK
<1>1. /\ \A c \in Launchers : start[c].pc = "idle" 
      /\ \A e \in Enders : stop[e].pc = "idle"
      /\ todo' = {} /\ Restorer \in Starters
  BY DEF Shutdown, Starters
<1>2. UNCHANGED <<row, stop, late, skipped, crashes>>
  BY DEF Shutdown
<1>3. \A c \in Starters :
        /\ start'[c].pc = IF c = Restorer THEN "down" ELSE "idle"
        /\ start'[c].session = None /\ start'[c].victim = None
  BY DEF Shutdown, RestorerAt, IdleStart
<1>4. \A t \in Sessions :
        /\ monitors'[t] = None /\ observers'[t] = None
        /\ \A c \in Starters :
             /\ c \in watching'[t] <=> c \in watching[t] /\ c # monitors[t]
             /\ c \in polling'[t] <=> c \in polling[t] /\ c \notin {observers[t], start[Restorer].victim}
  BY DEF Shutdown, StopRegistered
<1>5. RegistryTypeOK'
  BY <1>2 DEF RegistryTypeOK, Shutdown, StopRegistered, RestorerAt, IdleStart
<1>6. Shaped'
  BY <1>0, <1>1, <1>2, <1>3, <1>4 DEF Shaped
<1>7. Begun'
  BY <1>0, <1>1, <1>2, <1>3, <1>4 DEF Begun
<1>8. Polls'
  BY <1>0, <1>1, <1>2, <1>3, <1>4 DEF Polls
<1>9. NamedOnce'
  BY <1>0, <1>1, <1>2, <1>3, <1>4 DEF NamedOnce, MayWatch, MayPoll, Ahead
<1>10. Accounted'
  BY <1>0, <1>1, <1>2, <1>3, <1>4 DEF Accounted
<1>11. Alone'
  BY <1>0, <1>1, <1>2, <1>3, <1>4 DEF Alone, Starting
<1>12. Live'
  BY <1>0, <1>1, <1>2, <1>3, <1>4 DEF Live, Down, Starting, Stopping
<1>13. Silent'
  BY <1>0, <1>1, <1>2, <1>3, <1>4 DEF Silent, Down, Accounted
<1> QED  BY <1>5, <1>6, <1>7, <1>8, <1>9, <1>10, <1>11, <1>12, <1>13

\* A new process: nothing polls, and the restoration is due.
LEMMA RestartInv ==
  ASSUME RegistryInv, RestartRegistry
  PROVE  RegistryInv'
<1> USE DEF RegistryInv, StartAt, StopAt, StopsOf, Undoes
<1>0. /\ Starters = Launchers \cup {Restorer} /\ Restorer \notin Launchers
      /\ None \notin Sessions /\ None \notin Starters
      /\ todo \subseteq Sessions
      /\ \A s \in Sessions :
           /\ watching[s] \subseteq Starters /\ polling[s] \subseteq Starters
           /\ monitors[s] \in Starters \cup {None} /\ observers[s] \in Starters \cup {None}
  BY RegistryAssumption DEF Starters, RegistryTypeOK
<1>1. todo' = {} /\ late' = {} /\ UNCHANGED <<row, skipped>> /\ Restorer \in Starters
  BY DEF RestartRegistry, Starters
<1>2. \A c \in Starters :
        /\ start'[c].pc = IF c = Restorer THEN "select" ELSE "idle"
        /\ start'[c].session = None /\ start'[c].victim = None
  BY DEF RestartRegistry, Fresh, RestorerAt, IdleStart
<1>3. \A e \in Enders : stop'[e].pc = "idle" /\ stop'[e].session = None
  BY DEF RestartRegistry, IdleStop
<1>4. \A t \in Sessions :
        /\ monitors'[t] = None /\ observers'[t] = None
        /\ \A c \in Starters : c \notin watching'[t] /\ c \notin polling'[t]
  BY DEF RestartRegistry, Forgotten
<1>5. RegistryTypeOK'
  BY <1>1, RegistryAssumption DEF RegistryTypeOK, RestartRegistry, Forgotten, Fresh, RestorerAt, IdleStart, IdleStop
<1>6. Shaped'
  BY <1>0, <1>1, <1>2, <1>3, <1>4 DEF Shaped
<1>7. Begun'
  BY <1>0, <1>1, <1>2, <1>3, <1>4 DEF Begun
<1>8. Polls'
  BY <1>0, <1>1, <1>2, <1>3, <1>4 DEF Polls
<1>9. NamedOnce'
  BY <1>0, <1>1, <1>2, <1>3, <1>4 DEF NamedOnce, MayWatch, MayPoll, Ahead
<1>10. Accounted'
  BY <1>0, <1>1, <1>2, <1>3, <1>4 DEF Accounted
<1>11. Alone'
  BY <1>0, <1>1, <1>2, <1>3, <1>4 DEF Alone, Starting
<1>12. Live'
  BY <1>0, <1>1, <1>2, <1>3, <1>4 DEF Live, Down, Starting, Stopping
<1>13. Silent'
  BY <1>0, <1>1, <1>2, <1>3, <1>4 DEF Silent, Down
<1> QED  BY <1>5, <1>6, <1>7, <1>8, <1>9, <1>10, <1>11, <1>12, <1>13

\* In a process that has just begun nothing is registered and nothing polls.
LEMMA RegistryInitInv == RegistryInit => RegistryInv
<1> SUFFICES ASSUME RegistryInit PROVE RegistryInv
  OBVIOUS
<1> USE DEF RegistryInit, StartAt, StopAt, StopsOf, Undoes
<1>1. Restorer \in Starters /\ None \notin Starters \cup Sessions
  BY RegistryAssumption DEF Starters
<1>2. \A c \in Starters :
        /\ start[c].pc = IF c = Restorer THEN "select" ELSE "idle"
        /\ start[c].session = None /\ start[c].victim = None
  BY DEF Fresh, RestorerAt, IdleStart
<1>3. \A e \in Enders : stop[e].pc = "idle" /\ stop[e].session = None
  BY DEF IdleStop
<1>4. RegistryTypeOK
  BY RegistryAssumption DEF RegistryTypeOK, Fresh, RestorerAt, IdleStart, IdleStop
<1>5. Shaped /\ Begun
  BY <1>1, <1>2, <1>3 DEF Shaped, Begun
<1>6. Polls /\ NamedOnce
  BY <1>1, <1>2, <1>3 DEF Polls, NamedOnce
<1>7. Accounted /\ Alone /\ Live /\ Silent
  BY <1>1, <1>2, <1>3 DEF Accounted, Alone, Live, Silent, Down
<1> QED  BY <1>4, <1>5, <1>6, <1>7 DEF RegistryInv

\* Every step keeps the invariant.
LEMMA RegistryNextInv == RegistryInv /\ [RegistryNext]_registryVars => RegistryInv'
<1> SUFFICES ASSUME RegistryInv, [RegistryNext]_registryVars
             PROVE  RegistryInv'
  OBVIOUS
<1>1. ASSUME NEW c \in Starters, StartStep(c)
      PROVE  RegistryInv'
  BY <1>1, StartCalledInv, StartObserverInv, StartMonitorInv, StartFailsInv, StartUndoneInv
     DEF StartStep
<1>2. ASSUME NEW e \in Enders, StopStep(e)
      PROVE  RegistryInv'
  BY <1>2, StopMonitorInv, StopObserverInv, MarkEndedInv DEF StopStep
<1>3. CASE UNCHANGED registryVars
  <2> USE <1>3 DEF registryVars, RegistryInv, StartAt, StopAt, StopsOf, Undoes
  <2>1. RegistryTypeOK' /\ Shaped' /\ Begun'
    BY DEF RegistryTypeOK, Shaped, Begun
  <2>2. Polls' /\ NamedOnce'
    BY DEF Polls, NamedOnce, MayWatch, MayPoll, Ahead
  <2>3. Accounted' /\ Alone' /\ Live' /\ Silent'
    BY DEF Accounted, Alone, Live, Silent, Down, Starting, Stopping
  <2> QED  BY <2>1, <2>2, <2>3
<1> QED  BY <1>1, <1>2, <1>3, LaunchInv, RestoreSelectInv, RestoreNextInv, EndWatchedInv,
            ShutdownInv, RestartInv DEF RegistryNext

\* The invariant gives what is promised of the registry.
LEMMA RegistryInvSuffices == RegistryInv => Registered
<1> SUFFICES ASSUME RegistryInv PROVE Registered
  OBVIOUS
<1> USE DEF RegistryInv
<1>1. \A e \in Enders, s \in Sessions, c \in Starters, pc \in {"monitor", "observer"} :
        StopsOf(e, pc, s, c) => stop[e] = [pc |-> pc, session |-> s, victim |-> c]
  BY DEF RegistryTypeOK, StopsOf, StopAt
<1>2. \A d \in Starters, s \in Sessions, c \in Starters :
        Undoes(d, s, c) => start[d] = [pc |-> "undo", session |-> s, victim |-> c]
  BY DEF RegistryTypeOK, Undoes, StartAt
<1>3. ASSUME NEW s \in Sessions \ late, NEW c \in watching[s]
      PROVE  \/ monitors[s] = c
             \/ \E e \in Enders : stop[e] = [pc |-> "monitor", session |-> s, victim |-> c]
  <2>1. c \in Starters
    BY DEF RegistryTypeOK
  <2> QED  BY <1>1, <2>1 DEF Accounted
<1>4. ASSUME NEW s \in Sessions \ late, NEW c \in polling[s]
      PROVE  \/ observers[s] = c
             \/ \E e \in Enders : stop[e] = [pc |-> "observer", session |-> s, victim |-> c]
             \/ \E d \in Starters : start[d] = [pc |-> "undo", session |-> s, victim |-> c]
  <2>1. c \in Starters
    BY DEF RegistryTypeOK
  <2> QED  BY <1>1, <1>2, <2>1 DEF Accounted
<1>5. \A s \in Sessions \ late : Down => watching[s] = {} /\ polling[s] = {}
  <2>1. \A s \in Sessions : watching[s] \subseteq Starters /\ polling[s] \subseteq Starters
    BY DEF RegistryTypeOK
  <2> QED  BY <2>1 DEF Silent
<1>6. LiveIsWatched
  BY DEF LiveIsWatched, Live, Polls
<1> QED  BY <1>3, <1>4, <1>5, <1>6 DEF Registered

\* For any sessions, launches, ends and restarts, whatever fails or overlaps: all
\* that polls is registered or about to be stopped, unless the restoration has
\* started the session after its launch; nothing polls after stop_all; and every
\* live session that is not given up is watched.
THEOREM RegisteredAlways == RegistrySpec => []Registered
<1>1. RegistryInit => RegistryInv
  BY RegistryInitInv
<1>2. RegistryInv /\ [RegistryNext]_registryVars => RegistryInv'
  BY RegistryNextInv
<1>3. RegistryInv => Registered
  BY RegistryInvSuffices
<1> QED  BY <1>1, <1>2, <1>3, PTL DEF RegistrySpec
-----------------------------------------------------------------------------
(* What is shown of a session while it happens *)

Handlers == [on : BOOLEAN, queue : Seq(Nat), shown : Seq(Nat), from : Nat, missed : SUBSET Nat]

FeedTyped ==
  /\ feed \in {"activity", "hints"} /\ emitted \in Nat /\ since \in Nat /\ slips \in Nat /\ hints \in Nat
  /\ writes \in Seq(Nat) /\ writer.pc \in {"idle", "write", "prune"} /\ (writer.pc = "write" => writer.event \in Nat)
  /\ socket \in [Sockets -> Handlers]
  /\ sending \subseteq Sockets /\ (feed = "activity" => sending = {})

\* Every event is saved, on its way or lost.
EventsAccounted == 1 .. emitted = saved \cup Pending \cup lost

\* The rows grow by what was saved since the last prune, and by a period for each slip.
RowsBounded ==
  /\ kept \subseteq saved
  /\ \A e \in saved \ kept : Cardinality({d \in saved : d > e}) >= Retention
  /\ since < PruneEvery
  /\ Cardinality(kept) <= Retention + slips * PruneEvery + (IF writer.pc = "prune" THEN PruneEvery ELSE since)

\* A handler that watches the activity holds the events since it came, those that were
\* shown before those that wait.
Watches(h, n) ==
  /\ h.from <= n
  /\ InOrder(h.shown) /\ InOrder(h.queue)
  /\ \A x \in ToSet(h.shown), y \in ToSet(h.queue) : x < y
  /\ ToSet(h.shown) \cup ToSet(h.queue) \cup h.missed = h.from + 1 .. n

\* A tab was shown the interventions since it came, but for the one under way.
Told(h, n) ==
  /\ h.from <= n
  /\ InOrder(h.shown)
  /\ ToSet(h.shown) = h.from + 1 .. n

SocketsServed ==
  /\ sending # {} => hints > 0
  /\ \A s \in Sockets : socket[s].on =>
       /\ s \in registry
       /\ feed = "activity" => Watches(socket[s], emitted)
       /\ feed = "hints" => Told(socket[s], IF s \in sending THEN hints - 1 ELSE hints)

FeedInv == FeedTyped /\ EventsAccounted /\ RowsBounded /\ SocketsServed

\* What a sequence of numbers holds.
LEMMA Elements ==
  ASSUME NEW s \in Seq(Nat)
  PROVE  Len(s) \in Nat /\ DOMAIN s = 1 .. Len(s) /\ (\A i \in 1 .. Len(s) : s[i] \in Nat) /\ ToSet(s) \subseteq Nat
<1>1. Len(s) \in Nat /\ DOMAIN s = 1 .. Len(s) /\ \A i \in 1 .. Len(s) : s[i] \in Nat BY LenProperties, ElementOfSeq
<1> QED BY <1>1 DEF ToSet

\* Nothing is held in an empty queue.
LEMMA NothingHeld == <<>> \in Seq(Nat) /\ ToSet(<<>>) = {} /\ InOrder(<<>>)
<1>1. <<>> \in Seq(Nat) /\ DOMAIN <<>> = {} BY EmptySeq
<1> QED BY <1>1 DEF ToSet, InOrder

\* A number comes last.
LEMMA AddedLast ==
  ASSUME NEW s \in Seq(Nat), NEW x \in Nat
  PROVE  /\ Append(s, x) \in Seq(Nat) /\ ToSet(Append(s, x)) = ToSet(s) \cup {x}
         /\ InOrder(s) /\ (\A y \in ToSet(s) : y < x) => InOrder(Append(s, x))
<1>1. PICK n, t : n = Len(s) /\ t = Append(s, x) OBVIOUS
<1>2. n \in Nat /\ DOMAIN s = 1 .. n /\ \A i \in 1 .. n : s[i] \in Nat BY <1>1, Elements
<1>3. t \in Seq(Nat) /\ Len(t) = n + 1 /\ (\A i \in 1 .. n : t[i] = s[i]) /\ t[n + 1] = x BY <1>1, AppendProperties
<1>4. DOMAIN t = 1 .. n + 1 BY <1>2, <1>3, LenProperties
<1>5. \A i \in 1 .. n + 1 : i \in 1 .. n \/ i = n + 1 BY <1>2
<1>6. n + 1 \in 1 .. n + 1 /\ \A i \in 1 .. n : i \in 1 .. n + 1 BY <1>2
<1>7. ToSet(t) = ToSet(s) \cup {x} BY <1>2, <1>3, <1>4, <1>5, <1>6 DEF ToSet
<1>8. ASSUME InOrder(s), \A y \in ToSet(s) : y < x PROVE InOrder(t)
  <2> SUFFICES ASSUME NEW i \in 1 .. n + 1, NEW j \in 1 .. n + 1, i < j PROVE t[i] < t[j] BY <1>4 DEF InOrder
  <2>1. i \in 1 .. n BY <1>2
  <2>2. CASE j \in 1 .. n
    <3>1. s[i] < s[j] BY <1>2, <1>8, <2>1, <2>2 DEF InOrder
    <3> QED BY <1>3, <2>1, <2>2, <3>1
  <2>3. CASE j = n + 1
    <3>1. s[i] \in ToSet(s) BY <1>2, <2>1 DEF ToSet
    <3>2. t[i] = s[i] /\ t[j] = x BY <1>3, <2>1, <2>3
    <3> QED BY <1>8, <3>1, <3>2
  <2> QED BY <1>5, <2>2, <2>3
<1> QED BY <1>1, <1>3, <1>7, <1>8

\* The first number is taken.
LEMMA FirstTaken ==
  ASSUME NEW s \in Seq(Nat), s # <<>>
  PROVE  /\ Head(s) \in Nat /\ Tail(s) \in Seq(Nat) /\ ToSet(s) = {Head(s)} \cup ToSet(Tail(s))
         /\ InOrder(s) => InOrder(Tail(s)) /\ \A y \in ToSet(Tail(s)) : Head(s) < y
<1>1. PICK n, t, h : n = Len(s) /\ t = Tail(s) /\ h = Head(s) OBVIOUS
<1>2. n \in Nat /\ DOMAIN s = 1 .. n /\ \A i \in 1 .. n : s[i] \in Nat BY <1>1, Elements
<1>3. h \in Nat /\ t \in Seq(Nat) /\ Len(t) = n - 1 /\ (\A i \in 1 .. Len(t) : t[i] = s[i + 1]) /\ h = s[1] /\ n > 0
  BY <1>1, <1>2, HeadTailProperties, EmptySeq
<1>4. DOMAIN t = 1 .. (n - 1) /\ \A i \in 1 .. (n - 1) : t[i] = s[i + 1] BY <1>2, <1>3, LenProperties
<1>5. ToSet(s) = {h} \cup ToSet(t)
  <2>1. ASSUME NEW i \in 1 .. n PROVE s[i] = h \/ s[i] \in ToSet(t)
    <3>1. CASE i = 1 BY <1>3, <3>1
    <3>2. CASE i # 1
      <4>1. i - 1 \in 1 .. (n - 1) /\ (i - 1) + 1 = i BY <1>2, <3>2
      <4>2. t[i - 1] = s[i] BY <1>4, <4>1
      <4> QED BY <1>4, <4>1, <4>2 DEF ToSet
    <3> QED BY <3>1, <3>2
  <2>2. h \in ToSet(s) BY <1>2, <1>3 DEF ToSet
  <2>3. ASSUME NEW i \in 1 .. (n - 1) PROVE t[i] \in ToSet(s)
    <3>1. i + 1 \in 1 .. n /\ t[i] = s[i + 1] BY <1>2, <1>4
    <3> QED BY <1>2, <3>1 DEF ToSet
  <2>4. ToSet(s) \subseteq {h} \cup ToSet(t) BY <1>2, <2>1 DEF ToSet
  <2>5. ToSet(t) \subseteq ToSet(s) BY <1>4, <2>3 DEF ToSet
  <2> QED BY <2>2, <2>4, <2>5
<1>6. ASSUME InOrder(s) PROVE InOrder(t) /\ \A y \in ToSet(t) : h < y
  <2>1. \A i \in 1 .. (n - 1) : i + 1 \in 1 .. n /\ t[i] = s[i + 1] /\ 1 < i + 1 BY <1>2, <1>4
  <2>a. \A i, j \in 1 .. n : i < j => s[i] < s[j] BY <1>2, <1>6 DEF InOrder
  <2>2. InOrder(t)
    <3> SUFFICES ASSUME NEW i \in 1 .. (n - 1), NEW j \in 1 .. (n - 1), i < j PROVE t[i] < t[j]
      BY <1>4 DEF InOrder
    <3>1. i + 1 < j + 1 /\ t[i] = s[i + 1] /\ t[j] = s[j + 1] /\ i + 1 \in 1 .. n /\ j + 1 \in 1 .. n BY <2>1
    <3>2. s[i + 1] < s[j + 1] BY <2>a, <3>1
    <3> QED BY <3>1, <3>2
  <2>3. ASSUME NEW i \in 1 .. (n - 1) PROVE h < t[i]
    <3>1. 1 < i + 1 /\ t[i] = s[i + 1] /\ i + 1 \in 1 .. n /\ 1 \in 1 .. n BY <1>2, <2>1
    <3>2. s[1] < s[i + 1] BY <2>a, <3>1
    <3> QED BY <1>3, <3>1, <3>2
  <2> QED BY <1>4, <2>2, <2>3 DEF ToSet
<1> QED BY <1>1, <1>3, <1>5, <1>6

\* Two queues, one behind the other.
LEMMA BothHeld ==
  ASSUME NEW s \in Seq(Nat), NEW t \in Seq(Nat) PROVE ToSet(s \o t) = ToSet(s) \cup ToSet(t)
<1>1. PICK m, n, u : m = Len(s) /\ n = Len(t) /\ u = s \o t OBVIOUS
<1>2. m \in Nat /\ n \in Nat /\ DOMAIN s = 1 .. m /\ DOMAIN t = 1 .. n BY <1>1, Elements
<1>3. /\ u \in Seq(Nat) /\ Len(u) = m + n
      /\ \A i \in 1 .. m + n : u[i] = IF i <= m THEN s[i] ELSE t[i - m]
  BY <1>1, ConcatProperties
<1>4. DOMAIN u = 1 .. m + n BY <1>2, <1>3, Elements
<1>5. \A i \in 1 .. m : i \in 1 .. m + n /\ u[i] = s[i] BY <1>2, <1>3
<1>6. ASSUME NEW i \in 1 .. n PROVE m + i \in 1 .. m + n /\ u[m + i] = t[i]
  <2>1. m + i \in 1 .. m + n /\ ~(m + i <= m) /\ (m + i) - m = i BY <1>2
  <2> QED BY <1>3, <2>1
<1>7. ASSUME NEW i \in 1 .. m + n PROVE u[i] \in ToSet(s) \cup ToSet(t)
  <2>1. CASE i <= m
    <3>1. i \in 1 .. m /\ u[i] = s[i] BY <1>2, <1>3, <2>1
    <3> QED BY <1>2, <3>1 DEF ToSet
  <2>2. CASE ~(i <= m)
    <3>1. i - m \in 1 .. n /\ u[i] = t[i - m] BY <1>2, <1>3, <2>2
    <3> QED BY <1>2, <3>1 DEF ToSet
  <2> QED BY <2>1, <2>2
<1>8. ToSet(u) \subseteq ToSet(s) \cup ToSet(t) BY <1>4, <1>7 DEF ToSet
<1>9. ToSet(s) \subseteq ToSet(u) BY <1>2, <1>4, <1>5 DEF ToSet
<1>10. ToSet(t) \subseteq ToSet(u) BY <1>2, <1>4, <1>6 DEF ToSet
<1> QED BY <1>1, <1>8, <1>9, <1>10

\* A set of numbers that is not empty has a least one.
LEMMA Least ==
  ASSUME NEW S, S \subseteq Nat, S # {} PROVE \E x \in S : \A y \in S : x <= y
<1>1. PICK x \in S : \A y \in S : ~(<<y, x>> \in OpToRel(<, Nat))
  BY NatLessThanWellFounded, WFMin
<1>2. \A y \in S : ~(y < x) BY <1>1 DEF OpToRel
<1> QED BY <1>2

\* A prune leaves no more than are retained, and takes only what so many newer ones follow.
LEMMA Pruned ==
  ASSUME NEW K, K \subseteq Nat, IsFiniteSet(K)
  PROVE  Cardinality(K \ Beyond(K)) <= Retention
<1> DEFINE Newer(e) == {d \in K : d > e}
           U == {e \in K : ~(Cardinality(Newer(e)) >= Retention)}
<1>1. K \ Beyond(K) = U BY DEF Beyond
<1>2. Retention \in Nat /\ Retention > 0 BY FeedAssumption
<1>3. CASE U = {}
  <2>1. Cardinality(U) = 0 BY <1>3, FS_EmptySet
  <2> HIDE DEF U
  <2> QED BY <1>1, <1>2, <2>1
<1>4. CASE U # {}
  <2>1. PICK m \in U : \A y \in U : m <= y
    <3>1. U \subseteq Nat OBVIOUS
    <3> HIDE DEF U
    <3> QED BY <1>4, <3>1, Least
  <2>2. IsFiniteSet(Newer(m)) BY FS_Subset
  <2>3. Cardinality(Newer(m)) \in Nat BY <2>2, FS_CardinalityType
  <2>4. Cardinality(Newer(m)) + 1 <= Retention BY <1>2, <2>3
  <2>5. U \subseteq Newer(m) \cup {m}
    <3> SUFFICES ASSUME NEW y \in U, y # m PROVE y \in Newer(m) OBVIOUS
    <3>1. y \in Nat /\ m \in Nat /\ m <= y /\ y \in K BY <2>1
    <3> QED BY <3>1
  <2>6. IsFiniteSet(Newer(m) \cup {m}) /\ Cardinality(Newer(m) \cup {m}) = Cardinality(Newer(m)) + 1
    <3>1. m \notin Newer(m) OBVIOUS
    <3> HIDE DEF Newer
    <3> QED BY <2>2, <3>1, FS_AddElement
  <2>7. Cardinality(U) <= Cardinality(Newer(m) \cup {m}) /\ Cardinality(U) \in Nat
    <3> HIDE DEF U, Newer
    <3> QED BY <2>5, <2>6, FS_Subset, FS_CardinalityType
  <2>8. Cardinality(U) <= Retention
    <3> HIDE DEF U, Newer
    <3> QED BY <1>2, <2>3, <2>4, <2>6, <2>7
  <2> QED BY <1>1, <2>8
<1> QED BY <1>3, <1>4

\* What is saved are events, and there are finitely many.
LEMMA SavedFinite ==
  ASSUME FeedTyped, EventsAccounted, RowsBounded
  PROVE  /\ saved \subseteq 1 .. emitted /\ Pending \subseteq 1 .. emitted /\ lost \subseteq 1 .. emitted
         /\ saved \subseteq Nat /\ kept \subseteq saved
         /\ IsFiniteSet(saved) /\ IsFiniteSet(kept) /\ Cardinality(kept) \in Nat
<1>1. emitted \in Int /\ 1 \in Int BY DEF FeedTyped
<1>2. IsFiniteSet(1 .. emitted) BY <1>1, FS_Interval
<1>3. saved \subseteq 1 .. emitted /\ Pending \subseteq 1 .. emitted /\ lost \subseteq 1 .. emitted BY DEF EventsAccounted
<1>4. kept \subseteq saved BY DEF RowsBounded
<1>5. IsFiniteSet(saved) BY <1>2, <1>3, FS_Subset
<1>6. IsFiniteSet(kept) BY <1>4, <1>5, FS_Subset
<1>7. Cardinality(kept) \in Nat BY <1>6, FS_CardinalityType
<1> QED BY <1>1, <1>3, <1>4, <1>5, <1>6, <1>7

\* More events to compare with are no fewer newer ones.
LEMMA NewerGrow ==
  ASSUME NEW S, NEW T, S \subseteq T, IsFiniteSet(T), NEW e, Cardinality({d \in S : d > e}) >= Retention
  PROVE  Cardinality({d \in T : d > e}) >= Retention
<1>0. PICK A, B : A = {d \in S : d > e} /\ B = {d \in T : d > e} OBVIOUS
<1>1. A \subseteq B /\ B \subseteq T BY <1>0
<1>2. IsFiniteSet(B) BY <1>1, FS_Subset
<1>3. Cardinality(A) <= Cardinality(B) /\ Cardinality(A) \in Nat /\ Cardinality(B) \in Nat
  BY <1>1, <1>2, FS_Subset, FS_CardinalityType
<1>4. Retention \in Nat BY FeedAssumption
<1>5. Cardinality(A) >= Retention BY <1>0
<1>6. Cardinality(B) >= Retention BY <1>3, <1>4, <1>5
<1> QED BY <1>0, <1>6

\* The bound of the rows, and what a further slip adds to it.
LEMMA Periods ==
  ASSUME NEW n \in Nat
  PROVE  n * PruneEvery \in Nat /\ (n + 1) * PruneEvery = n * PruneEvery + PruneEvery
<1>1. PruneEvery \in Nat BY FeedAssumption
<1> QED BY <1>1

\* What the sockets are served is left alone.
LEMMA ServedStays ==
  ASSUME SocketsServed, UNCHANGED <<feed, emitted, socket, registry, hints, sending>>
  PROVE  SocketsServed'
BY DEF SocketsServed, Watches, Told, InOrder, ToSet

\* The writer takes an event.
LEMMA TakesPart == ASSUME FeedInv, WriterTakes PROVE FeedInv'
<1>0. FeedTyped /\ EventsAccounted /\ RowsBounded /\ SocketsServed BY DEF FeedInv
<1>1. /\ writer.pc = "idle" /\ writes # <<>> /\ writes \in Seq(Nat)
      /\ UNCHANGED <<feed, emitted, since, saved, kept, slips, lost, socket, registry, hints, sending>>
  BY <1>0 DEF WriterTakes, FeedTyped
<1>2. PICK h : h = Head(writes) OBVIOUS
<1>3. PICK t : t = Tail(writes) OBVIOUS
<1>4. h \in Nat /\ t \in Seq(Nat) /\ ToSet(writes) = {h} \cup ToSet(t) BY <1>1, <1>2, <1>3, FirstTaken
<1>5. writer'.pc = "write" /\ writer'.event = h /\ writes' = t BY <1>2, <1>3 DEF WriterTakes
<1>6. FeedTyped' BY <1>0, <1>1, <1>4, <1>5 DEF FeedTyped
<1>7. Pending = ToSet(writes) BY <1>1 DEF Pending
<1>8. Pending' = ToSet(t) \cup {h} BY <1>5 DEF Pending
<1>9. EventsAccounted' BY <1>0, <1>1, <1>4, <1>7, <1>8 DEF EventsAccounted
<1>10. RowsBounded' BY <1>0, <1>1, <1>5 DEF RowsBounded
<1>11. SocketsServed' BY <1>0, <1>1, ServedStays
<1> QED BY <1>6, <1>9, <1>10, <1>11 DEF FeedInv

\* A row is committed.
LEMMA PersistPart == ASSUME FeedInv, PersistActivity PROVE FeedInv'
<1>0. FeedTyped /\ EventsAccounted /\ RowsBounded /\ SocketsServed BY DEF FeedInv
<1>1. /\ writer.pc = "write" /\ writer.event \in Nat /\ since \in Nat /\ slips \in Nat /\ since < PruneEvery
      /\ UNCHANGED <<feed, emitted, writes, slips, lost, socket, registry, hints, sending>>
  BY <1>0 DEF PersistActivity, FeedTyped, RowsBounded
<1>2. PICK e : e = writer.event OBVIOUS
<1>3. saved' = saved \cup {e} /\ kept' = kept \cup {e} BY <1>2 DEF PersistActivity
<1>4. PruneEvery \in Nat /\ PruneEvery > 0 /\ Retention \in Nat BY FeedAssumption
<1>5. \/ since + 1 = PruneEvery /\ since' = 0 /\ writer'.pc = "prune"
      \/ since + 1 < PruneEvery /\ since' = since + 1 /\ writer'.pc = "idle"
  BY <1>1, <1>4 DEF PersistActivity, Idle
<1>6. FeedTyped' BY <1>0, <1>1, <1>5 DEF FeedTyped
<1>7. Pending = ToSet(writes) \cup {e} /\ Pending' = ToSet(writes) BY <1>1, <1>2, <1>5 DEF Pending
<1>8. EventsAccounted' BY <1>0, <1>1, <1>3, <1>7 DEF EventsAccounted
<1>9. saved \subseteq Nat /\ kept \subseteq saved /\ IsFiniteSet(saved) /\ IsFiniteSet(kept) /\ Cardinality(kept) \in Nat
  BY <1>0, SavedFinite
<1>10. PICK S, T : S = saved /\ T = saved \cup {e} OBVIOUS
<1>11. IsFiniteSet(S) /\ IsFiniteSet(T) /\ S \subseteq T BY <1>9, <1>10, FS_AddElement
<1>12. \A d \in saved' \ kept' : Cardinality({x \in saved' : x > d}) >= Retention
  <2> TAKE d \in saved' \ kept'
  <2>1. d \in saved \ kept BY <1>3
  <2>2. Cardinality({x \in S : x > d}) >= Retention BY <1>0, <1>10, <2>1 DEF RowsBounded
  <2>3. Cardinality({x \in T : x > d}) >= Retention BY <1>11, <2>2, NewerGrow
  <2> QED BY <1>3, <1>10, <2>3
<1>13. Cardinality(kept') <= Cardinality(kept) + 1
  <2>1. Cardinality(kept \cup {e}) = (IF e \in kept THEN Cardinality(kept) ELSE Cardinality(kept) + 1)
    BY <1>9, FS_AddElement
  <2> QED BY <1>3, <1>9, <2>1
<1>14. Cardinality(kept) <= Retention + slips * PruneEvery + since BY <1>0, <1>1 DEF RowsBounded
<1>15. kept' \subseteq saved' /\ since' < PruneEvery BY <1>1, <1>3, <1>4, <1>5, <1>9
<1>16. PICK p, c : p = slips * PruneEvery /\ c = Cardinality(kept') OBVIOUS
<1>17. p \in Nat /\ c \in Nat
  <2>1. IsFiniteSet(kept \cup {e}) BY <1>9, FS_AddElement
  <2>2. Cardinality(kept \cup {e}) \in Nat BY <2>1, FS_CardinalityType
  <2> QED BY <1>1, <1>3, <1>16, <2>2, Periods
<1>18. c <= Retention + p + since + 1 BY <1>1, <1>4, <1>9, <1>13, <1>14, <1>16, <1>17
<1>19. c <= Retention + p + (IF writer'.pc = "prune" THEN PruneEvery ELSE since')
  <2>1. PICK m, w : m = since /\ w = since' OBVIOUS
  <2>2. m \in Nat /\ c <= Retention + p + m + 1 BY <1>1, <1>18, <2>1
  <2>3. CASE m + 1 = PruneEvery /\ writer'.pc = "prune" BY <1>4, <1>17, <2>2, <2>3
  <2>4. CASE w = m + 1 /\ writer'.pc = "idle" BY <1>4, <1>17, <2>1, <2>2, <2>4
  <2> QED BY <1>5, <2>1, <2>3, <2>4
<1>20. RowsBounded' BY <1>1, <1>12, <1>15, <1>16, <1>19 DEF RowsBounded
<1>21. SocketsServed' BY <1>0, <1>1, ServedStays
<1> QED BY <1>6, <1>8, <1>20, <1>21 DEF FeedInv

\* A row cannot be written.
LEMMA LosesPart == ASSUME FeedInv, PersistFails PROVE FeedInv'
<1>0. FeedTyped /\ EventsAccounted /\ RowsBounded /\ SocketsServed BY DEF FeedInv
<1>1. /\ writer.pc = "write" /\ writer'.pc = "idle" /\ lost' = lost \cup {writer.event}
      /\ UNCHANGED <<feed, emitted, writes, since, saved, kept, slips, socket, registry, hints, sending>>
  BY DEF PersistFails, Idle
<1>2. FeedTyped' BY <1>0, <1>1 DEF FeedTyped
<1>3. Pending = ToSet(writes) \cup {writer.event} /\ Pending' = ToSet(writes) BY <1>1 DEF Pending
<1>4. EventsAccounted' BY <1>0, <1>1, <1>3 DEF EventsAccounted
<1>5. RowsBounded' BY <1>0, <1>1 DEF RowsBounded
<1>6. SocketsServed' BY <1>0, <1>1, ServedStays
<1> QED BY <1>2, <1>4, <1>5, <1>6 DEF FeedInv

\* A prune.
LEMMA PrunePart == ASSUME FeedInv, Prune PROVE FeedInv'
<1>0. FeedTyped /\ EventsAccounted /\ RowsBounded /\ SocketsServed BY DEF FeedInv
<1>1. /\ writer.pc = "prune" /\ writer'.pc = "idle" /\ kept' = kept \ Beyond(kept)
      /\ UNCHANGED <<feed, emitted, writes, since, saved, slips, lost, socket, registry, hints, sending>>
  BY DEF Prune, Idle
<1>2. FeedTyped' BY <1>0, <1>1 DEF FeedTyped
<1>3. Pending = ToSet(writes) /\ Pending' = ToSet(writes) BY <1>1 DEF Pending
<1>4. EventsAccounted' BY <1>0, <1>1, <1>3 DEF EventsAccounted
<1>5. saved \subseteq Nat /\ kept \subseteq saved /\ IsFiniteSet(saved) /\ IsFiniteSet(kept) /\ Cardinality(kept) \in Nat
  BY <1>0, SavedFinite
<1>6. PICK K : K = kept OBVIOUS
<1>7. PICK R, S : R = K \ Beyond(K) /\ S = saved OBVIOUS
<1>8. kept' = R /\ R \subseteq kept BY <1>1, <1>6, <1>7 DEF Beyond
<1>9. Cardinality(R) <= Retention BY <1>5, <1>6, <1>7, Pruned
<1>10. \A d \in saved' \ kept' : Cardinality({x \in saved' : x > d}) >= Retention
  <2> TAKE d \in saved' \ kept'
  <2>1. d \in saved BY <1>1
  <2>2. CASE d \in kept
    <3>1. d \in Beyond(K) BY <1>6, <1>7, <1>8, <2>2
    <3>2. Cardinality({x \in K : x > d}) >= Retention BY <3>1 DEF Beyond
    <3>3. Cardinality({x \in S : x > d}) >= Retention BY <1>5, <1>6, <1>7, <3>2, NewerGrow
    <3> QED BY <1>1, <1>7, <3>3
  <2>3. CASE d \notin kept
    <3>1. Cardinality({x \in saved : x > d}) >= Retention BY <1>0, <2>1, <2>3 DEF RowsBounded
    <3> QED BY <1>1, <3>1
  <2> QED BY <2>2, <2>3
<1>11. Cardinality(R) \in Nat /\ Retention \in Nat /\ slips \in Nat /\ since \in Nat
  <2>1. IsFiniteSet(R) BY <1>5, <1>8, FS_Subset
  <2> QED BY <1>0, <2>1, FeedAssumption, FS_CardinalityType DEF FeedTyped
<1>12. slips * PruneEvery \in Nat BY <1>11, Periods
<1>13. Cardinality(R) <= Retention + slips * PruneEvery + since BY <1>9, <1>11, <1>12
<1>14. kept' \subseteq saved' BY <1>1, <1>5, <1>8
<1>15. RowsBounded' BY <1>0, <1>1, <1>8, <1>10, <1>13, <1>14 DEF RowsBounded
<1>16. SocketsServed' BY <1>0, <1>1, ServedStays
<1> QED BY <1>2, <1>4, <1>15, <1>16 DEF FeedInv

\* The rows, when a prune fails or the process ends.
LEMMA SlipBounded ==
  ASSUME FeedTyped, EventsAccounted, RowsBounded, slips' = slips + 1, since' \in Nat, since' < PruneEvery, kept' = kept, saved' = saved,
         writer'.pc = "idle"
  PROVE  RowsBounded'
<1>1. PICK p, c : p = slips * PruneEvery /\ c = Cardinality(kept) OBVIOUS
<1>2. slips \in Nat /\ since \in Nat /\ PruneEvery \in Nat /\ Retention \in Nat BY FeedAssumption DEF FeedTyped
<1>3. p \in Nat /\ (slips + 1) * PruneEvery = p + PruneEvery BY <1>1, <1>2, Periods
<1>4. c \in Nat BY <1>1, SavedFinite
<1>5. c <= Retention + p + (IF writer.pc = "prune" THEN PruneEvery ELSE since) /\ since < PruneEvery BY <1>1 DEF RowsBounded
<1>6. c <= Retention + (p + PruneEvery) + since'
  <2>1. PICK m, w : m = since /\ w = since' OBVIOUS
  <2>2. m \in Nat /\ w \in Nat /\ m < PruneEvery BY <1>2, <1>5, <2>1
  <2>3. CASE writer.pc = "prune"
    <3>1. c <= Retention + p + PruneEvery BY <1>5, <2>3
    <3>2. c <= Retention + (p + PruneEvery) + w BY <1>2, <1>3, <1>4, <2>2, <3>1
    <3> QED BY <2>1, <3>2
  <2>4. CASE writer.pc # "prune"
    <3>1. c <= Retention + p + m BY <1>5, <2>1, <2>4
    <3>2. c <= Retention + (p + PruneEvery) + w BY <1>2, <1>3, <1>4, <2>2, <3>1
    <3> QED BY <2>1, <3>2
  <2> QED BY <2>3, <2>4
<1>7. Cardinality(kept') <= Retention + slips' * PruneEvery + since' BY <1>1, <1>3, <1>6
<1> QED BY <1>7 DEF RowsBounded

\* A prune that fails.
LEMMA SlipsPart == ASSUME FeedInv, PruneFails PROVE FeedInv'
<1>0. FeedTyped /\ EventsAccounted /\ RowsBounded /\ SocketsServed BY DEF FeedInv
<1>1. /\ writer.pc = "prune" /\ writer'.pc = "idle" /\ slips' = slips + 1 /\ slips \in Nat /\ since \in Nat /\ since < PruneEvery
      /\ UNCHANGED <<feed, emitted, writes, since, saved, kept, lost, socket, registry, hints, sending>>
  BY <1>0 DEF PruneFails, Idle, FeedTyped, RowsBounded
<1>2. FeedTyped' BY <1>0, <1>1 DEF FeedTyped
<1>3. Pending = ToSet(writes) /\ Pending' = ToSet(writes) BY <1>1 DEF Pending
<1>4. EventsAccounted' BY <1>0, <1>1, <1>3 DEF EventsAccounted
<1>5. RowsBounded' BY <1>0, <1>1, SlipBounded
<1>6. SocketsServed' BY <1>0, <1>1, ServedStays
<1> QED BY <1>2, <1>4, <1>5, <1>6 DEF FeedInv

\* Who is not there.
LEMMA GoneIs == Gone \in Handlers /\ ~Gone.on
BY NothingHeld DEF Gone, Handlers

\* The process ends.
LEMMA EndsPart == ASSUME FeedInv, NEW drained \in BOOLEAN, ProcessEnds(drained) PROVE FeedInv'
<1>0. FeedTyped /\ EventsAccounted /\ RowsBounded /\ SocketsServed BY DEF FeedInv
<1>1. /\ writer'.pc = "idle" /\ slips' = slips + 1 /\ slips \in Nat /\ since' = 0 /\ writes' = <<>> /\ lost' = lost \cup Pending
      /\ feed = "activity" /\ sending = {} /\ socket' = [s \in Sockets |-> Gone]
      /\ UNCHANGED <<feed, emitted, saved, kept, hints, sending>>
  BY <1>0 DEF ProcessEnds, Idle, FeedTyped, Pending
<1>2. FeedTyped' BY <1>0, <1>1, NothingHeld, GoneIs DEF FeedTyped
<1>3. Pending' = {} BY <1>1, NothingHeld DEF Pending
<1>4. EventsAccounted' BY <1>0, <1>1, <1>3 DEF EventsAccounted
<1>5. since' \in Nat /\ since' < PruneEvery BY <1>1, FeedAssumption
<1>6. RowsBounded' BY <1>0, <1>1, <1>5, SlipBounded
<1>7. SocketsServed' BY <1>1, GoneIs DEF SocketsServed
<1> QED BY <1>2, <1>4, <1>6, <1>7 DEF FeedInv

\* What is accounted for and what the rows are does not depend on the sockets.
LEMMA RowsStay ==
  ASSUME EventsAccounted, RowsBounded, emitted' = emitted, writes' = writes, writer' = writer, since' = since, saved' = saved,
         kept' = kept, slips' = slips, lost' = lost
  PROVE  EventsAccounted' /\ RowsBounded'
BY DEF EventsAccounted, RowsBounded, Pending

\* The handlers' columns, one by one.
LEMMA HandlerIs ==
  ASSUME NEW h \in Handlers
  PROVE  /\ h.on \in BOOLEAN /\ h.queue \in Seq(Nat) /\ h.shown \in Seq(Nat) /\ h.from \in Nat /\ h.missed \subseteq Nat
BY DEF Handlers

\* What a handler that watches holds has happened.
LEMMA WatchedPast ==
  ASSUME NEW h \in Handlers, NEW n \in Nat, Watches(h, n)
  PROVE  \A x \in ToSet(h.shown) \cup ToSet(h.queue) \cup h.missed : x \in Nat /\ x <= n
BY DEF Watches, Handlers

\* An event reaches a handler's queue.
LEMMA QueuedNext ==
  ASSUME NEW h \in Handlers, NEW n \in Nat, Watches(h, n), NEW g, g = [h EXCEPT !.queue = Append(h.queue, n + 1)]
  PROVE  g \in Handlers /\ g.on = h.on /\ Watches(g, n + 1)
<1>1. PICK q : q = Append(h.queue, n + 1) OBVIOUS
<1>2. h.queue \in Seq(Nat) /\ h.from \in Nat /\ n + 1 \in Nat BY HandlerIs
<1>3. \A x \in ToSet(h.shown) \cup ToSet(h.queue) \cup h.missed : x \in Nat /\ x <= n BY WatchedPast
<1>4. q \in Seq(Nat) /\ ToSet(q) = ToSet(h.queue) \cup {n + 1} BY <1>1, <1>2, AddedLast
<1>5. InOrder(q)
  <2>1. InOrder(h.queue) /\ \A y \in ToSet(h.queue) : y < n + 1 BY <1>3 DEF Watches
  <2> QED BY <1>1, <1>2, <2>1, AddedLast
<1>6. /\ g \in Handlers /\ g.on = h.on /\ g.queue = q /\ g.shown = h.shown /\ g.from = h.from /\ g.missed = h.missed
  BY <1>1, <1>4 DEF Handlers
<1>7. \A x \in ToSet(h.shown), y \in ToSet(q) : x < y BY <1>3, <1>4 DEF Watches
<1>8. ToSet(h.shown) \cup ToSet(q) \cup h.missed = h.from + 1 .. n + 1
  <2>1. h.from + 1 .. n + 1 = (h.from + 1 .. n) \cup {n + 1} BY <1>2 DEF Watches
  <2> QED BY <1>4, <2>1 DEF Watches
<1>9. h.from <= n + 1 BY <1>2 DEF Watches
<1>10. InOrder(h.shown) BY DEF Watches
<1>11. Watches(g, n + 1) BY <1>5, <1>6, <1>7, <1>8, <1>9, <1>10 DEF Watches
<1> QED BY <1>6, <1>11

\* An event finds a handler's queue full.
LEMMA MissedNext ==
  ASSUME NEW h \in Handlers, NEW n \in Nat, Watches(h, n), NEW g, g = [h EXCEPT !.missed = h.missed \cup {n + 1}]
  PROVE  g \in Handlers /\ g.on = h.on /\ Watches(g, n + 1)
<1>1. h.from \in Nat /\ n + 1 \in Nat BY HandlerIs
<1>2. /\ g \in Handlers /\ g.on = h.on /\ g.queue = h.queue /\ g.shown = h.shown /\ g.from = h.from
      /\ g.missed = h.missed \cup {n + 1}
  BY <1>1 DEF Handlers
<1>3. h.from + 1 .. n + 1 = (h.from + 1 .. n) \cup {n + 1} /\ h.from <= n + 1 BY <1>1 DEF Watches
<1> QED BY <1>2, <1>3 DEF Watches

\* An event is shown.
LEMMA ShownNext ==
  ASSUME NEW h \in Handlers, NEW n \in Nat, Watches(h, n), h.queue # <<>>,
         NEW g, g = [h EXCEPT !.shown = Append(h.shown, Head(h.queue)), !.queue = Tail(h.queue)]
  PROVE  g \in Handlers /\ g.on = h.on /\ Watches(g, n)
<1>1. PICK x : x = Head(h.queue) OBVIOUS
<1>2. PICK q : q = Tail(h.queue) OBVIOUS
<1>3. PICK w : w = Append(h.shown, x) OBVIOUS
<1>4. h.queue \in Seq(Nat) /\ h.shown \in Seq(Nat) BY HandlerIs
<1>5. InOrder(h.shown) /\ InOrder(h.queue) /\ \A a \in ToSet(h.shown), b \in ToSet(h.queue) : a < b BY DEF Watches
<1>6. x \in Nat /\ q \in Seq(Nat) /\ ToSet(h.queue) = {x} \cup ToSet(q) BY <1>1, <1>2, <1>4, FirstTaken
<1>7. InOrder(q) /\ \A y \in ToSet(q) : x < y BY <1>1, <1>2, <1>4, <1>5, FirstTaken
<1>8. w \in Seq(Nat) /\ ToSet(w) = ToSet(h.shown) \cup {x} BY <1>3, <1>4, <1>6, AddedLast
<1>9. InOrder(w)
  <2>1. \A y \in ToSet(h.shown) : y < x BY <1>5, <1>6
  <2> QED BY <1>3, <1>4, <1>5, <1>6, <2>1, AddedLast
<1>10. /\ g \in Handlers /\ g.on = h.on /\ g.queue = q /\ g.shown = w /\ g.from = h.from /\ g.missed = h.missed
  BY <1>1, <1>2, <1>3, <1>6, <1>8 DEF Handlers
<1>11. \A a \in ToSet(w), b \in ToSet(q) : a < b BY <1>5, <1>6, <1>7, <1>8
<1>12. ToSet(w) \cup ToSet(q) \cup h.missed = ToSet(h.shown) \cup ToSet(h.queue) \cup h.missed BY <1>6, <1>8
<1>13. h.from <= n /\ ToSet(h.shown) \cup ToSet(h.queue) \cup h.missed = h.from + 1 .. n BY DEF Watches
<1> QED BY <1>7, <1>9, <1>10, <1>11, <1>12, <1>13 DEF Watches

\* An intervention is sent.
LEMMA ToldNext ==
  ASSUME NEW h \in Handlers, NEW n \in Nat, n > 0, Told(h, n - 1), NEW g, g = [h EXCEPT !.shown = Append(h.shown, n)]
  PROVE  g \in Handlers /\ g.on = h.on /\ Told(g, n)
<1>1. PICK w : w = Append(h.shown, n) OBVIOUS
<1>2. h.shown \in Seq(Nat) /\ h.from \in Nat BY HandlerIs
<1>3. InOrder(h.shown) /\ ToSet(h.shown) = h.from + 1 .. (n - 1) /\ h.from <= n - 1 BY DEF Told
<1>4. w \in Seq(Nat) /\ ToSet(w) = ToSet(h.shown) \cup {n} BY <1>1, <1>2, AddedLast
<1>5. InOrder(w)
  <2>1. \A y \in ToSet(h.shown) : y < n BY <1>2, <1>3
  <2> QED BY <1>1, <1>2, <1>3, <2>1, AddedLast
<1>6. g \in Handlers /\ g.on = h.on /\ g.shown = w /\ g.from = h.from BY <1>1, <1>4 DEF Handlers
<1>7. (h.from + 1 .. (n - 1)) \cup {n} = h.from + 1 .. n /\ h.from <= n BY <1>2, <1>3
<1> QED BY <1>3, <1>4, <1>5, <1>6, <1>7 DEF Told

\* Who has just come has missed nothing.
LEMMA Arrived ==
  ASSUME NEW n \in Nat, NEW h, h = [Gone EXCEPT !.on = TRUE, !.from = n]
  PROVE  h \in Handlers /\ Watches(h, n) /\ Told(h, n)
<1>1. h.on = TRUE /\ h.queue = <<>> /\ h.shown = <<>> /\ h.from = n /\ h.missed = {} /\ h \in Handlers
  BY NothingHeld DEF Gone, Handlers
<1>2. n + 1 .. n = {} /\ n <= n OBVIOUS
<1> QED BY <1>1, <1>2, NothingHeld DEF Watches, Told

\* An event is emitted.
LEMMA EmitPart == ASSUME FeedInv, Emit PROVE FeedInv'
<1>0. FeedTyped /\ EventsAccounted /\ RowsBounded /\ SocketsServed BY DEF FeedInv
<1>1. PICK n : n = emitted OBVIOUS
<1>2. /\ n \in Nat /\ feed = "activity" /\ emitted' = n + 1
      /\ socket' = [s \in Sockets |->
           IF ~socket[s].on THEN socket[s]
           ELSE IF Len(socket[s].queue) < FrameQueue THEN [socket[s] EXCEPT !.queue = Append(socket[s].queue, n + 1)]
           ELSE [socket[s] EXCEPT !.missed = socket[s].missed \cup {n + 1}]]
      /\ UNCHANGED <<feed, writer, since, saved, kept, slips, registry, hints, sending>>
  BY <1>0, <1>1 DEF Emit, FeedTyped, Open
<1>3. \/ writes' = Append(writes, n + 1) /\ lost' = lost
      \/ lost' = lost \cup {n + 1} /\ writes' = writes
  BY <1>1 DEF Emit
<1>4. writes \in Seq(Nat) /\ n + 1 \in Nat BY <1>0, <1>2 DEF FeedTyped
<1>5. \/ writes' \in Seq(Nat) /\ ToSet(writes') = ToSet(writes) \cup {n + 1} /\ lost' = lost
      \/ lost' = lost \cup {n + 1} /\ writes' = writes
  BY <1>3, <1>4, AddedLast
<1>6. ASSUME NEW s \in Sockets
      PROVE  /\ socket'[s] \in Handlers /\ socket'[s].on = socket[s].on
             /\ socket[s].on => Watches(socket'[s], n + 1)
  <2>1. PICK h : h = socket[s] OBVIOUS
  <2>2. h \in Handlers BY <1>0, <2>1 DEF FeedTyped
  <2>3. CASE ~h.on BY <1>2, <2>1, <2>2, <2>3
  <2>4. CASE h.on
    <3>1. Watches(h, n) BY <1>0, <1>1, <1>2, <2>1, <2>4 DEF SocketsServed
    <3>2. CASE Len(h.queue) < FrameQueue
      <4>1. PICK g : g = [h EXCEPT !.queue = Append(h.queue, n + 1)] OBVIOUS
      <4>2. socket'[s] = g BY <1>2, <2>1, <2>4, <3>2, <4>1
      <4> QED BY <1>2, <2>1, <2>2, <3>1, <4>1, <4>2, QueuedNext
    <3>3. CASE ~(Len(h.queue) < FrameQueue)
      <4>1. PICK g : g = [h EXCEPT !.missed = h.missed \cup {n + 1}] OBVIOUS
      <4>2. socket'[s] = g BY <1>2, <2>1, <2>4, <3>3, <4>1
      <4> QED BY <1>2, <2>1, <2>2, <3>1, <4>1, <4>2, MissedNext
    <3> QED BY <3>2, <3>3
  <2> QED BY <2>3, <2>4
<1>7. FeedTyped'
  <2>1. socket' \in [Sockets -> Handlers] BY <1>2, <1>6
  <2>2. writes' \in Seq(Nat) BY <1>4, <1>5
  <2> QED BY <1>0, <1>2, <1>4, <2>1, <2>2 DEF FeedTyped
<1>8. EventsAccounted'
  <2>1. 1 .. n + 1 = (1 .. n) \cup {n + 1} BY <1>2
  <2>2. Pending' \cup lost' = Pending \cup lost \cup {n + 1} BY <1>2, <1>5 DEF Pending
  <2> QED BY <1>0, <1>1, <1>2, <2>1, <2>2 DEF EventsAccounted
<1>9. RowsBounded' BY <1>0, <1>2 DEF RowsBounded
<1>10. SocketsServed'
  <2>1. feed' = "activity" /\ registry' = registry /\ hints' = hints /\ sending' = sending BY <1>2
  <2>2. ASSUME NEW s \in Sockets, socket'[s].on
        PROVE  /\ s \in registry'
               /\ feed' = "activity" => Watches(socket'[s], emitted')
               /\ feed' = "hints" => Told(socket'[s], IF s \in sending' THEN hints' - 1 ELSE hints')
    <3>1. socket[s].on /\ Watches(socket'[s], n + 1) BY <1>6, <2>2
    <3> QED BY <1>0, <1>2, <2>1, <3>1 DEF SocketsServed
  <2> QED BY <1>0, <2>1, <2>2 DEF SocketsServed, Watches, Told, InOrder, ToSet
<1> QED BY <1>7, <1>8, <1>9, <1>10 DEF FeedInv

\* One handler is set.
LEMMA HandlerSet ==
  ASSUME FeedInv, NEW s \in Sockets, NEW g \in Handlers, socket' = [socket EXCEPT ![s] = g],
         UNCHANGED <<feed, emitted, writes, writer, since, saved, kept, slips, lost, hints>>,
         sending' \in {sending, sending \ {s}}, registry \ {s} \subseteq registry',
         g.on => /\ s \in registry'
                 /\ feed = "activity" => Watches(g, emitted)
                 /\ feed = "hints" => Told(g, IF s \in sending' THEN hints - 1 ELSE hints)
  PROVE  FeedInv'
<1>0. FeedTyped /\ EventsAccounted /\ RowsBounded /\ SocketsServed BY DEF FeedInv
<1>1. /\ socket' \in [Sockets -> Handlers] /\ socket'[s] = g /\ \A t \in Sockets \ {s} : socket'[t] = socket[t]
  BY <1>0 DEF FeedTyped
<1>2. FeedTyped' BY <1>0, <1>1 DEF FeedTyped
<1>3. EventsAccounted' /\ RowsBounded' BY <1>0, RowsStay
<1>4. ASSUME NEW t \in Sockets, socket'[t].on
      PROVE  /\ t \in registry'
             /\ feed' = "activity" => Watches(socket'[t], emitted')
             /\ feed' = "hints" => Told(socket'[t], IF t \in sending' THEN hints' - 1 ELSE hints')
  <2>1. CASE t = s BY <1>1, <1>4, <2>1
  <2>2. CASE t # s
    <3>1. socket'[t] = socket[t] /\ (t \in sending' <=> t \in sending) BY <1>1, <2>2
    <3>2. /\ t \in registry
          /\ feed = "activity" => Watches(socket[t], emitted)
          /\ feed = "hints" => Told(socket[t], IF t \in sending THEN hints - 1 ELSE hints)
      BY <1>0, <1>4, <3>1 DEF SocketsServed
    <3> QED BY <2>2, <3>1, <3>2
  <2> QED BY <2>1, <2>2
<1>5. sending' # {} => hints' > 0 BY <1>0 DEF SocketsServed
<1>6. SocketsServed' BY <1>4, <1>5 DEF SocketsServed, Watches, Told, InOrder, ToSet
<1> QED BY <1>2, <1>3, <1>6 DEF FeedInv

\* A socket comes.
LEMMA ConnectPart == ASSUME FeedInv, NEW s \in Sockets, Connect(s) PROVE FeedInv'
<1>0. FeedTyped /\ SocketsServed BY DEF FeedInv
<1>1. PICK n : n = IF feed = "activity" THEN emitted ELSE hints OBVIOUS
<1>2. n \in Nat BY <1>0, <1>1 DEF FeedTyped
<1>3. PICK g : g = [Gone EXCEPT !.on = TRUE, !.from = n] OBVIOUS
<1>4. g \in Handlers /\ Watches(g, n) /\ Told(g, n) BY <1>2, <1>3, Arrived
<1>5. socket' = [socket EXCEPT ![s] = g] /\ registry' = registry \cup {s} /\ sending' = sending /\ s \notin sending
  BY <1>1, <1>3 DEF Connect
<1>6. UNCHANGED <<feed, emitted, writes, writer, since, saved, kept, slips, lost, hints>> BY DEF Connect
<1>7. /\ feed = "activity" => Watches(g, emitted)
      /\ feed = "hints" => Told(g, IF s \in sending' THEN hints - 1 ELSE hints)
  BY <1>1, <1>4, <1>5
<1> QED BY <1>4, <1>5, <1>6, <1>7, HandlerSet

\* A frame is shown.
LEMMA PumpPart == ASSUME FeedInv, NEW s \in Sockets, Pump(s) PROVE FeedInv'
<1>0. FeedTyped /\ SocketsServed BY DEF FeedInv
<1>1. PICK h : h = socket[s] OBVIOUS
<1>2. PICK g : g = [h EXCEPT !.shown = Append(h.shown, Head(h.queue)), !.queue = Tail(h.queue)] OBVIOUS
<1>3. h \in Handlers /\ h.on /\ h.queue # <<>> /\ feed = "activity" /\ emitted \in Nat
  BY <1>0, <1>1 DEF FeedTyped, Pump, Open
<1>4. s \in registry /\ Watches(h, emitted) BY <1>0, <1>1, <1>3 DEF SocketsServed
<1>5. g \in Handlers /\ Watches(g, emitted)
  <2>1. PICK n : n = emitted OBVIOUS
  <2>2. Watches(h, n) /\ n \in Nat BY <1>3, <1>4, <2>1
  <2>3. g \in Handlers /\ Watches(g, n) BY <1>2, <1>3, <2>2, ShownNext
  <2> QED BY <2>1, <2>3
<1>6. socket' = [socket EXCEPT ![s] = g]
  <2>1. socket' = [socket EXCEPT ![s] = [socket[s] EXCEPT !.shown = Append(socket[s].shown, Head(socket[s].queue)),
                                                     !.queue = Tail(socket[s].queue)]]
    BY <1>0 DEF Pump, FeedTyped, Handlers
  <2> QED BY <1>1, <1>2, <2>1
<1>7. UNCHANGED <<feed, emitted, writes, writer, since, saved, kept, slips, lost, registry, hints, sending>> BY DEF Pump
<1> QED BY <1>3, <1>4, <1>5, <1>6, <1>7, HandlerSet

\* A socket goes.
LEMMA DisconnectPart == ASSUME FeedInv, NEW s \in Sockets, Disconnect(s) PROVE FeedInv'
<1>1. socket' = [socket EXCEPT ![s] = Gone] /\ registry' = registry \ {s} /\ sending' = sending BY DEF Disconnect
<1>2. UNCHANGED <<feed, emitted, writes, writer, since, saved, kept, slips, lost, hints>> BY DEF Disconnect
<1> QED BY <1>1, <1>2, GoneIs, HandlerSet

\* A round of sends begins.
LEMMA RoundPart == ASSUME FeedInv, SendHint PROVE FeedInv'
<1>0. FeedTyped /\ EventsAccounted /\ RowsBounded /\ SocketsServed BY DEF FeedInv
<1>1. /\ feed = "hints" /\ sending = {} /\ hints' = hints + 1 /\ sending' = {s \in Sockets : socket[s].on} /\ hints \in Nat
      /\ UNCHANGED <<feed, emitted, writes, writer, since, saved, kept, slips, lost, socket, registry>>
  BY <1>0 DEF SendHint, Open, FeedTyped
<1>2. FeedTyped' BY <1>0, <1>1 DEF FeedTyped
<1>3. EventsAccounted' /\ RowsBounded' BY <1>0, <1>1, RowsStay
<1>4. ASSUME NEW s \in Sockets, socket'[s].on
      PROVE  s \in registry' /\ feed' = "hints" /\ Told(socket'[s], IF s \in sending' THEN hints' - 1 ELSE hints')
  <2>1. socket[s].on /\ s \in sending' /\ hints' - 1 = hints BY <1>1, <1>4
  <2>2. s \in registry /\ Told(socket[s], hints) BY <1>0, <1>1, <2>1 DEF SocketsServed
  <2> QED BY <1>1, <2>1, <2>2
<1>5. hints' > 0 BY <1>1
<1>6. SocketsServed' BY <1>1, <1>4, <1>5 DEF SocketsServed, Watches, Told, InOrder, ToSet
<1> QED BY <1>2, <1>3, <1>6 DEF FeedInv

\* A tab is sent an intervention.
LEMMA SendPart == ASSUME FeedInv, NEW s \in Sockets, SendTo(s) PROVE FeedInv'
<1>0. FeedTyped /\ SocketsServed BY DEF FeedInv
<1>1. PICK h, n : h = socket[s] /\ n = hints OBVIOUS
<1>2. /\ s \in sending /\ sending # {} /\ sending' = sending \ {s} /\ feed = "hints" /\ h \in Handlers /\ n \in Nat /\ n > 0
      /\ UNCHANGED <<feed, emitted, writes, writer, since, saved, kept, slips, lost, registry, hints>>
  BY <1>0, <1>1 DEF SendTo, GoOn, FeedTyped, SocketsServed
<1>3. CASE h.on
  <2>1. PICK g : g = [h EXCEPT !.shown = Append(h.shown, n)] OBVIOUS
  <2>2. s \in registry /\ Told(h, n - 1) BY <1>0, <1>1, <1>2, <1>3 DEF SocketsServed
  <2>3. g \in Handlers /\ Told(g, n) BY <1>2, <2>1, <2>2, ToldNext
  <2>4. socket' = [socket EXCEPT ![s] = g]
    <3>1. socket' = [socket EXCEPT ![s] = [socket[s] EXCEPT !.shown = Append(socket[s].shown, hints)]]
      BY <1>0, <1>1, <1>3 DEF SendTo, FeedTyped, Open
    <3> QED BY <1>1, <2>1, <3>1
  <2>5. Told(g, IF s \in sending' THEN hints - 1 ELSE hints) BY <1>1, <1>2, <2>3
  <2> QED BY <1>2, <2>2, <2>3, <2>4, <2>5, HandlerSet
<1>4. CASE ~h.on
  <2>1. socket' = socket BY <1>1, <1>4 DEF SendTo, Open
  <2>2. socket' = [socket EXCEPT ![s] = h] BY <1>0, <1>1, <2>1 DEF FeedTyped
  <2> QED BY <1>2, <1>4, <2>2, HandlerSet
<1> QED BY <1>3, <1>4

\* The invariant holds at first.
LEMMA FeedBegins == ASSUME FeedInit PROVE FeedInv
<1>1. FeedTyped BY NothingHeld, GoneIs DEF FeedInit, FeedTyped, Idle
<1>2. Pending = {} BY NothingHeld DEF FeedInit, Pending, Idle
<1>3. EventsAccounted BY <1>2 DEF FeedInit, EventsAccounted
<1>4. RowsBounded
  <2>1. Cardinality({}) = 0 BY FS_EmptySet
  <2>2. PruneEvery \in Nat /\ PruneEvery > 0 /\ Retention \in Nat BY FeedAssumption
  <2>3. 0 <= Retention + 0 * PruneEvery + 0 BY <2>2
  <2> QED BY <2>1, <2>2, <2>3 DEF FeedInit, RowsBounded, Idle
<1>5. SocketsServed BY GoneIs DEF FeedInit, SocketsServed
<1> QED BY <1>1, <1>3, <1>4, <1>5 DEF FeedInv

\* Every step keeps the invariant.
LEMMA FeedGoesOn == ASSUME FeedInv, [FeedNext]_feedVars PROVE FeedInv'
<1>1. CASE UNCHANGED feedVars
  <2>1. UNCHANGED <<feed, emitted, writes, writer, since, saved, kept, slips, lost, socket, registry, hints, sending>>
    BY <1>1 DEF feedVars
  <2>2. FeedTyped /\ EventsAccounted /\ RowsBounded /\ SocketsServed BY DEF FeedInv
  <2>3. FeedTyped' BY <2>1, <2>2 DEF FeedTyped
  <2>4. EventsAccounted' /\ RowsBounded' BY <2>1, <2>2, RowsStay
  <2>5. SocketsServed' BY <2>1, <2>2, ServedStays
  <2> QED BY <2>3, <2>4, <2>5 DEF FeedInv
<1>2. CASE Emit \/ WriterTakes \/ PersistActivity \/ PersistFails \/ Prune \/ PruneFails \/ SendHint
  BY <1>2, EmitPart, TakesPart, PersistPart, LosesPart, PrunePart, SlipsPart, RoundPart
<1>3. ASSUME NEW drained \in BOOLEAN, ProcessEnds(drained) PROVE FeedInv' BY <1>3, EndsPart
<1>4. ASSUME NEW s \in Sockets, Connect(s) \/ Pump(s) \/ Disconnect(s) \/ SendTo(s) PROVE FeedInv'
  BY <1>4, ConnectPart, PumpPart, DisconnectPart, SendPart
<1> QED BY <1>1, <1>2, <1>3, <1>4 DEF FeedNext

\* The invariant is about what is shown.
LEMMA FeedShown == ASSUME FeedInv PROVE FeedSound
<1>0. FeedTyped /\ EventsAccounted /\ RowsBounded /\ SocketsServed BY DEF FeedInv
<1>1. Cardinality(kept) < Retention + (slips + 1) * PruneEvery + (IF writer.pc = "prune" THEN 1 ELSE 0)
  <2>1. PICK p, c, m : p = slips * PruneEvery /\ c = Cardinality(kept) /\ m = since OBVIOUS
  <2>2. slips \in Nat /\ m \in Nat /\ PruneEvery \in Nat /\ Retention \in Nat BY <1>0, <2>1, FeedAssumption DEF FeedTyped
  <2>3. p \in Nat /\ (slips + 1) * PruneEvery = p + PruneEvery BY <2>1, <2>2, Periods
  <2>4. c \in Nat BY <1>0, <2>1, SavedFinite
  <2>5. c <= Retention + p + (IF writer.pc = "prune" THEN PruneEvery ELSE m) /\ m < PruneEvery BY <1>0, <2>1 DEF RowsBounded
  <2>6. c < Retention + (p + PruneEvery) + (IF writer.pc = "prune" THEN 1 ELSE 0)
    <3>1. CASE writer.pc = "prune" BY <2>2, <2>3, <2>4, <2>5, <3>1
    <3>2. CASE writer.pc # "prune" BY <2>2, <2>3, <2>4, <2>5, <3>2
    <3> QED BY <3>1, <3>2
  <2> QED BY <2>1, <2>3, <2>6
<1>2. ASSUME NEW s \in Sockets, Open(s)
      PROVE  /\ s \in registry
             /\ InOrder(socket[s].shown)
             /\ feed = "activity" =>
                  ToSet(socket[s].shown \o socket[s].queue) \cup socket[s].missed = socket[s].from + 1 .. emitted
             /\ feed = "hints" /\ sending = {} => ToSet(socket[s].shown) = socket[s].from + 1 .. hints
  <2>1. PICK h : h = socket[s] OBVIOUS
  <2>2. h \in Handlers /\ h.on BY <1>0, <1>2, <2>1 DEF FeedTyped, Open
  <2>3. h.shown \in Seq(Nat) /\ h.queue \in Seq(Nat) BY <2>2, HandlerIs
  <2>4. ToSet(h.shown \o h.queue) = ToSet(h.shown) \cup ToSet(h.queue) BY <2>3, BothHeld
  <2>5. /\ s \in registry
        /\ feed = "activity" => Watches(h, emitted)
        /\ feed = "hints" => Told(h, IF s \in sending THEN hints - 1 ELSE hints)
    BY <1>0, <2>1, <2>2 DEF SocketsServed
  <2>6. InOrder(h.shown) BY <1>0, <2>5 DEF Watches, Told, FeedTyped
  <2>7. feed = "activity" => ToSet(h.shown) \cup ToSet(h.queue) \cup h.missed = h.from + 1 .. emitted BY <2>5 DEF Watches
  <2>8. feed = "hints" /\ sending = {} => ToSet(h.shown) = h.from + 1 .. hints BY <2>5 DEF Told
  <2> QED BY <2>1, <2>4, <2>5, <2>6, <2>7, <2>8
<1> QED BY <1>0, <1>1, <1>2 DEF FeedSound, EventsAccounted, RowsBounded

\* What is shown of a session while it happens is what happens.
THEOREM FeedAlwaysSound == FeedSpec => []FeedSound
<1>1. FeedInit => FeedInv BY FeedBegins
<1>2. FeedInv /\ [FeedNext]_feedVars => FeedInv' BY FeedGoesOn
<1>3. FeedInv => FeedSound BY FeedShown
<1> QED BY <1>1, <1>2, <1>3, PTL DEF FeedSpec
-----------------------------------------------------------------------------
(* What the observer records of each check tells its story *)

StoryRows == {"passed", "regressed", "retry", "failing"}

\* What the variables hold.
ObserverTyped ==
  /\ prev = None \/ prev \in [Checks -> Shown]
  /\ DOMAIN snap \subseteq Checks /\ snap \in [DOMAIN snap -> Shown]
  /\ obs \in {"asleep", "checking", "gate", "write", "over"}
  /\ currentStep \in DOMAIN LabSteps \cup {None}
  /\ recorded \in [Checks -> Seq(StoryRows)]
  /\ \A c \in Checks : Len(recorded[c]) <= 2

\* What is about to be persisted is about every check, and has something to say,
\* which the first snapshot of an observer never has.
Whole == obs \in {"gate", "write"} => DOMAIN snap = Checks
FirstIsSilent == prev = None => \A c \in Checks : recorded[c] = <<>>

\* The last row of a check agrees with the snapshot that the next one is compared
\* with, also while the rows of this one are at the gate, and of two rows the second
\* follows from the first.
Agrees == \A c \in Checks : recorded[c] # <<>> => (Met(prev, c) <=> Last(recorded[c]) = "passed")
Follows ==
  \A c \in Checks : Len(recorded[c]) = 2 =>
    ((recorded[c][1] = "passed") <=> (recorded[c][2] = "regressed"))

ObserverInv == ObserverTyped /\ Whole /\ FirstIsSilent /\ Agrees /\ Follows

\* The last two rows, one of which is new.
LEMMA TwoRows ==
  ASSUME NEW S, NEW s \in Seq(S), NEW e \in S, Len(s) <= 2
  PROVE  /\ LastTwo(Append(s, e)) \in Seq(S)
         /\ LastTwo(Append(s, e)) # <<>>
         /\ Last(LastTwo(Append(s, e))) = e
         /\ Len(LastTwo(Append(s, e))) <= 2
         /\ Len(LastTwo(Append(s, e))) = 2 =>
              /\ s # <<>> /\ LastTwo(Append(s, e))[1] = Last(s)
              /\ LastTwo(Append(s, e))[2] = e
PROOF
<1>1. /\ Append(s, e) \in Seq(S) /\ Len(Append(s, e)) = Len(s) + 1 /\ Len(s) \in Nat
      /\ Append(s, e)[Len(s) + 1] = e
      /\ \A i \in 1 .. Len(s) : Append(s, e)[i] = s[i]
  BY AppendProperties
<1>2. s = <<>> <=> Len(s) = 0
  BY EmptySeq
<1>5. Len(s) \in Nat /\ (Len(s) <= 1 \/ Len(s) = 2)
  <2>1. Len(s) \in Nat
    BY LenProperties
  <2>2. \A n \in Nat : n <= 2 => n <= 1 \/ n = 2
    OBVIOUS
  <2> QED BY <2>1, <2>2
<1> PICK t : t = Append(s, e)
  OBVIOUS
<1>3. CASE Len(s) <= 1
  <2>1. LastTwo(t) = t
    BY <1>1, <1>3 DEF LastTwo
  <2>2. t # <<>>
    BY <1>1, EmptySeq
  <2> QED BY <2>1, <2>2, <1>1, <1>2, <1>3 DEF Last
<1>4. CASE Len(s) = 2
  <2>1. LastTwo(t) = Tail(t)
    BY <1>1, <1>4 DEF LastTwo
  <2>2. /\ Tail(t) \in Seq(S) /\ Len(Tail(t)) = 2
        /\ Tail(t)[1] = t[2] /\ Tail(t)[2] = t[3]
    <3>1. t # <<>>
      BY <1>1, EmptySeq
    <3> QED BY <3>1, <1>1, <1>4, HeadTailProperties
  <2>3. Tail(t) # <<>>
    BY <2>2, EmptySeq
  <2> QED BY <2>1, <2>2, <2>3, <1>1, <1>2, <1>4 DEF Last
<1> QED BY <1>5, <1>3, <1>4

\* The step that is pointed to is one of the lab.
LEMMA StepPointed ==
  ASSUME NEW s
  PROVE  CurrentStep(s) \in DOMAIN LabSteps \cup {None}
PROOF
<1>1. Failing(s) \subseteq DOMAIN LabSteps
  BY DEF Failing
<1>2. DOMAIN LabSteps \subseteq Nat
  <2>1. LabSteps \in Seq(SUBSET Checks)
    BY ObserverAssumption
  <2>2. DOMAIN LabSteps = 1 .. Len(LabSteps) /\ Len(LabSteps) \in Nat
    BY <2>1, LenProperties
  <2> QED BY <2>2
<1>3. CASE Failing(s) = {}
  BY <1>3 DEF CurrentStep
<1>4. CASE Failing(s) # {}
  <2>1. \E x \in Failing(s) : \A y \in Failing(s) : x <= y
    BY <1>1, <1>2, <1>4, Least
  <2> QED BY <2>1, <1>1, <1>4 DEF CurrentStep
<1> QED BY <1>3, <1>4

\* A row is of one of four kinds; what it says follows from the two snapshots.
LEMMA EventTells ==
  ASSUME NEW p, NEW s, NEW c
  PROVE  /\ Event(p, s, c) \in StoryRows \cup {"none"}
         /\ p = None => Event(p, s, c) = "none"
         /\ Event(p, s, c) = "none" /\ p # None => (Met(p, c) <=> Met(s, c))
         /\ Event(p, s, c) # "none" => 
              /\ Event(p, s, c) = "regressed" <=> Met(p, c)
              /\ Event(p, s, c) = "passed" <=> Met(s, c)
PROOF
<1> QED BY DEF Event, StoryRows, Met

\* The rows of some checks are dropped: what is left agrees as before, and nothing is
\* claimed of the others.  The checks without news are as they were.
LEMMA GapKeeps ==
  ASSUME ObserverInv, obs \in {"gate", "write"}, GapIn(Eventful), prev' = snap,
         snap' = <<>>, obs' = "asleep", UNCHANGED currentStep
  PROVE  ObserverInv'
PROOF
<1> USE DEF ObserverInv
<1>1. DOMAIN snap = Checks /\ snap \in [Checks -> Shown]
  BY DEF Whole, ObserverTyped
<1>2. prev' # None
  BY <1>1, ObserverAssumption
<1>3. \A c \in Checks : recorded'[c] = IF c \in Eventful THEN <<>> ELSE recorded[c]
  BY DEF GapIn
<1>e. <<>> \in Seq(StoryRows) /\ Len(<<>>) = 0
  BY EmptySeq
<1>4. ObserverTyped'
  <2>1. recorded' \in [Checks -> Seq(StoryRows)]
    BY <1>e DEF GapIn, ObserverTyped
  <2>2. \A c \in Checks : Len(recorded'[c]) <= 2
    BY <1>3, <1>e DEF ObserverTyped
  <2>3. DOMAIN snap' = {} /\ snap' \in [DOMAIN snap' -> Shown]
    OBVIOUS
  <2> QED BY <2>1, <2>2, <2>3, <1>1 DEF ObserverTyped
<1>5. Agrees'
  <2> SUFFICES ASSUME NEW c \in Checks, recorded'[c] # <<>>
               PROVE  Met(prev', c) <=> Last(recorded'[c]) = "passed"
    BY DEF Agrees
  <2>1. c \notin Eventful /\ recorded'[c] = recorded[c]
    BY <1>3
  <2>2. prev # None
    BY <2>1 DEF FirstIsSilent
  <2>3. Met(prev, c) <=> Met(snap, c)
    BY <2>1, <2>2, EventTells DEF Eventful
  <2> QED BY <2>1, <2>3 DEF Agrees
<1>6. Follows'
  BY <1>3, <1>e DEF Follows
<1>7. Whole' /\ FirstIsSilent'
  BY <1>2 DEF Whole, FirstIsSilent
<1> QED BY <1>4, <1>5, <1>6, <1>7

\* The rows of the checks with news are written.
LEMMA RowsKeep ==
  ASSUME ObserverInv, obs = "write", prev' = snap,
         snap' = <<>>, obs' = "asleep", UNCHANGED currentStep,
         recorded' = [c \in Checks |-> IF c \in Eventful
             THEN LastTwo(Append(recorded[c], Event(prev, snap, c))) ELSE recorded[c]]
  PROVE  ObserverInv'
PROOF
<1> USE DEF ObserverInv
<1>1. DOMAIN snap = Checks /\ snap \in [Checks -> Shown]
  BY DEF Whole, ObserverTyped
<1>2. prev' # None
  BY <1>1, ObserverAssumption
<1>t. \A c \in Checks : recorded[c] \in Seq(StoryRows) /\ Len(recorded[c]) <= 2
  BY DEF ObserverTyped
<1>3. ASSUME NEW c \in Checks, c \in Eventful
      PROVE  /\ Event(prev, snap, c) \in StoryRows /\ prev # None
             /\ recorded'[c] \in Seq(StoryRows) /\ recorded'[c] # <<>>
             /\ Last(recorded'[c]) = Event(prev, snap, c)
             /\ Len(recorded'[c]) <= 2
             /\ Len(recorded'[c]) = 2 =>
                  /\ recorded[c] # <<>> /\ recorded'[c][1] = Last(recorded[c])
                  /\ recorded'[c][2] = Event(prev, snap, c)
  <2>1. Event(prev, snap, c) \in StoryRows /\ prev # None
    BY <1>3, EventTells DEF Eventful
  <2>2. recorded'[c] = LastTwo(Append(recorded[c], Event(prev, snap, c)))
    BY <1>3
  <2> QED BY <2>1, <2>2, <1>t, TwoRows
<1>4. \A c \in Checks : c \notin Eventful => recorded'[c] = recorded[c]
  OBVIOUS
<1>5. ObserverTyped'
  <2>1. \A c \in Checks : recorded'[c] \in Seq(StoryRows) /\ Len(recorded'[c]) <= 2
    BY <1>3, <1>4, <1>t
  <2>2. recorded' \in [Checks -> Seq(StoryRows)]
    BY <2>1
  <2>3. DOMAIN snap' = {} /\ snap' \in [DOMAIN snap' -> Shown]
    OBVIOUS
  <2> QED BY <2>1, <2>2, <2>3, <1>1 DEF ObserverTyped
<1>6. ASSUME NEW c \in Checks, recorded'[c] # <<>>
      PROVE  Met(prev', c) <=> Last(recorded'[c]) = "passed"
  <2>1. CASE c \in Eventful
    <3>1. Event(prev, snap, c) # "none"
      BY <2>1 DEF Eventful
    <3> QED BY <3>1, <2>1, <1>3, EventTells
  <2>2. CASE c \notin Eventful
    <3>1. recorded'[c] = recorded[c] /\ recorded[c] # <<>>
      BY <2>2, <1>4, <1>6
    <3>2. prev # None
      BY <3>1 DEF FirstIsSilent
    <3>3. Met(prev, c) <=> Met(snap, c)
      BY <2>2, <3>2, EventTells DEF Eventful
    <3> QED BY <3>1, <3>3 DEF Agrees
  <2> QED BY <2>1, <2>2
<1>7. ASSUME NEW c \in Checks, Len(recorded'[c]) = 2
      PROVE  (recorded'[c][1] = "passed") <=> (recorded'[c][2] = "regressed")
  <2>1. CASE c \in Eventful
    <3>1. Event(prev, snap, c) # "none"
      BY <2>1 DEF Eventful
    <3>2. Event(prev, snap, c) = "regressed" <=> Met(prev, c)
      BY <3>1, EventTells
    <3>3. /\ recorded[c] # <<>> /\ recorded'[c][1] = Last(recorded[c])
          /\ recorded'[c][2] = Event(prev, snap, c)
      BY <2>1, <1>3, <1>7
    <3> QED BY <3>2, <3>3 DEF Agrees
  <2>2. CASE c \notin Eventful
    BY <2>2, <1>4, <1>7 DEF Follows
  <2> QED BY <2>1, <2>2
<1>8. Whole' /\ FirstIsSilent'
  BY <1>2 DEF Whole, FirstIsSilent
<1>9. Agrees' /\ Follows'
  BY <1>6, <1>7 DEF Agrees, Follows
<1> QED BY <1>5, <1>8, <1>9

\* One action at a time.
LEMMA ObserverStep == ObserverInv /\ [ObserverNext]_observerVars => ObserverInv'
PROOF
<1> SUFFICES ASSUME ObserverInv, [ObserverNext]_observerVars PROVE ObserverInv'
  OBVIOUS
<1> USE DEF ObserverInv
<1>0. ASSUME UNCHANGED <<prev, recorded, currentStep>>, obs' \in {"asleep", "checking", "over"},
             snap' = <<>> \/ UNCHANGED snap
      PROVE  ObserverInv'
  <2>1. DOMAIN snap' \subseteq Checks /\ snap' \in [DOMAIN snap' -> Shown]
    <3>1. DOMAIN <<>> = {} /\ <<>> \in [{} -> Shown]
      OBVIOUS
    <3> QED BY <3>1, <1>0 DEF ObserverTyped
  <2> QED BY <1>0, <2>1 DEF ObserverTyped, Whole, FirstIsSilent, Agrees, Follows
<1>1. CASE Awake
  BY <1>1, <1>0 DEF Awake
<1>2. CASE Deadline
  BY <1>2, <1>0 DEF Deadline
<1>3. ASSUME NEW c \in Checks, Evaluate(c) PROVE ObserverInv'
  <2>1. PICK v \in Shown : snap' = [d \in DOMAIN snap \cup {c} |-> IF d = c THEN v ELSE snap[d]]
    BY <1>3 DEF Evaluate
  <2>2. DOMAIN snap' \subseteq Checks /\ snap' \in [DOMAIN snap' -> Shown]
    BY <2>1 DEF ObserverTyped
  <2> QED BY <1>3, <2>2 DEF Evaluate, ObserverTyped, Whole, FirstIsSilent, Agrees, Follows
<1>4. CASE Snapshot
  <2>1. snap \in [Checks -> Shown] /\ snap # None /\ DOMAIN snap = Checks
    BY <1>4, ObserverAssumption DEF Snapshot, ObserverTyped
  <2>2. currentStep' \in DOMAIN LabSteps \cup {None}
    BY <1>4, StepPointed DEF Snapshot
  <2>3. CASE Eventful = {}
    <3>1. /\ obs' = "asleep" /\ prev' = snap /\ snap' = <<>> /\ UNCHANGED recorded
      BY <1>4, <2>3 DEF Snapshot
    <3>2. ASSUME NEW c \in Checks, recorded[c] # <<>>
          PROVE  Met(prev, c) <=> Met(snap, c)
      <4>1. prev # None /\ Event(prev, snap, c) = "none"
        BY <3>2, <2>3 DEF FirstIsSilent, Eventful
      <4> QED BY <4>1, EventTells
    <3>3. Agrees'
      BY <3>1, <3>2 DEF Agrees
    <3>4. DOMAIN <<>> = {} /\ <<>> \in [{} -> Shown]
      OBVIOUS
    <3>5. ObserverTyped'
      BY <3>1, <3>4, <2>1, <2>2 DEF ObserverTyped
    <3> QED BY <3>1, <3>3, <3>5, <2>1 DEF Whole, FirstIsSilent, Follows
  <2>4. CASE Eventful # {}
    <3>1. /\ obs' = "gate" /\ UNCHANGED <<prev, snap, recorded>>
      BY <1>4, <2>4 DEF Snapshot
    <3> QED BY <3>1, <2>1, <2>2 DEF ObserverTyped, Whole, FirstIsSilent, Agrees, Follows
  <2> QED BY <2>3, <2>4
<1>5. CASE Gate
  <2>1. CASE MayCollect /\ obs' = "write" /\ UNCHANGED <<prev, snap, recorded>>
    BY <1>5, <2>1 DEF Gate, ObserverTyped, Whole, FirstIsSilent, Agrees, Follows
  <2>2. CASE obs' = "asleep" /\ prev' = Keep(snap) /\ snap' = <<>> /\ GapIn(Eventful)
    BY <1>5, <2>2, GapKeeps DEF Gate, Keep
  <2> QED BY <1>5, <2>1, <2>2 DEF Gate
<1>6. CASE Write
  <2>0. obs = "write" /\ prev' = snap /\ snap' = <<>> /\ obs' = "asleep" /\ UNCHANGED currentStep
    BY <1>6 DEF Write, Keep
  <2>1. CASE GapIn(Eventful)
    BY <2>0, <2>1, GapKeeps
  <2>2. CASE recorded' = [c \in Checks |-> IF c \in Eventful
             THEN LastTwo(Append(recorded[c], Event(prev, snap, c))) ELSE recorded[c]]
    BY <2>0, <2>2, RowsKeep
  <2> QED BY <1>6, <2>1, <2>2 DEF Write
<1>7. CASE CycleFails
  BY <1>7, <1>0 DEF CycleFails
<1>8. CASE Restarts
  <2>1. /\ prev' = None /\ snap' = <<>> /\ obs' = "asleep" /\ currentStep' = None
        /\ recorded' = [c \in Checks |-> <<>>]
    BY <1>8 DEF Restarts, GapIn
  <2>2. <<>> \in Seq(StoryRows) /\ Len(<<>>) = 0
    BY EmptySeq
  <2>3. DOMAIN <<>> = {} /\ <<>> \in [{} -> Shown]
    OBVIOUS
  <2> QED BY <2>1, <2>2, <2>3 DEF ObserverTyped, Whole, FirstIsSilent, Agrees, Follows
<1>9. CASE UNCHANGED <<prev, snap, obs, currentStep, seenAt, recorded, started>>
  BY <1>9 DEF ObserverTyped, Whole, FirstIsSilent, Agrees, Follows
<1> QED
  BY <1>1, <1>2, <1>3, <1>4, <1>5, <1>6, <1>7, <1>8, <1>9 DEF ObserverNext, observerVars

\* At the start nothing is recorded and nothing is known.
LEMMA ObserverStarts == ObserverInit => ObserverInv
PROOF
<1>1. <<>> \in Seq(StoryRows) /\ Len(<<>>) = 0
  BY EmptySeq
<1>2. DOMAIN <<>> = {} /\ <<>> \in [{} -> Shown]
  OBVIOUS
<1> QED BY <1>1, <1>2 DEF ObserverInit, ObserverInv, ObserverTyped, Whole, FirstIsSilent, Agrees, Follows

\* What the observer records tells the story of each check (progress_observer.py).
THEOREM StoryAlwaysHolds == ObserverSpec => []StoryHolds
PROOF
<1>1. ObserverInv => StoryHolds
  <2> SUFFICES ASSUME ObserverInv PROVE StoryHolds
    OBVIOUS
  <2>1. ObserverTypeOK
    BY DEF ObserverInv, ObserverTyped, ObserverTypeOK
  <2>2. \A c \in Checks : Len(recorded[c]) = 2 =>
          (recorded[c][1] = "passed") = (recorded[c][2] = "regressed")
    BY DEF ObserverInv, Follows
  <2>3. \A c \in Checks : recorded[c] # <<>> => Met(prev, c) = (Last(recorded[c]) = "passed")
    BY DEF ObserverInv, Agrees, Met
  <2>4. MayCollect => HasConsent("observe") /\ HasConsent("act")
    BY DEF MayCollect, HasConsent
  <2> QED BY <2>1, <2>2, <2>3, <2>4 DEF StoryHolds
<1> QED BY <1>1, ObserverStarts, ObserverStep, PTL DEF ObserverSpec
-----------------------------------------------------------------------------
(* The three records of a turn agree *)

Texts == {"text-start", "text-delta", "text-end"}
Tools == {"tool-input", "tool-output"}

\* The events of a stream, and what the model is told.
StreamEvents ==
  {<<"start">>, <<"finish">>, <<"done">>, <<"error">>}
    \cup {<<kind, r>> : kind \in Texts, r \in Nat}
    \cup {<<kind, r, k>> : kind \in Tools, r \in Nat, k \in Nat}
Messages == {<<kind, r, k>> : kind \in {"calls", "tool"}, r \in Nat, k \in Nat}

Places == {"new", "refused", "asked", "open", "chunk", "ended", "tools", "running", "closing", "over"}
TurnRecords ==
  [pc : Places, round : 0 .. MaxToolRounds, text : 0 .. MaxChunks, calls : 0 .. MaxCalls, next : Nat,
   sent : Seq(StreamEvents), told : Seq(Messages), parts : Seq(Nat), gone : BOOLEAN]

InRound(u) == u.pc \in {"chunk", "ended", "tools", "running"}
Underway(u) == u.pc = "open" \/ InRound(u)

\* What a record says by itself, at whatever point the turn has been left.
Readable(u) ==
  /\ WellFormed(u.sent)
  /\ FirstOf(u.parts, EndedTexts(u.sent))
  /\ <<"finish">> \in Range(u.sent) => EndedTexts(u.sent) \subseteq Range(u.parts)
  /\ u.pc \in {"new", "refused", "asked"} => u.sent = <<>> /\ u.parts = <<>> /\ u.told = <<>>

\* The stream of a turn under way has begun and not ended, and is about its rounds so
\* far; what is sent in a round follows the course of the round.
Streams(u) ==
  LET tabSaw == Range(u.sent) IN
  /\ Underway(u) =>
       /\ u.sent # <<>> /\ <<"done">> \notin tabSaw /\ <<"finish">> \notin tabSaw
       /\ \A e \in tabSaw : e[1] \in Texts \cup Tools => e[2] <= u.round
  /\ u.pc = "open" => \A e \in tabSaw : e[1] \in Texts \cup Tools => e[2] < u.round
  /\ u.pc \in {"chunk", "ended"} => \A e \in tabSaw : e[1] \in Tools => e[2] < u.round
  /\ u.pc = "chunk" =>
       /\ <<"text-end", u.round>> \notin tabSaw
       /\ IF u.text = 0 THEN \A e \in tabSaw : e[1] \in Texts => e[2] < u.round
          ELSE <<"text-start", u.round>> \in tabSaw
  /\ u.pc = "ended" => (<<"text-end", u.round>> \in tabSaw <=> u.text # 0)
  /\ u.pc \in {"tools", "running"} =>
       \A e \in tabSaw : e[1] = "tool-output" /\ e[2] = u.round => e[3] < u.next
  /\ u.pc = "running" => <<"tool-input", u.round, u.next>> \in tabSaw

\* All texts shown are kept, but the one that has just ended.
Keeps(u) ==
  /\ u.pc \in {"open", "chunk", "tools", "running"} => EndedTexts(u.sent) \subseteq Range(u.parts)
  /\ u.pc = "ended" =>
       /\ EndedTexts(u.sent) \subseteq Range(u.parts) \cup {u.round}
       /\ u.round \notin Range(u.parts)

\* The calls of the round have their results up to the one that is due, and all
\* others have theirs.
Tells(u) ==
  /\ InRound(u) => u.round < MaxToolRounds
  /\ u.pc \in {"chunk", "ended"} => u.next = 1
  /\ u.pc \in {"open", "chunk", "ended"} => CallsAnswered(u.told)
  /\ u.pc = "running" => u.next <= u.calls
  /\ u.pc \in {"tools", "running"} =>
       \E c \in 1 .. Len(u.told) :
         /\ 1 <= u.next /\ u.next <= u.calls + 1
         /\ c + u.next = Len(u.told) + 1
         /\ u.told[c] = <<"calls", u.round, u.calls>>
         /\ \A k \in 1 .. (u.next - 1) : u.told[c + k] = <<"tool", u.round, k>>
         /\ \A i \in 1 .. (c - 1) : u.told[i][1] = "calls" =>
              /\ i + u.told[i][3] < c
              /\ \A k \in 1 .. u.told[i][3] : u.told[i + k] = <<"tool", u.told[i][2], k>>

TurnInv(u) == u \in TurnRecords /\ Readable(u) /\ Streams(u) /\ Keeps(u) /\ Tells(u)

\* The rows of a turn: none before it is posted, no answer before it is over.
ChatRows == {<<t, "user">> : t \in Turns} \cup {<<t, "assistant", p>> : t \in Turns, p \in Seq(Nat)}
RowsFit ==
  /\ chat \in Seq(ChatRows)
  /\ \A i \in DOMAIN chat :
       /\ turn[chat[i][1]].pc # "new"
       /\ chat[i][2] = "assistant" =>
            /\ turn[chat[i][1]].pc = "over"
            /\ chat[i][3] # <<>> /\ chat[i][3] = turn[chat[i][1]].parts
  /\ \A i, j \in DOMAIN chat :
       chat[i][1] = chat[j][1] /\ i < j => chat[i][2] = "user" /\ chat[j][2] = "assistant"

ChatInv ==
  /\ turn = [t \in Turns |-> turn[t]]
  /\ \A t \in Turns : TurnInv(turn[t])
  /\ model \in {None} \cup ModelCatalog
  /\ RowsFit
-----------------------------------------------------------------------------
\* The kinds of events tell their shapes.
LEMMA EventIs ==
  ASSUME NEW e \in StreamEvents
  PROVE  /\ e[1] \in {"start", "finish", "done", "error"} \cup Texts \cup Tools
         /\ e[1] \in Texts => e[2] \in Nat /\ e = <<e[1], e[2]>>
         /\ e[1] \in Tools => e[2] \in Nat /\ e[3] \in Nat /\ e = <<e[1], e[2], e[3]>>
         /\ e[1] \in {"start", "finish", "done", "error"} => e = <<e[1]>>
<1>1. CASE e \in {<<"start">>, <<"finish">>, <<"done">>, <<"error">>} BY <1>1 DEF Texts, Tools
<1>2. CASE e \in {<<kind, r>> : kind \in Texts, r \in Nat} BY <1>2 DEF Texts, Tools
<1>3. CASE e \in {<<kind, r, k>> : kind \in Tools, r \in Nat, k \in Nat} BY <1>3 DEF Texts, Tools
<1> QED BY <1>1, <1>2, <1>3 DEF StreamEvents

\* One more member.
LEMMA OneMore ==
  ASSUME NEW S, NEW s \in Seq(S), NEW e \in S
  PROVE  /\ Append(s, e) \in Seq(S) /\ Append(s, e) # <<>>
         /\ Len(s) \in Nat /\ DOMAIN s = 1 .. Len(s)
         /\ Len(Append(s, e)) = Len(s) + 1 /\ DOMAIN Append(s, e) = 1 .. (Len(s) + 1)
         /\ \A i \in 1 .. Len(s) : Append(s, e)[i] = s[i]
         /\ Append(s, e)[Len(s) + 1] = e
         /\ Range(Append(s, e)) = Range(s) \cup {e}
<1>1. /\ Append(s, e) \in Seq(S) /\ Append(s, e) # <<>>
      /\ Len(s) \in Nat /\ DOMAIN s = 1 .. Len(s)
      /\ Len(Append(s, e)) = Len(s) + 1 /\ DOMAIN Append(s, e) = 1 .. (Len(s) + 1)
      /\ \A i \in 1 .. Len(s) : Append(s, e)[i] = s[i]
      /\ Append(s, e)[Len(s) + 1] = e
  BY AppendProperties, LenProperties
<1>2. Range(Append(s, e)) = Range(s) \cup {e} BY <1>1 DEF Range
<1> QED BY <1>1, <1>2

\* What is sent at once is sent in turn.
LEMMA InTurn ==
  ASSUME NEW S, NEW s \in Seq(S), NEW a \in S, NEW b \in S
  PROVE  /\ s \o <<>> = s
         /\ s \o <<a>> = Append(s, a)
         /\ s \o <<a, b>> = Append(Append(s, a), b)
<1>1. s \o <<>> = s BY ConcatEmptySeq
<1>2. s \o <<a>> = Append(s, a) BY AppendIsConcat
<1>3. Append(s, a) \in Seq(S) /\ <<a>> \in Seq(S) /\ <<b>> \in Seq(S) BY OneMore
<1>4. <<a>> \o <<b>> = <<a, b>>
  <2>1. /\ <<a>> \o <<b>> \in Seq(S) /\ Len(<<a>> \o <<b>>) = 2
        /\ (<<a>> \o <<b>>)[1] = a /\ (<<a>> \o <<b>>)[2] = b
    BY <1>3, ConcatProperties
  <2>2. <<a, b>> \in Seq(S) /\ Len(<<a, b>>) = 2 OBVIOUS
  <2>3. \A i \in 1 .. 2 : (<<a>> \o <<b>>)[i] = <<a, b>>[i]
    <3>1. \A i \in 1 .. 2 : i = 1 \/ i = 2 OBVIOUS
    <3>2. <<a, b>>[1] = a /\ <<a, b>>[2] = b OBVIOUS
    <3> QED BY <2>1, <3>1, <3>2
  <2> QED BY <2>1, <2>2, <2>3, SeqEqual
<1>5. Append(Append(s, a), b) = Append(s, a) \o <<b>> BY <1>3, AppendIsConcat
<1>6. (s \o <<a>>) \o <<b>> = s \o (<<a>> \o <<b>>) BY <1>3, ConcatAssociative
<1> QED BY <1>1, <1>2, <1>4, <1>5, <1>6

\* A stream stays readable when the next event fits what was sent.
LEMMA StreamGoesOn ==
  ASSUME NEW s \in Seq(StreamEvents), s # <<>>, WellFormed(s), <<"done">> \notin Range(s), NEW e \in StreamEvents,
         e[1] \in {"text-delta", "text-end"} =>
           <<"text-start", e[2]>> \in Range(s) /\ <<"text-end", e[2]>> \notin Range(s),
         e[1] = "text-end" => \A f \in Range(s) : f[1] = "text-end" => f[2] < e[2],
         e[1] = "tool-output" => <<"tool-input", e[2], e[3]>> \in Range(s) /\ e \notin Range(s)
  PROVE  /\ Append(s, e) \in Seq(StreamEvents) /\ Append(s, e) # <<>>
         /\ WellFormed(Append(s, e))
         /\ Range(Append(s, e)) = Range(s) \cup {e}
<1> DEFINE n == Append(s, e)
           Before(q, i) == {q[j] : j \in 1 .. (i - 1)}
<1>1. /\ n \in Seq(StreamEvents) /\ n # <<>> /\ Range(n) = Range(s) \cup {e}
      /\ Len(s) \in Nat /\ DOMAIN s = 1 .. Len(s) /\ Len(n) = Len(s) + 1 /\ DOMAIN n = 1 .. (Len(s) + 1)
      /\ \A i \in 1 .. Len(s) : n[i] = s[i]
      /\ n[Len(s) + 1] = e
  BY OneMore
<1>2. Len(s) > 0 BY <1>1, EmptySeq
<1>3. n[1] = <<"start">> BY <1>1, <1>2 DEF WellFormed
<1>4. ASSUME NEW i \in 1 .. Len(s) PROVE Before(n, i) = Before(s, i) /\ n[i] = s[i] /\ s[i] # <<"done">>
  BY <1>1, <1>4 DEF Range
<1>5. Before(n, Len(s) + 1) = Range(s)
  <2>1. Before(n, Len(s) + 1) = {n[j] : j \in 1 .. Len(s)} BY <1>1
  <2> QED BY <1>1, <2>1 DEF Range
<1>6. ASSUME NEW i \in DOMAIN n
      PROVE  /\ n[i][1] \in {"text-delta", "text-end"} =>
                  <<"text-start", n[i][2]>> \in Before(n, i) /\ <<"text-end", n[i][2]>> \notin Before(n, i)
             /\ n[i][1] = "text-end" => \A f \in Before(n, i) : f[1] = "text-end" => f[2] < n[i][2]
             /\ n[i][1] = "tool-output" => <<"tool-input", n[i][2], n[i][3]>> \in Before(n, i) /\ n[i] \notin Before(n, i)
             /\ n[i] = <<"done">> => i = Len(n)
  <2>1. CASE i \in 1 .. Len(s)
    <3>1. i \in DOMAIN s BY <1>1, <2>1
    <3>2. /\ s[i][1] \in {"text-delta", "text-end"} =>
                  <<"text-start", s[i][2]>> \in Before(s, i) /\ <<"text-end", s[i][2]>> \notin Before(s, i)
          /\ s[i][1] = "text-end" => \A f \in Before(s, i) : f[1] = "text-end" => f[2] < s[i][2]
          /\ s[i][1] = "tool-output" => <<"tool-input", s[i][2], s[i][3]>> \in Before(s, i) /\ s[i] \notin Before(s, i)
      BY <3>1 DEF WellFormed
    <3> HIDE DEF Before, n
    <3> QED BY <1>4, <2>1, <3>2
  <2>2. CASE i = Len(s) + 1
    <3>1. n[i] = e /\ Before(n, i) = Range(s) /\ i = Len(n) BY <1>1, <1>5, <2>2
    <3> HIDE DEF Before, n
    <3> QED BY <3>1
  <2>3. i \in 1 .. Len(s) \/ i = Len(s) + 1 BY <1>1
  <2> HIDE DEF Before, n
  <2> QED BY <2>1, <2>2, <2>3
<1>7. WellFormed(n) BY <1>3, <1>6 DEF WellFormed
<1> QED BY <1>1, <1>7

\* A turn changes, and the others do not.
LEMMA OneTurn ==
  ASSUME ChatInv, NEW t \in Turns, NEW v, TurnInv(v), turn' = [turn EXCEPT ![t] = v],
         model' \in {None} \cup ModelCatalog, RowsFit'
  PROVE  ChatInv'
<1>1. turn = [x \in Turns |-> turn[x]] BY DEF ChatInv
<1>2. /\ turn' = [x \in Turns |-> turn'[x]] /\ turn'[t] = v
      /\ \A x \in Turns : x # t => turn'[x] = turn[x]
  BY <1>1
<1>3. \A x \in Turns : TurnInv(turn'[x]) BY <1>2 DEF ChatInv
<1> QED BY <1>2, <1>3 DEF ChatInv

\* The rows fit as before when none is written.
LEMMA ChatRowsStay ==
  ASSUME ChatInv, NEW t \in Turns, NEW v, turn' = [turn EXCEPT ![t] = v],
         turn[t].pc \notin {"new", "over"}, v.pc # "new", UNCHANGED chat
  PROVE  RowsFit'
<1>1. turn = [x \in Turns |-> turn[x]] BY DEF ChatInv
<1>2. turn'[t] = v /\ \A x \in Turns : x # t => turn'[x] = turn[x] BY <1>1
<1>3. RowsFit BY DEF ChatInv
<1>4. \A i \in DOMAIN chat : chat[i][1] \in Turns
  <2>1. \A i \in DOMAIN chat : chat[i] \in ChatRows BY <1>3, ElementOfSeq, LenProperties DEF RowsFit
  <2>2. \A c \in ChatRows : c[1] \in Turns BY DEF ChatRows
  <2> QED BY <2>1, <2>2
<1> QED BY <1>2, <1>3, <1>4 DEF RowsFit


-----------------------------------------------------------------------------
\* A record that has been left is only read.
LEMMA LeftAlone ==
  ASSUME NEW u, TurnInv(u), NEW v, v \in TurnRecords, v.pc \in {"closing", "over"},
         v.sent = u.sent, v.parts = u.parts
  PROVE  TurnInv(v)
<1>1. Readable(v) BY DEF TurnInv, Readable
<1> QED BY <1>1 DEF TurnInv, Streams, Keeps, Tells, Underway, InRound

\* The request is refused or taken.
LEMMA PostPart == ASSUME ChatInv, NEW t \in Turns, Post(t) PROVE ChatInv'
<1>1. turn[t].pc = "new" /\ TurnInv(turn[t]) /\ RowsFit /\ turn = [x \in Turns |-> turn[x]] BY DEF Post, TurnAt, ChatInv
<1>2. PICK q \in {"refused", "asked"} : turn' = [turn EXCEPT ![t].pc = q]
  BY DEF Post, TurnTo
<1> DEFINE v == [turn[t] EXCEPT !.pc = q]
<1>3. turn' = [turn EXCEPT ![t] = v] BY <1>1, <1>2
<1>4. v \in TurnRecords /\ v.pc = q /\ v.sent = turn[t].sent /\ v.parts = turn[t].parts /\ v.told = turn[t].told
  BY <1>1 DEF TurnInv, TurnRecords, Places
<1>5. TurnInv(v)
  <2>1. Readable(v) BY <1>1, <1>4 DEF TurnInv, Readable
  <2> HIDE DEF v
  <2> QED BY <1>4, <2>1 DEF TurnInv, Streams, Keeps, Tells, Underway, InRound
<1>6. turn'[t] = v /\ \A x \in Turns : x # t => turn'[x] = turn[x] BY <1>1, <1>3
<1>7. /\ chat \in Seq(ChatRows) /\ Len(chat) \in Nat /\ DOMAIN chat = 1 .. Len(chat)
      /\ \A i \in DOMAIN chat : chat[i][1] \in Turns \ {t}
  <2>1. chat \in Seq(ChatRows) /\ \A i \in DOMAIN chat : turn[chat[i][1]].pc # "new" BY <1>1 DEF RowsFit
  <2>2. Len(chat) \in Nat /\ DOMAIN chat = 1 .. Len(chat) /\ \A i \in DOMAIN chat : chat[i] \in ChatRows
    BY <2>1, ElementOfSeq, LenProperties
  <2>3. \A c \in ChatRows : c[1] \in Turns BY DEF ChatRows
  <2> QED BY <1>1, <2>1, <2>2, <2>3
<1>8. RowsFit'
  <2> HIDE DEF v
  <2>1. CASE chat' = chat BY <1>1, <1>4, <1>6, <1>7, <2>1 DEF RowsFit
  <2>2. CASE chat' = Append(chat, <<t, "user">>)
    <3> DEFINE entry == <<t, "user">>
    <3>1. entry \in ChatRows /\ entry[1] = t /\ entry[2] = "user" BY DEF ChatRows
    <3> HIDE DEF entry
    <3>2. /\ chat' \in Seq(ChatRows) /\ DOMAIN chat' = 1 .. (Len(chat) + 1)
          /\ \A i \in 1 .. Len(chat) : chat'[i] = chat[i]
          /\ chat'[Len(chat) + 1] = entry
      BY <1>7, <2>2, <3>1, OneMore DEF entry
    <3>3. ASSUME NEW i \in DOMAIN chat'
          PROVE  /\ turn'[chat'[i][1]].pc # "new"
                 /\ chat'[i][2] = "assistant" =>
                     /\ turn'[chat'[i][1]].pc = "over"
                     /\ chat'[i][3] # <<>> /\ chat'[i][3] = turn'[chat'[i][1]].parts
      <4>1. CASE i \in 1 .. Len(chat) BY <1>1, <1>6, <1>7, <3>2, <4>1 DEF RowsFit
      <4>2. CASE i = Len(chat) + 1 BY <1>4, <1>6, <3>1, <3>2, <4>2
      <4> QED BY <1>7, <3>2, <4>1, <4>2
    <3>4. ASSUME NEW i \in DOMAIN chat', NEW j \in DOMAIN chat', chat'[i][1] = chat'[j][1], i < j
          PROVE  chat'[i][2] = "user" /\ chat'[j][2] = "assistant"
      <4>1. i \in 1 .. Len(chat) BY <1>7, <3>2, <3>4
      <4>2. CASE j \in 1 .. Len(chat) BY <1>1, <1>7, <3>2, <3>4, <4>1, <4>2 DEF RowsFit
      <4>3. CASE j = Len(chat) + 1 BY <1>7, <3>1, <3>2, <3>4, <4>1, <4>3
      <4> QED BY <1>7, <3>2, <4>2, <4>3
    <3> QED BY <3>2, <3>3, <3>4 DEF RowsFit
  <2> QED BY <2>1, <2>2 DEF Post
<1>9. model' \in {None} \cup ModelCatalog BY DEF Post, ChatInv
<1> HIDE DEF v
<1> QED BY <1>3, <1>5, <1>8, <1>9, OneTurn

\* The answer becomes a row, or not.
LEMMA SavePart == ASSUME ChatInv, NEW t \in Turns, SaveAnswer(t) PROVE ChatInv'
<1>1. turn[t].pc = "closing" /\ TurnInv(turn[t]) /\ RowsFit /\ turn = [x \in Turns |-> turn[x]]
  BY DEF SaveAnswer, TurnAt, ChatInv
<1> DEFINE v == [turn[t] EXCEPT !.pc = "over"]
<1>2. turn' = [turn EXCEPT ![t] = v] BY <1>1 DEF SaveAnswer, TurnTo
<1>3. v \in TurnRecords /\ v.pc = "over" /\ v.sent = turn[t].sent /\ v.parts = turn[t].parts
  BY <1>1 DEF TurnInv, TurnRecords, Places
<1> HIDE DEF v
<1>4. TurnInv(v) BY <1>1, <1>3, LeftAlone
<1>5. turn'[t] = v /\ \A x \in Turns : x # t => turn'[x] = turn[x] BY <1>1, <1>2
<1>6. CASE chat' = chat
  <2>1. RowsFit' BY <1>1, <1>2, <1>3, <1>6, ChatRowsStay
  <2> QED BY <1>2, <1>4, <2>1, OneTurn DEF SaveAnswer, ChatInv
<1>7. CASE turn[t].parts # <<>> /\ chat' = Append(chat, <<t, "assistant", turn[t].parts>>)
  <2> DEFINE entry == <<t, "assistant", turn[t].parts>>
  <2>1. entry \in ChatRows /\ entry[1] = t /\ entry[2] = "assistant" /\ entry[3] = turn[t].parts
    BY <1>1 DEF ChatRows, TurnInv, TurnRecords
  <2>2. /\ chat \in Seq(ChatRows) /\ Len(chat) \in Nat /\ DOMAIN chat = 1 .. Len(chat)
        /\ \A i \in DOMAIN chat : chat[i] \in ChatRows
    BY <1>1, ElementOfSeq, LenProperties DEF RowsFit
  <2>3. \A c \in ChatRows : c[1] \in Turns /\ c[2] \in {"user", "assistant"} BY DEF ChatRows
  <2>4. \A i \in DOMAIN chat : chat[i][1] = t => chat[i][2] = "user" BY <1>1, <2>2, <2>3 DEF RowsFit
  <2> HIDE DEF entry
  <2>5. /\ chat' \in Seq(ChatRows) /\ DOMAIN chat' = 1 .. (Len(chat) + 1)
        /\ \A i \in 1 .. Len(chat) : chat'[i] = chat[i]
        /\ chat'[Len(chat) + 1] = entry
    BY <1>7, <2>1, <2>2, OneMore DEF entry
  <2>6. ASSUME NEW i \in DOMAIN chat'
        PROVE  /\ turn'[chat'[i][1]].pc # "new"
               /\ chat'[i][2] = "assistant" =>
                   /\ turn'[chat'[i][1]].pc = "over"
                   /\ chat'[i][3] # <<>> /\ chat'[i][3] = turn'[chat'[i][1]].parts
    <3>1. CASE i \in 1 .. Len(chat)
      <4>1. CASE chat[i][1] = t BY <1>3, <1>5, <2>2, <2>4, <2>5, <3>1, <4>1
      <4>2. CASE chat[i][1] # t BY <1>1, <1>5, <2>2, <2>3, <2>5, <3>1, <4>2 DEF RowsFit
      <4> QED BY <4>1, <4>2
    <3>2. CASE i = Len(chat) + 1 BY <1>3, <1>5, <1>7, <2>1, <2>5, <3>2
    <3> QED BY <2>2, <2>5, <3>1, <3>2
  <2>7. ASSUME NEW i \in DOMAIN chat', NEW j \in DOMAIN chat', chat'[i][1] = chat'[j][1], i < j
        PROVE  chat'[i][2] = "user" /\ chat'[j][2] = "assistant"
    <3>1. i \in 1 .. Len(chat) BY <2>2, <2>5, <2>7
    <3>2. CASE j \in 1 .. Len(chat) BY <1>1, <2>2, <2>5, <2>7, <3>1, <3>2 DEF RowsFit
    <3>3. CASE j = Len(chat) + 1 BY <2>1, <2>2, <2>4, <2>5, <2>7, <3>1, <3>3
    <3> QED BY <2>2, <2>5, <3>2, <3>3
  <2>8. RowsFit' BY <2>5, <2>6, <2>7 DEF RowsFit
  <2>9. model' \in {None} \cup ModelCatalog BY DEF SaveAnswer, ChatInv
  <2> QED BY <1>2, <1>4, <2>8, <2>9, OneTurn
<1> QED BY <1>6, <1>7 DEF SaveAnswer


\* Any other step of a turn writes no row.
LEMMA NoRow ==
  ASSUME ChatInv, NEW t \in Turns, NEW v, TurnInv(v), turn' = [turn EXCEPT ![t] = v],
         turn[t].pc \notin {"new", "over"}, v.pc # "new", UNCHANGED <<chat, model>>
  PROVE  ChatInv'
<1>1. RowsFit' BY ChatRowsStay
<1> QED BY <1>1, OneTurn DEF ChatInv

\* What is sent beside the texts changes nothing of them.
LEMMA TextsStay ==
  ASSUME NEW s, NEW n, NEW e, Range(n) = Range(s) \cup {e}, e[1] # "text-end"
  PROVE  EndedTexts(n) = EndedTexts(s)
BY DEF EndedTexts

\* The model is resolved, and the stream begins.
LEMMA PreparePart == ASSUME ChatInv, NEW t \in Turns, Prepare(t) PROVE ChatInv'
<1>1. turn[t].pc = "asked" /\ TurnInv(turn[t]) /\ turn = [x \in Turns |-> turn[x]] BY DEF Prepare, TurnAt, ChatInv
<1> DEFINE v == [turn[t] EXCEPT !.pc = "open", !.sent = turn[t].sent \o <<<<"start">>>>]
<1>2. turn' = [turn EXCEPT ![t] = v] BY <1>1 DEF Prepare, Sends
<1>3. turn[t].sent = <<>> /\ turn[t].parts = <<>> /\ turn[t].told = <<>> BY <1>1 DEF TurnInv, Readable
<1>4. <<"start">> \in StreamEvents BY DEF StreamEvents
<1>5. turn[t].sent \o <<<<"start">>>> = <<<<"start">>>> /\ <<<<"start">>>> \in Seq(StreamEvents)
  BY <1>3, <1>4
<1>6. v \in TurnRecords /\ v.pc = "open" /\ v.sent = <<<<"start">>>> /\ v.parts = <<>> /\ v.told = <<>>
  BY <1>1, <1>3, <1>5 DEF TurnInv, TurnRecords, Places
<1> HIDE DEF v
<1>7. Range(<<<<"start">>>>) = {<<"start">>} BY DEF Range
<1>8. WellFormed(v.sent) BY <1>6 DEF WellFormed
<1>9. EndedTexts(v.sent) = {} BY <1>6, <1>7 DEF EndedTexts
<1>10. Readable(v) BY <1>6, <1>7, <1>8, <1>9 DEF Readable, FirstOf, Range
<1>11. Streams(v) /\ Keeps(v) /\ Tells(v)
  BY <1>6, <1>7, <1>9 DEF Streams, Keeps, Tells, Underway, InRound, Texts, Tools, CallsAnswered
<1>12. RowsFit' BY <1>1, <1>2, <1>6, ChatRowsStay DEF Prepare
<1>13. model' \in {None} \cup ModelCatalog
  <2>1. PICK requested, preferred \in {None} \cup ModelCatalog, canSelect \in BOOLEAN :
          model' = Resolved(requested, preferred, canSelect)
    BY DEF Prepare
  <2>2. \E m \in ModelCatalog :
          IF canSelect /\ requested \in ModelCatalog THEN m = requested
          ELSE IF canSelect /\ preferred \in ModelCatalog THEN m = preferred
          ELSE IF model \in ModelCatalog THEN m = model
          ELSE m = DefaultModel
    BY ChatAssumption
  <2>3. Resolved(requested, preferred, canSelect) \in ModelCatalog BY <2>2 DEF Resolved
  <2> QED BY <2>1, <2>3
<1> QED BY <1>2, <1>6, <1>10, <1>11, <1>12, <1>13, OneTurn DEF TurnInv

\* A turn is left: it never began, its tab is found closed, or it is cancelled.
LEMMA LeavePart ==
  ASSUME ChatInv, NEW t \in Turns, PrepareFails(t) \/ TabFoundClosed(t) \/ CancelTurn(t)
  PROVE  ChatInv'
<1>1. /\ turn[t].pc \in {"asked", "open", "chunk", "ended", "tools", "running", "closing"}
      /\ TurnInv(turn[t]) /\ turn = [x \in Turns |-> turn[x]]
  BY DEF PrepareFails, TabFoundClosed, CancelTurn, TurnAt, ChatInv
<1>2. PICK q \in {"closing", "over"} : turn' = [turn EXCEPT ![t].pc = q]
  BY DEF PrepareFails, TabFoundClosed, CancelTurn, TurnTo
<1> DEFINE v == [turn[t] EXCEPT !.pc = q]
<1>3. turn' = [turn EXCEPT ![t] = v] BY <1>1, <1>2
<1>4. v \in TurnRecords /\ v.pc = q /\ v.sent = turn[t].sent /\ v.parts = turn[t].parts
  BY <1>1 DEF TurnInv, TurnRecords, Places
<1> HIDE DEF v
<1>5. TurnInv(v) BY <1>1, <1>4, LeftAlone
<1>6. UNCHANGED <<chat, model>> BY DEF PrepareFails, TabFoundClosed, CancelTurn
<1> QED BY <1>1, <1>3, <1>4, <1>5, <1>6, NoRow

\* The tab is closed, which by itself changes nothing else.
LEMMA ClosePart == ASSUME ChatInv, NEW t \in Turns, CloseTab(t) PROVE ChatInv'
<1>1. TurnInv(turn[t]) /\ turn = [x \in Turns |-> turn[x]] BY DEF ChatInv
<1> DEFINE v == [turn[t] EXCEPT !.gone = TRUE]
<1>2. turn' = [turn EXCEPT ![t] = v] BY <1>1 DEF CloseTab
<1>3. /\ v \in TurnRecords /\ v.pc = turn[t].pc /\ v.sent = turn[t].sent /\ v.parts = turn[t].parts
      /\ v.told = turn[t].told /\ v.round = turn[t].round /\ v.text = turn[t].text
      /\ v.calls = turn[t].calls /\ v.next = turn[t].next
  BY <1>1 DEF TurnInv, TurnRecords
<1> HIDE DEF v
<1>4. Readable(v) BY <1>1, <1>3 DEF TurnInv, Readable
<1>5. Streams(v) BY <1>1, <1>3 DEF TurnInv, Streams, Underway, InRound
<1>6. Keeps(v) BY <1>1, <1>3 DEF TurnInv, Keeps
<1>7. Tells(v) BY <1>1, <1>3 DEF TurnInv, Tells, InRound
<1>8. turn[t].pc \notin {"new", "over"} /\ UNCHANGED <<chat, model>> BY DEF CloseTab
<1> QED BY <1>2, <1>3, <1>4, <1>5, <1>6, <1>7, <1>8, NoRow DEF TurnInv

\* A turn ends: its last event is [DONE].
LEMMA EndsStream ==
  ASSUME NEW u, TurnInv(u), Underway(u), NEW e \in {<<"finish">>, <<"error">>}
  PROVE  LET n == u.sent \o <<e, <<"done">>>> IN
         /\ n \in Seq(StreamEvents) /\ WellFormed(n)
         /\ Range(n) = Range(u.sent) \cup {e, <<"done">>}
         /\ EndedTexts(n) = EndedTexts(u.sent)
<1> DEFINE s == u.sent
           one == Append(s, e)
           two == Append(one, <<"done">>)
<1>1. /\ s \in Seq(StreamEvents) /\ s # <<>> /\ WellFormed(s) /\ <<"done">> \notin Range(s)
  BY DEF TurnInv, TurnRecords, Readable, Streams
<1>2. /\ e \in StreamEvents /\ <<"done">> \in StreamEvents /\ e # <<"done">>
      /\ e[1] \notin {"text-delta", "text-end", "tool-output"}
  BY DEF StreamEvents
<1>3. one \in Seq(StreamEvents) /\ one # <<>> /\ WellFormed(one) /\ Range(one) = Range(s) \cup {e}
  BY <1>1, <1>2, StreamGoesOn
<1>4. <<"done">> \notin Range(one) BY <1>1, <1>2, <1>3
<1>5. two \in Seq(StreamEvents) /\ WellFormed(two) /\ Range(two) = Range(one) \cup {<<"done">>}
  <2> HIDE DEF one
  <2> QED BY <1>2, <1>3, <1>4, StreamGoesOn
<1>6. s \o <<e, <<"done">>>> = two BY <1>1, <1>2, InTurn
<1>7. EndedTexts(two) = EndedTexts(s)
  <2> HIDE DEF one, two
  <2>1. EndedTexts(one) = EndedTexts(s) BY <1>2, <1>3, TextsStay
  <2>2. <<"done">>[1] # "text-end" OBVIOUS
  <2>3. EndedTexts(two) = EndedTexts(one) BY <1>5, <2>2, TextsStay
  <2> QED BY <2>1, <2>3
<1> HIDE DEF one, two
<1> QED BY <1>3, <1>5, <1>6, <1>7


\* The loop over the rounds is left, or goes on.
LEMMA OpenPart == ASSUME ChatInv, NEW t \in Turns, OpenRound(t) PROVE ChatInv'
<1> DEFINE u == turn[t]
<1>1. u.pc = "open" /\ TurnInv(u) /\ Underway(u) /\ turn = [x \in Turns |-> turn[x]] /\ UNCHANGED <<chat, model>>
  BY DEF OpenRound, TurnAt, ChatInv, Underway
<1>2. CASE u.round = MaxToolRounds \/ u.gone
  <2> DEFINE n == u.sent \o <<<<"finish">>, <<"done">>>>
             v == [u EXCEPT !.pc = "closing", !.sent = n]
  <2>1. turn' = [turn EXCEPT ![t] = v] BY <1>1, <1>2 DEF OpenRound, EndTurn, Sends
  <2>2. /\ n \in Seq(StreamEvents) /\ WellFormed(n) /\ Range(n) = Range(u.sent) \cup {<<"finish">>, <<"done">>}
        /\ EndedTexts(n) = EndedTexts(u.sent)
    BY <1>1, EndsStream
  <2> HIDE DEF n
  <2>3. v \in TurnRecords /\ v.pc = "closing" /\ v.sent = n /\ v.parts = u.parts
    BY <1>1, <2>2 DEF TurnInv, TurnRecords, Places
  <2> HIDE DEF v
  <2>4. Readable(v) BY <1>1, <2>2, <2>3 DEF TurnInv, Readable, Keeps
  <2>5. TurnInv(v) BY <2>3, <2>4 DEF TurnInv, Streams, Keeps, Tells, Underway, InRound
  <2> QED BY <1>1, <2>1, <2>3, <2>5, NoRow
<1>3. CASE ~(u.round = MaxToolRounds \/ u.gone)
  <2> DEFINE v == [u EXCEPT !.pc = "chunk", !.text = 0, !.calls = 0, !.next = 1]
  <2>1. turn' = [turn EXCEPT ![t] = v] BY <1>1, <1>3 DEF OpenRound
  <2>2. /\ v \in TurnRecords /\ v.pc = "chunk" /\ v.sent = u.sent /\ v.parts = u.parts /\ v.told = u.told
        /\ v.round = u.round /\ v.text = 0 /\ v.calls = 0 /\ v.next = 1
    <3>1. 0 \in 0 .. MaxChunks /\ 0 \in 0 .. MaxCalls /\ 1 \in Nat BY ChatAssumption
    <3>2. u \in TurnRecords /\ "chunk" \in Places BY <1>1 DEF TurnInv, Places
    <3> HIDE DEF u
    <3> QED BY <3>1, <3>2 DEF TurnRecords
  <2> HIDE DEF v
  <2>3. Readable(v) BY <1>1, <2>2 DEF TurnInv, Readable
  <2>4. u.round < MaxToolRounds /\ u.round \in Nat BY <1>1, <1>3, ChatAssumption DEF TurnInv, TurnRecords
  <2>5. Streams(v)
    <3>1. <<"text-end", u.round>> \notin Range(u.sent)
      <4>1. <<"text-end", u.round>>[1] = "text-end" /\ <<"text-end", u.round>>[2] = u.round OBVIOUS
      <4>2. \A e \in Range(u.sent) : e[1] \in Texts \cup Tools => e[2] < u.round BY <1>1 DEF TurnInv, Streams
      <4> QED BY <2>4, <4>1, <4>2 DEF Texts
    <3> QED BY <1>1, <2>2, <3>1 DEF TurnInv, Streams, Underway, InRound
  <2>6. Keeps(v) BY <1>1, <2>2 DEF TurnInv, Keeps
  <2>7. Tells(v) BY <1>1, <2>2, <2>4 DEF TurnInv, Tells, InRound
  <2> QED BY <1>1, <2>1, <2>2, <2>3, <2>5, <2>6, <2>7, NoRow DEF TurnInv
<1> QED BY <1>2, <1>3

\* The model's service fails.
LEMMA FailsPart == ASSUME ChatInv, NEW t \in Turns, RoundFails(t) PROVE ChatInv'
<1> DEFINE u == turn[t]
           n == u.sent \o <<<<"error">>, <<"done">>>>
           v == [u EXCEPT !.pc = "closing", !.sent = n]
<1>1. /\ u.pc \in {"open", "chunk"} /\ TurnInv(u) /\ Underway(u) /\ turn = [x \in Turns |-> turn[x]]
      /\ UNCHANGED <<chat, model>>
  BY DEF RoundFails, ChatInv, Underway, InRound
<1>2. turn' = [turn EXCEPT ![t] = v] BY <1>1 DEF RoundFails, Sends
<1>3. /\ n \in Seq(StreamEvents) /\ WellFormed(n) /\ Range(n) = Range(u.sent) \cup {<<"error">>, <<"done">>}
      /\ EndedTexts(n) = EndedTexts(u.sent)
  BY <1>1, EndsStream
<1> HIDE DEF n
<1>4. v \in TurnRecords /\ v.pc = "closing" /\ v.sent = n /\ v.parts = u.parts
  BY <1>1, <1>3 DEF TurnInv, TurnRecords, Places
<1> HIDE DEF v
<1>5. Readable(v) BY <1>1, <1>3, <1>4 DEF TurnInv, Readable, Keeps
<1>6. TurnInv(v) BY <1>4, <1>5 DEF TurnInv, Streams, Keeps, Tells, Underway, InRound
<1> QED BY <1>1, <1>2, <1>4, <1>6, NoRow

\* A piece of text is sent, the first one after the beginning of its part.
LEMMA TextPart == ASSUME ChatInv, NEW t \in Turns, TextPiece(t) PROVE ChatInv'
<1> DEFINE u == turn[t]
           r == u.round
           s == u.sent
           begin == <<"text-start", r>>
           delta == <<"text-delta", r>>
           o == IF u.text = 0 THEN Append(s, begin) ELSE s
           n == Append(o, delta)
           v == [u EXCEPT !.text = u.text + 1, !.sent = n]
<1>1. /\ u.pc = "chunk" /\ TurnInv(u) /\ turn = [x \in Turns |-> turn[x]] /\ u.text < MaxChunks
      /\ UNCHANGED <<chat, model>>
  BY DEF TextPiece, TurnAt, ChatInv
<1>2. /\ s \in Seq(StreamEvents) /\ s # <<>> /\ WellFormed(s) /\ <<"done">> \notin Range(s)
      /\ <<"finish">> \notin Range(s) /\ r \in Nat
      /\ <<"text-end", r>> \notin Range(s)
      /\ \A e \in Range(s) : /\ e[1] \in Texts \cup Tools => e[2] <= r
                             /\ e[1] \in Tools => e[2] < r
      /\ u.text # 0 => begin \in Range(s)
  BY <1>1, ChatAssumption DEF TurnInv, TurnRecords, Readable, Streams, Underway, InRound
<1>3. begin \in StreamEvents /\ delta \in StreamEvents BY <1>2 DEF StreamEvents, Texts
<1>4. turn' = [turn EXCEPT ![t] = v]
  <2>1. s \o (IF u.text = 0 THEN <<begin>> ELSE <<>>) = o BY <1>2, <1>3, InTurn
  <2>2. o \in Seq(StreamEvents) BY <1>2, <1>3, OneMore
  <2>3. o \o <<delta>> = n BY <1>3, <2>2, InTurn
  <2>4. turn' = [turn EXCEPT ![t].text = @ + 1,
                   ![t].sent = @ \o (IF u.text = 0 THEN <<begin>> ELSE <<>>) \o <<delta>>]
    BY DEF TextPiece
  <2> QED BY <1>1, <2>1, <2>3, <2>4
<1>5. /\ o \in Seq(StreamEvents) /\ o # <<>> /\ WellFormed(o) /\ Range(o) = Range(s) \cup {begin}
      /\ EndedTexts(o) = EndedTexts(s)
  <2>1. CASE u.text = 0
    <3>1. begin[1] = "text-start" OBVIOUS
    <3>2. o = Append(s, begin) BY <2>1
    <3> HIDE DEF begin, o
    <3>3. /\ o \in Seq(StreamEvents) /\ o # <<>> /\ WellFormed(o) /\ Range(o) = Range(s) \cup {begin}
      BY <1>2, <1>3, <3>1, <3>2, StreamGoesOn
    <3> QED BY <3>1, <3>3, TextsStay
  <2>2. CASE u.text # 0 BY <1>2, <2>2
  <2> QED BY <2>1, <2>2
<1>6. /\ n \in Seq(StreamEvents) /\ n # <<>> /\ WellFormed(n) /\ Range(n) = Range(s) \cup {begin, delta}
      /\ EndedTexts(n) = EndedTexts(s)
  <2>1. delta[1] = "text-delta" /\ delta[2] = r /\ begin = <<"text-start", delta[2]>> OBVIOUS
  <2>2. <<"done">> \notin Range(o) /\ <<"text-end", r>> \notin Range(o) /\ begin \in Range(o)
    <3>1. begin # <<"done">> /\ begin # <<"text-end", r>> OBVIOUS
    <3> HIDE DEF begin, o
    <3> QED BY <1>2, <1>5, <3>1
  <2> HIDE DEF delta, begin, o
  <2>3. /\ n \in Seq(StreamEvents) /\ n # <<>> /\ WellFormed(n) /\ Range(n) = Range(o) \cup {delta}
    BY <1>3, <1>5, <2>1, <2>2, StreamGoesOn
  <2> HIDE DEF n
  <2>4. EndedTexts(n) = EndedTexts(o) BY <2>1, <2>3, TextsStay
  <2> QED BY <1>5, <2>3, <2>4
<1>7. /\ begin[1] = "text-start" /\ begin[2] = r /\ delta[1] = "text-delta" /\ delta[2] = r
      /\ begin # <<"done">> /\ begin # <<"finish">> /\ delta # <<"done">> /\ delta # <<"finish">>
      /\ begin # <<"text-end", r>> /\ delta # <<"text-end", r>> /\ begin = <<"text-start", r>>
  OBVIOUS
<1> HIDE DEF n, o, begin, delta
<1>8. /\ v \in TurnRecords /\ v.pc = "chunk" /\ v.sent = n /\ v.parts = u.parts /\ v.told = u.told
      /\ v.round = r /\ v.text = u.text + 1 /\ v.calls = u.calls /\ v.next = u.next
  <2>1. u \in TurnRecords /\ u.pc = "chunk" BY <1>1 DEF TurnInv
  <2>2. u.text + 1 \in 0 .. MaxChunks BY <1>1, <2>1, ChatAssumption DEF TurnRecords
  <2> HIDE DEF u
  <2> QED BY <1>6, <2>1, <2>2 DEF TurnRecords
<1>9. v.text # 0 BY <1>1, <1>8, ChatAssumption DEF TurnInv, TurnRecords
<1> HIDE DEF v
<1>10. Readable(v) BY <1>1, <1>2, <1>6, <1>7, <1>8 DEF TurnInv, Readable
<1>11. Streams(v)
  <2>1. \A e \in Range(n) : /\ e[1] \in Texts \cup Tools => e[2] <= r
                            /\ e[1] \in Tools => e[2] < r
    BY <1>2, <1>6, <1>7 DEF Texts, Tools
  <2> QED BY <1>2, <1>6, <1>7, <1>8, <1>9, <2>1 DEF Streams, Underway, InRound
<1>12. Keeps(v) BY <1>1, <1>6, <1>8 DEF TurnInv, Keeps
<1>13. Tells(v) BY <1>1, <1>8 DEF TurnInv, Tells, InRound
<1> QED BY <1>1, <1>4, <1>8, <1>10, <1>11, <1>12, <1>13, NoRow DEF TurnInv

\* A piece of a tool call is collected.
LEMMA CallPart == ASSUME ChatInv, NEW t \in Turns, CallPiece(t) PROVE ChatInv'
<1> DEFINE u == turn[t]
           v == [u EXCEPT !.calls = u.calls + 1]
<1>1. /\ u.pc = "chunk" /\ TurnInv(u) /\ turn = [x \in Turns |-> turn[x]] /\ u.calls < MaxCalls
      /\ UNCHANGED <<chat, model>>
  BY DEF CallPiece, TurnAt, ChatInv
<1>2. turn' = [turn EXCEPT ![t] = v] BY <1>1 DEF CallPiece
<1>3. /\ v \in TurnRecords /\ v.pc = "chunk" /\ v.sent = u.sent /\ v.parts = u.parts
      /\ v.told = u.told /\ v.round = u.round /\ v.text = u.text /\ v.next = u.next
  <2>1. u \in TurnRecords BY <1>1 DEF TurnInv
  <2>2. u.calls + 1 \in 0 .. MaxCalls BY <1>1, <2>1, ChatAssumption DEF TurnRecords
  <2> HIDE DEF u
  <2> QED BY <1>1, <2>1, <2>2 DEF TurnRecords
<1> HIDE DEF v
<1>4. Readable(v) BY <1>1, <1>3 DEF TurnInv, Readable
<1>5. Streams(v) BY <1>1, <1>3 DEF TurnInv, Streams, Underway, InRound
<1>6. Keeps(v) BY <1>1, <1>3 DEF TurnInv, Keeps
<1>7. Tells(v) BY <1>1, <1>3 DEF TurnInv, Tells, InRound
<1> QED BY <1>1, <1>2, <1>3, <1>4, <1>5, <1>6, <1>7, NoRow DEF TurnInv


\* The stream of the round is through.
LEMMA RoundEndsPart == ASSUME ChatInv, NEW t \in Turns, RoundEnds(t) PROVE ChatInv'
<1> DEFINE u == turn[t]
           r == u.round
           s == u.sent
           end == <<"text-end", r>>
<1>1. /\ u.pc = "chunk" /\ TurnInv(u) /\ turn = [x \in Turns |-> turn[x]] /\ UNCHANGED <<chat, model>>
  BY DEF RoundEnds, TurnAt, ChatInv
<1>2. /\ s \in Seq(StreamEvents) /\ s # <<>> /\ WellFormed(s) /\ <<"done">> \notin Range(s)
      /\ <<"finish">> \notin Range(s) /\ r \in Nat
      /\ <<"text-end", r>> \notin Range(s)
      /\ \A e \in Range(s) : /\ e[1] \in Texts \cup Tools => e[2] <= r
                             /\ e[1] \in Tools => e[2] < r
      /\ u.text # 0 => <<"text-start", r>> \in Range(s)
  BY <1>1, ChatAssumption DEF TurnInv, TurnRecords, Readable, Streams, Underway, InRound
<1>3. /\ EndedTexts(s) \subseteq Range(u.parts) /\ Range(u.parts) \subseteq EndedTexts(s)
      /\ r \notin EndedTexts(s)
  <2>1. EndedTexts(s) \subseteq Range(u.parts) /\ Range(u.parts) \subseteq EndedTexts(s)
    BY <1>1 DEF TurnInv, Keeps, Readable, FirstOf
  <2>2. \A e \in Range(s) : e[1] = "text-end" => e = <<"text-end", e[2]>>
    BY <1>2, EventIs, RangeOfSeq DEF Texts
  <2>3. r \notin EndedTexts(s) BY <1>2, <2>2 DEF EndedTexts
  <2> QED BY <2>1, <2>3
<1> DEFINE n == IF u.text = 0 THEN s ELSE Append(s, end)
           v == [u EXCEPT !.pc = "ended", !.sent = n]
<1>4. /\ end \in StreamEvents /\ end[1] = "text-end" /\ end[2] = r /\ end # <<"done">> /\ end # <<"finish">>
  BY <1>2 DEF StreamEvents, Texts
<1>5. turn' = [turn EXCEPT ![t] = v]
  <2>1. s \o <<>> = s /\ s \o <<end>> = Append(s, end) BY <1>2, <1>4, InTurn
  <2>2. s \o (IF u.text = 0 THEN <<>> ELSE <<end>>) = n BY <2>1
  <2> QED BY <1>1, <2>2 DEF RoundEnds, Sends
<1>6. /\ n \in Seq(StreamEvents) /\ n # <<>> /\ WellFormed(n)
      /\ Range(n) = IF u.text = 0 THEN Range(s) ELSE Range(s) \cup {end}
      /\ EndedTexts(n) = IF u.text = 0 THEN EndedTexts(s) ELSE EndedTexts(s) \cup {r}
  <2>1. CASE u.text = 0 BY <1>2, <2>1
  <2>2. CASE u.text # 0
    <3>1. n = Append(s, end) BY <2>2
    <3>2. \A f \in Range(s) : f[1] = "text-end" => f[2] < end[2]
      <4>1. \A f \in Range(s) : f[1] = "text-end" => f = <<"text-end", f[2]>> /\ f[2] \in Nat /\ f[2] <= r
        BY <1>2, EventIs, RangeOfSeq DEF Texts
      <4> QED BY <1>2, <1>4, <4>1
    <3>3. <<"text-start", end[2]>> \in Range(s) /\ <<"text-end", end[2]>> \notin Range(s) BY <1>2, <1>4, <2>2
    <3> HIDE DEF end, n
    <3>4. n \in Seq(StreamEvents) /\ n # <<>> /\ WellFormed(n) /\ Range(n) = Range(s) \cup {end}
      BY <1>2, <1>4, <3>1, <3>2, <3>3, StreamGoesOn
    <3>5. EndedTexts(n) = EndedTexts(s) \cup {r} BY <1>4, <3>4 DEF EndedTexts
    <3> QED BY <2>2, <3>4, <3>5
  <2> QED BY <2>1, <2>2
<1> HIDE DEF n
<1>7. /\ v \in TurnRecords /\ v.pc = "ended" /\ v.sent = n /\ v.parts = u.parts /\ v.told = u.told
      /\ v.round = r /\ v.text = u.text /\ v.next = u.next
  BY <1>1, <1>6 DEF TurnInv, TurnRecords, Places
<1> HIDE DEF v
<1>8. Readable(v)
  <2>1. FirstOf(v.parts, EndedTexts(v.sent))
    <3>1. \A p \in Range(u.parts) : p \in Nat /\ p <= r
      <4>1. \A f \in Range(s) : f[1] = "text-end" => f[2] \in Nat /\ f[2] <= r
        BY <1>2, EventIs, RangeOfSeq DEF Texts
      <4> QED BY <1>3, <4>1 DEF EndedTexts
    <3>2. FirstOf(u.parts, EndedTexts(s)) BY <1>1 DEF TurnInv, Readable
    <3> QED BY <1>2, <1>6, <1>7, <3>1, <3>2 DEF FirstOf
  <2>2. <<"finish">> \notin Range(v.sent) BY <1>2, <1>4, <1>6, <1>7
  <2> QED BY <1>6, <1>7, <2>1, <2>2 DEF Readable
<1>9. Streams(v)
  <2>1. \A e \in Range(n) : /\ e[1] \in Texts \cup Tools => e[2] <= r
                            /\ e[1] \in Tools => e[2] < r
    BY <1>2, <1>4, <1>6 DEF Texts, Tools
  <2>2. <<"text-end", r>> \in Range(n) <=> u.text # 0 BY <1>2, <1>6
  <2>3. <<"done">> \notin Range(n) /\ <<"finish">> \notin Range(n) BY <1>2, <1>4, <1>6
  <2> QED BY <1>6, <1>7, <2>1, <2>2, <2>3 DEF Streams, Underway, InRound
<1>10. Keeps(v) BY <1>3, <1>6, <1>7 DEF Keeps
<1>11. Tells(v) BY <1>1, <1>7 DEF TurnInv, Tells, InRound
<1> QED BY <1>1, <1>5, <1>7, <1>8, <1>9, <1>10, <1>11, NoRow DEF TurnInv

\* The text of the round that has ended is kept.
LEMMA TextKept ==
  ASSUME NEW t \in Turns, TurnInv(turn[t]), turn[t].pc = "ended"
  PROVE  /\ KeepText(t) \in Seq(Nat)
         /\ FirstOf(KeepText(t), EndedTexts(turn[t].sent))
         /\ EndedTexts(turn[t].sent) \subseteq Range(KeepText(t))
<1> DEFINE u == turn[t]
           r == u.round
           s == u.sent
           p == u.parts
           k == KeepText(t)
<1>1. /\ s \in Seq(StreamEvents) /\ r \in Nat /\ p \in Seq(Nat)
      /\ <<"text-end", r>> \in Range(s) <=> u.text # 0
      /\ \A e \in Range(s) : e[1] \in Texts \cup Tools => e[2] <= r
      /\ FirstOf(p, EndedTexts(s)) /\ EndedTexts(s) \subseteq Range(p) \cup {r} /\ r \notin Range(p)
  BY ChatAssumption DEF TurnInv, TurnRecords, Readable, Streams, Keeps, Underway, InRound
<1>2. \A e \in Range(s) : e[1] = "text-end" => e = <<"text-end", e[2]>> /\ e[2] \in Nat /\ e[2] <= r
  BY <1>1, EventIs, RangeOfSeq DEF Texts
<1>3. r \in EndedTexts(s) <=> u.text # 0
  <2>1. <<"text-end", r>>[1] = "text-end" /\ <<"text-end", r>>[2] = r OBVIOUS
  <2> QED BY <1>1, <1>2, <2>1 DEF EndedTexts
<1>4. CASE u.text = 0
  <2>1. k = p BY <1>4 DEF KeepText
  <2> QED BY <1>1, <1>3, <1>4, <2>1
<1>5. CASE u.text # 0
  <2>1. k = Append(p, r) BY <1>5 DEF KeepText
  <2> HIDE DEF k, p, r
  <2>2. /\ k \in Seq(Nat) /\ Len(p) \in Nat /\ DOMAIN p = 1 .. Len(p) /\ DOMAIN k = 1 .. (Len(p) + 1)
        /\ \A i \in 1 .. Len(p) : k[i] = p[i]
        /\ k[Len(p) + 1] = r
        /\ Range(k) = Range(p) \cup {r}
    <3>1. r \in Nat /\ p \in Seq(Nat) BY <1>1
    <3> QED BY <2>1, <3>1, OneMore
  <2>3. \A i \in 1 .. Len(p) : p[i] \in Nat /\ p[i] < r
    <3>1. \A q \in EndedTexts(s) : q \in Nat /\ q <= r BY <1>2 DEF EndedTexts
    <3>2. \A i \in 1 .. Len(p) : p[i] \in Range(p) BY <2>2 DEF Range
    <3>3. Range(p) \subseteq EndedTexts(s) BY <1>1 DEF FirstOf
    <3> QED BY <1>1, <3>1, <3>2, <3>3
  <2>4. \A i, j \in DOMAIN k : i < j => k[i] < k[j]
    <3>1. \A i, j \in DOMAIN p : i < j => p[i] < p[j] BY <1>1 DEF FirstOf
    <3>2. ASSUME NEW i \in DOMAIN k, NEW j \in DOMAIN k, i < j PROVE k[i] < k[j]
      <4>1. i \in 1 .. Len(p) /\ (j \in 1 .. Len(p) \/ j = Len(p) + 1) BY <2>2, <3>2
      <4>2. CASE j \in 1 .. Len(p) BY <2>2, <3>1, <3>2, <4>1, <4>2
      <4>3. CASE j = Len(p) + 1 BY <2>2, <2>3, <4>1, <4>3
      <4> QED BY <4>1, <4>2, <4>3
    <3> QED BY <3>2
  <2>5. Range(k) \subseteq EndedTexts(s) BY <1>1, <1>3, <1>5, <2>2 DEF FirstOf
  <2>6. EndedTexts(s) \subseteq Range(k) BY <1>1, <2>2
  <2> QED BY <2>2, <2>4, <2>5, <2>6 DEF FirstOf, k
<1> QED BY <1>4, <1>5


\* The answer is complete, or the model is told of the tools it has asked for.
LEMMA ToToolsPart == ASSUME ChatInv, NEW t \in Turns, TurnToTools(t) PROVE ChatInv'
<1> DEFINE u == turn[t]
           k == KeepText(t)
           ended == EndedTexts(u.sent)
<1>1. /\ u.pc = "ended" /\ TurnInv(u) /\ Underway(u) /\ turn = [x \in Turns |-> turn[x]]
      /\ UNCHANGED <<chat, model>>
  BY DEF TurnToTools, TurnAt, ChatInv, Underway, InRound
<1>2. k \in Seq(Nat) /\ FirstOf(k, ended) /\ ended \subseteq Range(k) BY <1>1, TextKept
<1>3. CASE u.calls = 0
  <2> DEFINE n == u.sent \o <<<<"finish">>, <<"done">>>>
             v == [u EXCEPT !.pc = "closing", !.parts = k, !.sent = n]
  <2>1. turn' = [turn EXCEPT ![t] = v] BY <1>1, <1>3 DEF TurnToTools
  <2>2. n \in Seq(StreamEvents) /\ WellFormed(n) /\ EndedTexts(n) = ended BY <1>1, EndsStream
  <2> HIDE DEF n, k
  <2>3. v \in TurnRecords /\ v.pc = "closing" /\ v.sent = n /\ v.parts = k
    BY <1>1, <1>2, <2>2 DEF TurnInv, TurnRecords, Places
  <2> HIDE DEF v, ended
  <2>4. Readable(v) BY <1>2, <2>2, <2>3 DEF Readable
  <2>5. TurnInv(v) BY <2>3, <2>4 DEF TurnInv, Streams, Keeps, Tells, Underway, InRound
  <2> QED BY <1>1, <2>1, <2>3, <2>5, NoRow
<1>4. CASE u.calls # 0
  <2> DEFINE m == <<"calls", u.round, u.calls>>
             w == Append(u.told, m)
             v == [u EXCEPT !.pc = "tools", !.parts = k, !.told = w]
  <2>1. turn' = [turn EXCEPT ![t] = v] BY <1>1, <1>4 DEF TurnToTools
  <2>2. u.round \in Nat /\ u.calls \in Nat /\ u.told \in Seq(Messages) /\ u.next = 1 /\ CallsAnswered(u.told)
    BY <1>1, ChatAssumption DEF TurnInv, TurnRecords, Tells
  <2>3. m \in Messages BY <2>2 DEF Messages
  <2> HIDE DEF m, k
  <2>4. /\ w \in Seq(Messages) /\ Len(u.told) \in Nat /\ DOMAIN u.told = 1 .. Len(u.told)
        /\ Len(w) = Len(u.told) + 1
        /\ \A i \in 1 .. Len(u.told) : w[i] = u.told[i]
        /\ w[Len(u.told) + 1] = m
    BY <2>2, <2>3, OneMore
  <2> HIDE DEF w
  <2>5. /\ v \in TurnRecords /\ v.pc = "tools" /\ v.sent = u.sent /\ v.parts = k /\ v.told = w
        /\ v.round = u.round /\ v.calls = u.calls /\ v.next = 1
    BY <1>1, <1>2, <2>2, <2>4 DEF TurnInv, TurnRecords, Places
  <2> HIDE DEF v
  <2>6. Readable(v) BY <1>1, <1>2, <2>5 DEF TurnInv, Readable
  <2>7. Streams(v)
    <3>1. \A e \in Range(u.sent) : e[1] = "tool-output" /\ e[2] = u.round => e[3] < 1
      <4>1. \A e \in Range(u.sent) : e[1] \in Tools => e[2] < u.round BY <1>1 DEF TurnInv, Streams
      <4> QED BY <2>2, <4>1 DEF Tools
    <3> QED BY <1>1, <2>5, <3>1 DEF TurnInv, Streams, Underway, InRound
  <2>8. Keeps(v) BY <1>2, <2>5 DEF Keeps
  <2>9. Tells(v)
    <3> DEFINE c == Len(u.told) + 1
    <3>1. c \in 1 .. Len(w) /\ c + 1 = Len(w) + 1 /\ w[c] = <<"calls", u.round, u.calls>> BY <2>4 DEF m
    <3>2. 1 <= u.calls + 1 BY <2>2
    <3>3. ASSUME NEW i \in 1 .. (c - 1), w[i][1] = "calls"
          PROVE  /\ i + w[i][3] < c
                 /\ \A q \in 1 .. w[i][3] : w[i + q] = <<"tool", w[i][2], q>>
      <4>1. i \in 1 .. Len(u.told) /\ w[i] = u.told[i] BY <2>4
      <4>2. u.told[i] \in Messages BY <2>2, <2>4, <4>1, ElementOfSeq
      <4>3. u.told[i][3] \in Nat BY <4>2 DEF Messages
      <4>4. /\ i + u.told[i][3] <= Len(u.told)
            /\ \A q \in 1 .. u.told[i][3] : u.told[i + q] = <<"tool", u.told[i][2], q>>
        BY <2>2, <2>4, <3>3, <4>1 DEF CallsAnswered
      <4>5. \A q \in 1 .. u.told[i][3] : i + q \in 1 .. Len(u.told) BY <2>4, <4>1, <4>3, <4>4
      <4>6. i + w[i][3] < c BY <2>4, <4>1, <4>3, <4>4
      <4>7. \A q \in 1 .. w[i][3] : w[i + q] = <<"tool", w[i][2], q>> BY <2>4, <4>1, <4>4, <4>5
      <4> QED BY <4>6, <4>7
    <3>4. \A q \in 1 .. (v.next - 1) : v.told[c + q] = <<"tool", v.round, q>> BY <2>5
    <3>5. v.round < MaxToolRounds BY <1>1, <2>5 DEF TurnInv, Tells, InRound
    <3> HIDE DEF c
    <3>6. \E d \in 1 .. Len(v.told) :
            /\ 1 <= v.next /\ v.next <= v.calls + 1
            /\ d + v.next = Len(v.told) + 1
            /\ v.told[d] = <<"calls", v.round, v.calls>>
            /\ \A q \in 1 .. (v.next - 1) : v.told[d + q] = <<"tool", v.round, q>>
            /\ \A i \in 1 .. (d - 1) : v.told[i][1] = "calls" =>
                 /\ i + v.told[i][3] < d
                 /\ \A q \in 1 .. v.told[i][3] : v.told[i + q] = <<"tool", v.told[i][2], q>>
      <4>1. c \in 1 .. Len(v.told) BY <2>5, <3>1
      <4> WITNESS c \in 1 .. Len(v.told)
      <4> QED BY <2>5, <3>1, <3>2, <3>3, <3>4
    <3> QED BY <2>5, <3>5, <3>6 DEF Tells
  <2> QED BY <1>1, <2>1, <2>5, <2>6, <2>7, <2>8, <2>9, NoRow DEF TurnInv
<1> QED BY <1>3, <1>4

\* A call is announced.
LEMMA AnnouncePart == ASSUME ChatInv, NEW t \in Turns, Announce(t) PROVE ChatInv'
<1> DEFINE u == turn[t]
           r == u.round
           s == u.sent
           input == <<"tool-input", r, u.next>>
           n == Append(s, input)
           v == [u EXCEPT !.pc = "running", !.sent = n]
<1>1. /\ u.pc = "tools" /\ TurnInv(u) /\ turn = [x \in Turns |-> turn[x]] /\ u.next <= u.calls
      /\ UNCHANGED <<chat, model>>
  BY DEF Announce, TurnAt, ChatInv
<1>2. /\ s \in Seq(StreamEvents) /\ s # <<>> /\ WellFormed(s) /\ <<"done">> \notin Range(s)
      /\ <<"finish">> \notin Range(s) /\ r \in Nat /\ u.next \in Nat
      /\ \A e \in Range(s) : /\ e[1] \in Texts \cup Tools => e[2] <= r
                             /\ e[1] = "tool-output" /\ e[2] = r => e[3] < u.next
  BY <1>1, ChatAssumption DEF TurnInv, TurnRecords, Readable, Streams, Underway, InRound
<1>3. /\ input \in StreamEvents /\ input[1] = "tool-input" /\ input[2] = r
      /\ input # <<"done">> /\ input # <<"finish">> /\ input = <<"tool-input", r, u.next>>
  BY <1>2 DEF StreamEvents, Tools
<1>4. turn' = [turn EXCEPT ![t] = v]
  <2>1. s \o <<input>> = n BY <1>2, <1>3, InTurn
  <2> QED BY <1>1, <2>1 DEF Announce, Sends
<1> HIDE DEF input
<1>5. n \in Seq(StreamEvents) /\ n # <<>> /\ WellFormed(n) /\ Range(n) = Range(s) \cup {input}
  BY <1>2, <1>3, StreamGoesOn
<1> HIDE DEF n
<1>6. EndedTexts(n) = EndedTexts(s) BY <1>3, <1>5, TextsStay
<1>7. /\ v \in TurnRecords /\ v.pc = "running" /\ v.sent = n /\ v.parts = u.parts /\ v.told = u.told
      /\ v.round = r /\ v.calls = u.calls /\ v.next = u.next
  BY <1>1, <1>5 DEF TurnInv, TurnRecords, Places
<1> HIDE DEF v
<1>8. Readable(v) BY <1>1, <1>2, <1>3, <1>5, <1>6, <1>7 DEF TurnInv, Readable
<1>9. Streams(v)
  <2>1. \A e \in Range(n) : /\ e[1] \in Texts \cup Tools => e[2] <= r
                            /\ e[1] = "tool-output" /\ e[2] = r => e[3] < u.next
    BY <1>2, <1>3, <1>5
  <2>2. <<"done">> \notin Range(n) /\ <<"finish">> \notin Range(n) BY <1>2, <1>3, <1>5
  <2>3. <<"tool-input", r, u.next>> \in Range(n) BY <1>3, <1>5
  <2> QED BY <1>5, <1>7, <2>1, <2>2, <2>3 DEF Streams, Underway, InRound
<1>10. Keeps(v) BY <1>1, <1>6, <1>7 DEF TurnInv, Keeps
<1>11. Tells(v) BY <1>1, <1>7 DEF TurnInv, Tells, InRound
<1> QED BY <1>1, <1>4, <1>7, <1>8, <1>9, <1>10, <1>11, NoRow DEF TurnInv


\* A call is answered, to the tab and to the model.
LEMMA AnswerPart == ASSUME ChatInv, NEW t \in Turns, ToolAnswers(t) PROVE ChatInv'
<1> DEFINE u == turn[t]
           r == u.round
           k == u.next
           s == u.sent
           output == <<"tool-output", r, k>>
           n == Append(s, output)
           m == <<"tool", r, k>>
           w == Append(u.told, m)
           v == [u EXCEPT !.pc = "tools", !.next = k + 1, !.sent = n, !.told = w]
<1>1. /\ u.pc = "running" /\ TurnInv(u) /\ turn = [x \in Turns |-> turn[x]] /\ UNCHANGED <<chat, model>>
  BY DEF ToolAnswers, TurnAt, ChatInv
<1>2. /\ s \in Seq(StreamEvents) /\ s # <<>> /\ WellFormed(s) /\ <<"done">> \notin Range(s)
      /\ <<"finish">> \notin Range(s) /\ r \in Nat /\ k \in Nat
      /\ \A e \in Range(s) : /\ e[1] \in Texts \cup Tools => e[2] <= r
                             /\ e[1] = "tool-output" /\ e[2] = r => e[3] < k
      /\ <<"tool-input", r, k>> \in Range(s)
      /\ u.told \in Seq(Messages) /\ u.calls \in Nat /\ u.next <= u.calls
  BY <1>1, ChatAssumption DEF TurnInv, TurnRecords, Readable, Streams, Tells, Underway, InRound
<1>3. /\ output \in StreamEvents /\ output[1] = "tool-output" /\ output[2] = r /\ output[3] = k
      /\ output # <<"done">> /\ output # <<"finish">>
  BY <1>2 DEF StreamEvents, Tools
<1>4. turn' = [turn EXCEPT ![t] = v] BY <1>1 DEF ToolAnswers
<1> HIDE DEF output
<1>5. output \notin Range(s) BY <1>2, <1>3
<1>6. n \in Seq(StreamEvents) /\ n # <<>> /\ WellFormed(n) /\ Range(n) = Range(s) \cup {output}
  BY <1>2, <1>3, <1>5, StreamGoesOn
<1> HIDE DEF n
<1>7. EndedTexts(n) = EndedTexts(s) BY <1>3, <1>6, TextsStay
<1>8. m \in Messages BY <1>2 DEF Messages
<1> HIDE DEF m
<1>9. /\ w \in Seq(Messages) /\ Len(u.told) \in Nat /\ DOMAIN u.told = 1 .. Len(u.told)
      /\ Len(w) = Len(u.told) + 1
      /\ \A i \in 1 .. Len(u.told) : w[i] = u.told[i]
      /\ w[Len(u.told) + 1] = m
  BY <1>2, <1>8, OneMore
<1> HIDE DEF w
<1>10. /\ v \in TurnRecords /\ v.pc = "tools" /\ v.sent = n /\ v.parts = u.parts /\ v.told = w
       /\ v.round = r /\ v.calls = u.calls /\ v.next = k + 1
  <2>1. k + 1 \in Nat BY <1>2
  <2> QED BY <1>1, <1>6, <1>9, <2>1 DEF TurnInv, TurnRecords, Places
<1> HIDE DEF v
<1>11. Readable(v) BY <1>1, <1>2, <1>3, <1>6, <1>7, <1>10 DEF TurnInv, Readable
<1>12. Streams(v)
  <2>1. \A e \in Range(n) : e[1] \in Texts \cup Tools => e[2] <= r BY <1>2, <1>3, <1>6
  <2>2. \A e \in Range(n) : e[1] = "tool-output" /\ e[2] = r => e[3] < k + 1
    <3>1. \A e \in Range(s) : e[1] = "tool-output" => e[3] \in Nat BY <1>2, EventIs, RangeOfSeq DEF Tools
    <3> QED BY <1>2, <1>3, <1>6, <3>1
  <2>3. <<"done">> \notin Range(n) /\ <<"finish">> \notin Range(n) BY <1>2, <1>3, <1>6
  <2> QED BY <1>6, <1>10, <2>1, <2>2, <2>3 DEF Streams, Underway, InRound
<1>13. Keeps(v) BY <1>1, <1>7, <1>10 DEF TurnInv, Keeps
<1>14. Tells(v)
  <2>1. PICK c \in 1 .. Len(u.told) :
         /\ 1 <= k /\ k <= u.calls + 1
         /\ c + k = Len(u.told) + 1
         /\ u.told[c] = <<"calls", r, u.calls>>
         /\ \A q \in 1 .. (k - 1) : u.told[c + q] = <<"tool", r, q>>
         /\ \A i \in 1 .. (c - 1) : u.told[i][1] = "calls" =>
              /\ i + u.told[i][3] < c
              /\ \A q \in 1 .. u.told[i][3] : u.told[i + q] = <<"tool", u.told[i][2], q>>
    BY <1>1 DEF TurnInv, Tells
  <2> HIDE DEF r, k, u
  <2>2. c \in 1 .. Len(w) /\ c + (k + 1) = Len(w) + 1 /\ w[c] = <<"calls", r, u.calls>>
    <3>1. c \in 1 .. Len(w) BY <1>9, <2>1
    <3>2. c + (k + 1) = Len(w) + 1
      <4>1. c \in Nat /\ c + k = Len(u.told) + 1 BY <2>1
      <4>2. Len(w) = Len(u.told) + 1 /\ Len(u.told) \in Nat /\ k \in Nat BY <1>2, <1>9
      <4> QED BY <4>1, <4>2
    <3>3. w[c] = <<"calls", r, u.calls>> BY <1>9, <2>1
    <3> QED BY <3>1, <3>2, <3>3
  <2>3. 1 <= k + 1 /\ k + 1 <= u.calls + 1 BY <1>2 DEF k
  <2>4. ASSUME NEW q \in 1 .. ((k + 1) - 1) PROVE w[c + q] = <<"tool", r, q>>
    <3>1. CASE q \in 1 .. (k - 1)
      <4>1. c + q \in 1 .. Len(u.told) BY <1>2, <1>9, <2>1, <3>1
      <4> QED BY <1>9, <2>1, <3>1, <4>1
    <3>2. CASE q = k
      <4>1. c + q = Len(u.told) + 1 BY <2>1, <3>2
      <4> QED BY <1>9, <3>2, <4>1 DEF m
    <3> QED BY <1>2, <3>1, <3>2
  <2>5. ASSUME NEW i \in 1 .. (c - 1), w[i][1] = "calls"
        PROVE  /\ i + w[i][3] < c
               /\ \A q \in 1 .. w[i][3] : w[i + q] = <<"tool", w[i][2], q>>
    <3>1. i \in 1 .. Len(u.told) /\ w[i] = u.told[i] BY <1>9
    <3>2. u.told[i] \in Messages BY <1>2, <1>9, <3>1, ElementOfSeq
    <3>3. u.told[i][3] \in Nat BY <3>2 DEF Messages
    <3>4. /\ i + u.told[i][3] < c
          /\ \A q \in 1 .. u.told[i][3] : u.told[i + q] = <<"tool", u.told[i][2], q>>
      BY <2>1, <2>5, <3>1
    <3>5. \A q \in 1 .. u.told[i][3] : i + q \in 1 .. Len(u.told)
      <4>1. c \in Nat /\ c <= Len(u.told) /\ Len(u.told) \in Nat /\ i \in Nat BY <1>9, <2>1
      <4> QED BY <3>3, <3>4, <4>1
    <3>6. i + w[i][3] < c BY <3>1, <3>4
    <3>7. \A q \in 1 .. w[i][3] : w[i + q] = <<"tool", w[i][2], q>> BY <1>9, <3>1, <3>4, <3>5
    <3> QED BY <3>6, <3>7
  <2>6. v.round < MaxToolRounds BY <1>1, <1>10 DEF TurnInv, Tells, InRound, r, u
  <2>7. \E d \in 1 .. Len(v.told) :
          /\ 1 <= v.next /\ v.next <= v.calls + 1
          /\ d + v.next = Len(v.told) + 1
          /\ v.told[d] = <<"calls", v.round, v.calls>>
          /\ \A q \in 1 .. (v.next - 1) : v.told[d + q] = <<"tool", v.round, q>>
          /\ \A i \in 1 .. (d - 1) : v.told[i][1] = "calls" =>
               /\ i + v.told[i][3] < d
               /\ \A q \in 1 .. v.told[i][3] : v.told[i + q] = <<"tool", v.told[i][2], q>>
    <3>1. c \in 1 .. Len(v.told) BY <1>10, <2>2
    <3> WITNESS c \in 1 .. Len(v.told)
    <3> QED BY <1>10, <2>2, <2>3, <2>4, <2>5
  <2> QED BY <1>10, <2>6, <2>7 DEF Tells
<1> QED BY <1>1, <1>4, <1>10, <1>11, <1>12, <1>13, <1>14, NoRow DEF TurnInv

\* The calls of the round all have their results: the model is asked again.
LEMMA NextPart == ASSUME ChatInv, NEW t \in Turns, NextRound(t) PROVE ChatInv'
<1> DEFINE u == turn[t]
           r == u.round
           w == u.told
           v == [u EXCEPT !.pc = "open", !.round = r + 1]
<1>1. /\ u.pc = "tools" /\ TurnInv(u) /\ turn = [x \in Turns |-> turn[x]] /\ u.next > u.calls
      /\ UNCHANGED <<chat, model>>
  BY DEF NextRound, TurnAt, ChatInv
<1>2. turn' = [turn EXCEPT ![t] = v] BY <1>1 DEF NextRound
<1>3. r \in Nat /\ r + 1 \in 0 .. MaxToolRounds
  <2>1. r \in 0 .. MaxToolRounds /\ r < MaxToolRounds BY <1>1 DEF TurnInv, TurnRecords, Tells, InRound
  <2>2. MaxToolRounds \in Nat BY ChatAssumption
  <2> HIDE DEF r
  <2> QED BY <2>1, <2>2
<1>4. /\ v \in TurnRecords /\ v.pc = "open" /\ v.sent = u.sent /\ v.parts = u.parts /\ v.told = w
      /\ v.round = r + 1
  BY <1>1, <1>3 DEF TurnInv, TurnRecords, Places
<1> HIDE DEF v
<1>5. Readable(v) BY <1>1, <1>4 DEF TurnInv, Readable
<1>6. Streams(v)
  <2>1. u.sent \in Seq(StreamEvents) /\ \A e \in Range(u.sent) : e[1] \in Texts \cup Tools => e[2] <= r
    BY <1>1 DEF TurnInv, TurnRecords, Streams, Underway, InRound
  <2>2. \A e \in Range(u.sent) : e[1] \in Texts \cup Tools => e[2] < r + 1 /\ e[2] <= r + 1
    <3>1. \A e \in Range(u.sent) : e[1] \in Texts \cup Tools => e[2] \in Nat BY <2>1, EventIs, RangeOfSeq
    <3> QED BY <1>3, <2>1, <3>1
  <2> QED BY <1>1, <1>4, <2>2 DEF TurnInv, Streams, Underway, InRound
<1>7. Keeps(v) BY <1>1, <1>4 DEF TurnInv, Keeps
<1>8. CallsAnswered(w)
  <2>1. PICK c \in 1 .. Len(w) :
         /\ 1 <= u.next /\ u.next <= u.calls + 1
         /\ c + u.next = Len(w) + 1
         /\ w[c] = <<"calls", r, u.calls>>
         /\ \A q \in 1 .. (u.next - 1) : w[c + q] = <<"tool", r, q>>
         /\ \A i \in 1 .. (c - 1) : w[i][1] = "calls" =>
              /\ i + w[i][3] < c
              /\ \A q \in 1 .. w[i][3] : w[i + q] = <<"tool", w[i][2], q>>
    BY <1>1 DEF TurnInv, Tells
  <2>2. /\ w \in Seq(Messages) /\ u.calls \in Nat /\ u.next \in Nat
        /\ Len(w) \in Nat /\ DOMAIN w = 1 .. Len(w)
    BY <1>1, ChatAssumption, LenProperties DEF TurnInv, TurnRecords
  <2> HIDE DEF w, r, u
  <2>3. u.next = u.calls + 1 /\ c + u.calls = Len(w) /\ c \in Nat /\ c <= Len(w)
    <3>1. u.next = u.calls + 1 BY <1>1, <2>1, <2>2
    <3>2. c \in Nat /\ c <= Len(w) /\ c + u.next = Len(w) + 1 BY <2>1, <2>2
    <3> QED BY <2>2, <3>1, <3>2
  <2>4. ASSUME NEW i \in DOMAIN w, w[i][1] = "calls"
        PROVE  /\ i + w[i][3] <= Len(w)
               /\ \A q \in 1 .. w[i][3] : w[i + q] = <<"tool", w[i][2], q>>
    <3>1. w[i] \in Messages /\ w[i][3] \in Nat
      <4>1. w[i] \in Messages BY <2>2, <2>4, ElementOfSeq
      <4> QED BY <4>1 DEF Messages
    <3>2. CASE i \in 1 .. (c - 1)
      <4>1. /\ i + w[i][3] < c
            /\ \A q \in 1 .. w[i][3] : w[i + q] = <<"tool", w[i][2], q>>
        BY <2>1, <2>4, <3>2
      <4>2. i + w[i][3] <= Len(w) BY <2>2, <2>3, <3>1, <3>2, <4>1
      <4> QED BY <4>1, <4>2
    <3>3. CASE i = c
      <4>1. w[i][2] = r /\ w[i][3] = u.calls BY <2>1, <3>3
      <4> QED BY <2>1, <2>2, <2>3, <3>3, <4>1
    <3>4. i \in Nat /\ i >= 1 /\ i <= Len(w) BY <2>2, <2>4
    <3>5. CASE i > c
      <4> DEFINE q == i - c
      <4>1. q \in Nat /\ q >= 1 /\ i = c + q BY <2>3, <3>4, <3>5
      <4>2. q \in 1 .. (u.next - 1) BY <2>2, <2>3, <3>4, <4>1
      <4> HIDE DEF q
      <4>3. w[i] = <<"tool", r, q>> BY <2>1, <4>1, <4>2
      <4> QED BY <2>4, <4>3
    <3>6. i \in 1 .. (c - 1) \/ i = c \/ i > c BY <2>3, <3>4
    <3> QED BY <3>2, <3>3, <3>5, <3>6
  <2> QED BY <2>4 DEF CallsAnswered
<1>9. Tells(v) BY <1>4, <1>8 DEF Tells, InRound
<1> QED BY <1>1, <1>2, <1>4, <1>5, <1>6, <1>7, <1>9, NoRow DEF TurnInv

\* The invariant holds at first.
LEMMA ChatBegins == ASSUME ChatInit PROVE ChatInv
<1>1. NoTurn \in TurnRecords
  <2>1. /\ 0 \in 0 .. MaxToolRounds /\ 0 \in 0 .. MaxChunks /\ 0 \in 0 .. MaxCalls /\ 1 \in Nat BY ChatAssumption
  <2>2. <<>> \in Seq(StreamEvents) /\ <<>> \in Seq(Messages) /\ <<>> \in Seq(Nat) BY EmptySeq
  <2> QED BY <2>1, <2>2 DEF NoTurn, TurnRecords, Places
<1>2. NoTurn.pc = "new" /\ NoTurn.sent = <<>> /\ NoTurn.parts = <<>> /\ NoTurn.told = <<>> BY DEF NoTurn
<1>3. Readable(NoTurn)
  <2>1. Range(<<>>) = {} /\ WellFormed(<<>>) BY DEF Range, WellFormed
  <2>2. EndedTexts(<<>>) = {} BY <2>1 DEF EndedTexts
  <2> QED BY <1>2, <2>1, <2>2 DEF Readable, FirstOf
<1>4. TurnInv(NoTurn) BY <1>1, <1>2, <1>3 DEF TurnInv, Streams, Keeps, Tells, Underway, InRound
<1>5. RowsFit
  <2>1. <<>> \in Seq(ChatRows) /\ DOMAIN <<>> = {} BY EmptySeq
  <2> QED BY <2>1 DEF ChatInit, RowsFit
<1> QED BY <1>4, <1>5 DEF ChatInit, ChatInv

\* Every step keeps the invariant.
LEMMA ChatGoesOn == ASSUME ChatInv, [ChatNext]_chatVars PROVE ChatInv'
<1>1. CASE UNCHANGED chatVars BY <1>1 DEF chatVars, ChatInv, RowsFit
<1>2. ASSUME NEW t \in Turns,
             \/ Post(t) \/ Prepare(t) \/ PrepareFails(t) \/ OpenRound(t) \/ TextPiece(t) \/ CallPiece(t)
             \/ TabFoundClosed(t) \/ RoundEnds(t) \/ TurnToTools(t) \/ Announce(t) \/ ToolAnswers(t)
             \/ NextRound(t) \/ RoundFails(t) \/ SaveAnswer(t) \/ CloseTab(t) \/ CancelTurn(t)
      PROVE  ChatInv'
  BY <1>2, PostPart, PreparePart, LeavePart, OpenPart, TextPart, CallPart, RoundEndsPart, ToToolsPart,
     AnnouncePart, AnswerPart, NextPart, FailsPart, SavePart, ClosePart
<1> QED BY <1>1, <1>2 DEF ChatNext

\* What the rows, the stream and the model have been told agrees.
LEMMA ChatAgrees == ASSUME ChatInv PROVE TurnSound
<1>1. ChatTypeOK BY DEF ChatInv, ChatTypeOK, TurnInv, TurnRecords
<1>2. \A t \in Turns :
        /\ TurnAt(t, "open") => CallsAnswered(turn[t].told)
        /\ WellFormed(turn[t].sent)
        /\ FirstOf(turn[t].parts, EndedTexts(turn[t].sent))
        /\ <<"finish">> \in Range(turn[t].sent) => EndedTexts(turn[t].sent) \subseteq Range(turn[t].parts)
  BY DEF ChatInv, TurnInv, Readable, Tells, TurnAt
<1> QED BY <1>1, <1>2 DEF ChatInv, RowsFit, TurnSound

\* Whatever fails and whichever tab closes, the dialogue the model is asked with, the
\* stream of the tab and the history of the chat agree: for any number of turns, rounds,
\* pieces and calls (chat/service.py, process_chat_stream).
THEOREM TurnAlwaysSound == ChatSpec => []TurnSound
<1>1. ChatInit => ChatInv BY ChatBegins
<1>2. ChatInv /\ [ChatNext]_chatVars => ChatInv' BY ChatGoesOn
<1>3. ChatInv => TurnSound BY ChatAgrees
<1> QED BY <1>1, <1>2, <1>3, PTL DEF ChatSpec

-----------------------------------------------------------------------------
(* A collector takes an action or a log entry again only after many newer ones *)

\* What holds at zero and goes from each number to the next holds up to N.
LEMMA StepByStep ==
  ASSUME NEW N \in Nat, NEW P, 0 \in P, \A n \in 1 .. N : n - 1 \in P => n \in P
  PROVE  0 .. N \subseteq P
<1> SUFFICES ASSUME (0 .. N) \ P # {} PROVE FALSE OBVIOUS
<1> DEFINE B == (0 .. N) \ P
<1>0. B \subseteq Nat /\ B # {} OBVIOUS
<1> HIDE DEF B
<1>1. PICK n \in B : \A m \in B : n <= m BY <1>0, Least
<1> USE DEF B
<1>2. n \in 1 .. N /\ n - 1 \in 0 .. N /\ ~(n <= n - 1) BY <1>1
<1>3. n - 1 \in P BY <1>1, <1>2
<1> QED BY <1>1, <1>2, <1>3

\* What can go on within S from each number to the next can be carried on up to N.
GoesOn(R, S, N) == \A k \in 1 .. N, x \in S : \E y \in S : <<k, x, y>> \in R
CarriedOn(R, S, base, N) ==
  \E f \in [0 .. N -> S] : f[0] = base /\ \A k \in 1 .. N : <<k, f[k - 1], f[k]>> \in R
LEMMA Iterates ==
  ASSUME NEW N \in Nat, NEW S, NEW base \in S, NEW R, GoesOn(R, S, N) PROVE CarriedOn(R, S, base, N)
<1> DEFINE Upto(n, f) == f[0] = base /\ \A k \in 1 .. n : <<k, f[k - 1], f[k]>> \in R
           P == {n \in 0 .. N : \E f \in [0 .. n -> S] : Upto(n, f)}
<1>1. 0 \in P
  <2>1. PICK f : f = [k \in 0 .. 0 |-> base] OBVIOUS
  <2>2. f \in [0 .. 0 -> S] /\ f[0] = base /\ \A k \in 1 .. 0 : FALSE BY <2>1
  <2>3. Upto(0, f) BY <2>2
  <2> QED BY <2>2, <2>3
<1>2. ASSUME NEW n \in 1 .. N, n - 1 \in P PROVE n \in P
  <2>1. PICK f \in [0 .. (n - 1) -> S] : Upto(n - 1, f) BY <1>2
  <2>2. PICK y \in S : <<n, f[n - 1], y>> \in R
    <3>1. n - 1 \in 0 .. (n - 1) BY <1>2
    <3>2. f[n - 1] \in S BY <2>1, <3>1
    <3> QED BY <3>2 DEF GoesOn
  <2>3. PICK g : g = [k \in 0 .. n |-> IF k = n THEN y ELSE f[k]] OBVIOUS
  <2>4. g \in [0 .. n -> S]
    <3>1. \A k \in 0 .. n : k # n => k \in 0 .. (n - 1) OBVIOUS
    <3> QED BY <2>1, <2>2, <2>3, <3>1
  <2>5. g[n] = y /\ \A k \in 0 .. (n - 1) : g[k] = f[k] BY <2>3
  <2>6. ASSUME NEW k \in 1 .. n PROVE <<k, g[k - 1], g[k]>> \in R
    <3>1. k - 1 \in 0 .. (n - 1) /\ g[k - 1] = f[k - 1] BY <2>5
    <3>2. CASE k = n BY <2>2, <2>5, <3>1, <3>2
    <3>3. CASE k # n
      <4>1. k \in 1 .. (n - 1) /\ k \in 0 .. (n - 1) BY <3>3
      <4>2. g[k] = f[k] /\ <<k, f[k - 1], f[k]>> \in R BY <2>1, <2>5, <4>1
      <4> QED BY <3>1, <4>2
    <3> QED BY <3>2, <3>3
  <2>7. g[0] = base
    <3>1. 0 \in 0 .. (n - 1) OBVIOUS
    <3> QED BY <2>1, <2>5, <3>1
  <2>8. Upto(n, g) BY <2>6, <2>7
  <2> HIDE DEF Upto
  <2> QED BY <2>4, <2>8
<1>3. 0 .. N \subseteq P
  <2> HIDE DEF P
  <2> QED BY <1>1, <1>2, StepByStep
<1>4. N \in P BY <1>3
<1> QED BY <1>4 DEF CarriedOn

Rising(s) == \A i, j \in DOMAIN s : i < j => s[i] < s[j]

\* The selection keeps the order, and takes all that is asked for.
LEMMA Selected ==
  ASSUME NEW s \in Seq(Nat), NEW keep
  PROVE  /\ Those(s, keep) \in Seq(Nat)
         /\ Range(Those(s, keep)) = Range(s) \cap keep
         /\ Rising(s) => Rising(Those(s, keep))
<1> DEFINE N == Len(s)
           next(n, q) == IF s[n] \in keep THEN Append(q, s[n]) ELSE q
           R == {p \in (1 .. N) \X Seq(Nat) \X Seq(Nat) : p[3] = next(p[1], p[2])}
           rec(f) == [n \in 0 .. N |-> IF n = 0 THEN <<>>
                                       ELSE IF s[n] \in keep THEN Append(f[n - 1], s[n]) ELSE f[n - 1]]
           those == CHOOSE f : f = rec(f)
<1>1. N \in Nat /\ DOMAIN s = 1 .. N /\ \A n \in 1 .. N : s[n] \in Nat BY LenProperties, ElementOfSeq
<1>2. \A n \in 1 .. N, q \in Seq(Nat) : next(n, q) \in Seq(Nat)
  <2>1. \A n \in 1 .. N, q \in Seq(Nat) : Append(q, s[n]) \in Seq(Nat) BY <1>1, AppendProperties
  <2> QED BY <2>1
<1>3. those = rec(those)
  <2>1. \A n \in 1 .. N, q, r \in Seq(Nat) : <<n, q, r>> \in R <=> r = next(n, q) OBVIOUS
  <2> HIDE DEF R, next
  <2>2. <<>> \in Seq(Nat) BY EmptySeq
  <2>3. PICK f \in [0 .. N -> Seq(Nat)] : f[0] = <<>> /\ \A n \in 1 .. N : <<n, f[n - 1], f[n]>> \in R
    <3>1. PICK M, T : M = N /\ T = Seq(Nat) OBVIOUS
    <3>2. M \in Nat /\ <<>> \in T BY <1>1, <2>2, <3>1
    <3>3. GoesOn(R, T, M) BY <1>2, <2>1, <3>1 DEF GoesOn
    <3>4. CarriedOn(R, T, <<>>, M) BY <3>2, <3>3, Iterates
    <3> QED BY <3>1, <3>4 DEF CarriedOn
  <2>4. \A n \in 1 .. N : f[n] = IF s[n] \in keep THEN Append(f[n - 1], s[n]) ELSE f[n - 1]
    <3>1. \A n \in 1 .. N : n - 1 \in 0 .. N /\ n \in 0 .. N BY <1>1
    <3>2. \A n \in 1 .. N : f[n - 1] \in Seq(Nat) /\ f[n] \in Seq(Nat) BY <2>3, <3>1
    <3>3. \A n \in 1 .. N : f[n] = next(n, f[n - 1])
      <4> HIDE DEF N
      <4> QED BY <2>1, <2>3, <3>2
    <3> QED BY <3>3 DEF next
  <2>5. f = rec(f)
    <3>1. \A n \in 0 .. N : f[n] = rec(f)[n]
      <4> SUFFICES ASSUME NEW n \in 0 .. N PROVE f[n] = rec(f)[n] OBVIOUS
      <4>1. CASE n = 0 BY <2>3, <4>1
      <4>2. CASE n # 0
        <5>1. n \in 1 .. N BY <1>1, <4>2
        <5> QED BY <2>4, <4>2, <5>1
      <4> QED BY <4>1, <4>2
    <3> QED BY <2>3, <3>1
  <2> HIDE DEF rec
  <2> QED BY <2>5
<1>4. Those(s, keep) = those[N] BY DEF Those
<1> HIDE DEF those
<1>5. /\ those[0] = <<>>
      /\ \A n \in 1 .. N : those[n] = IF s[n] \in keep THEN Append(those[n - 1], s[n]) ELSE those[n - 1]
  <2>1. \A n \in 1 .. N : n \in 0 .. N /\ n # 0 OBVIOUS
  <2>2. 0 \in 0 .. N BY <1>1
  <2> QED BY <1>3, <2>1, <2>2
<1> DEFINE First(n) == {s[i] : i \in 1 .. n}
           Good(n) == /\ those[n] \in Seq(Nat)
                      /\ Range(those[n]) = First(n) \cap keep
                      /\ Rising(s) => Rising(those[n])
           P == {n \in 0 .. N : Good(n)}
<1>6. 0 \in P
  <2>1. Range(<<>>) = {} /\ DOMAIN <<>> = {} BY EmptySeq DEF Range
  <2>2. First(0) = {} OBVIOUS
  <2>3. those[0] \in Seq(Nat) BY <1>5, EmptySeq
  <2>4. Rising(<<>>) BY <2>1 DEF Rising
  <2>5. Good(0) BY <1>5, <2>1, <2>2, <2>3, <2>4
  <2> HIDE DEF Good
  <2> QED BY <1>1, <2>5
<1>7. ASSUME NEW n \in 1 .. N, n - 1 \in P PROVE n \in P
  <2>1. PICK old : old = those[n - 1] OBVIOUS
  <2>2. Good(n - 1) BY <1>7
  <2>3. old \in Seq(Nat) /\ Range(old) = First(n - 1) \cap keep /\ (Rising(s) => Rising(old)) BY <2>1, <2>2
  <2>4. First(n) = First(n - 1) \cup {s[n]}
    <3>1. \A i \in 1 .. n : i \in 1 .. (n - 1) \/ i = n OBVIOUS
    <3>2. n \in 1 .. n /\ \A i \in 1 .. (n - 1) : i \in 1 .. n OBVIOUS
    <3> QED BY <3>1, <3>2
  <2>5. CASE s[n] \notin keep
    <3>1. those[n] = old BY <1>5, <2>1, <2>5
    <3> QED BY <2>3, <2>4, <2>5, <3>1
  <2>6. CASE s[n] \in keep
    <3>1. those[n] = Append(old, s[n]) BY <1>5, <2>1, <2>6
    <3>2. s[n] \in Nat BY <1>1
    <3>3. PICK new : new = those[n] OBVIOUS
    <3>4. /\ new \in Seq(Nat) /\ Len(old) \in Nat /\ DOMAIN old = 1 .. Len(old)
          /\ DOMAIN new = 1 .. (Len(old) + 1)
          /\ \A i \in 1 .. Len(old) : new[i] = old[i]
          /\ new[Len(old) + 1] = s[n] /\ Range(new) = Range(old) \cup {s[n]}
      BY <2>3, <3>1, <3>2, <3>3, OneMore
    <3>5. Range(new) = First(n) \cap keep BY <2>3, <2>4, <2>6, <3>4
    <3>6. ASSUME Rising(s) PROVE Rising(new)
      <4>1. ASSUME NEW i \in 1 .. Len(old) PROVE old[i] < s[n]
        <5>1. old[i] \in First(n - 1) BY <2>3, <3>4 DEF Range
        <5>2. PICK j \in 1 .. (n - 1) : old[i] = s[j] BY <5>1
        <5>3. j \in DOMAIN s /\ n \in DOMAIN s /\ j < n BY <1>1
        <5> QED BY <3>6, <5>2, <5>3 DEF Rising
      <4> SUFFICES ASSUME NEW i \in DOMAIN new, NEW j \in DOMAIN new, i < j PROVE new[i] < new[j] BY DEF Rising
      <4>2. i \in 1 .. Len(old) BY <3>4
      <4>3. CASE j \in 1 .. Len(old) BY <2>3, <3>4, <3>6, <4>2, <4>3 DEF Rising
      <4>4. CASE j = Len(old) + 1 BY <3>4, <4>1, <4>2, <4>4
      <4> QED BY <3>4, <4>3, <4>4
    <3> QED BY <3>3, <3>4, <3>5, <3>6
  <2> QED BY <2>5, <2>6
<1>8. N \in P
  <2> HIDE DEF P, N
  <2>1. 0 .. N \subseteq P BY <1>1, <1>6, <1>7, StepByStep
  <2> QED BY <1>1, <2>1
<1>9. First(N) = Range(s) BY <1>1 DEF Range
<1> QED BY <1>4, <1>8, <1>9

\* The last of a sequence.
LEMMA TheLatest ==
  ASSUME NEW S, NEW s \in Seq(S), NEW n \in Nat
  PROVE  LET l == Latest(s, n) IN
         /\ l \in Seq(S) /\ Len(l) = (IF Len(s) <= n THEN Len(s) ELSE n) /\ Len(s) \in Nat /\ DOMAIN l = 1 .. Len(l)
         /\ \A i \in 1 .. Len(l) : l[i] = s[Len(s) - Len(l) + i] /\ Len(s) - Len(l) + i \in DOMAIN s
         /\ Range(l) \subseteq Range(s)
<1>1. Len(s) \in Nat /\ DOMAIN s = 1 .. Len(s) /\ \A i \in 1 .. Len(s) : s[i] \in S BY LenProperties, ElementOfSeq
<1>2. PICK l : l = Latest(s, n) OBVIOUS
<1>3. CASE Len(s) <= n
  <2>1. l = s BY <1>2, <1>3 DEF Latest
  <2>2. \A i \in 1 .. Len(s) : Len(s) - Len(s) + i = i BY <1>1
  <2> QED BY <1>1, <1>2, <1>3, <2>1, <2>2
<1>4. CASE ~(Len(s) <= n)
  <2> DEFINE m == Len(s) - n + 1
  <2>1. l = SubSeq(s, m, Len(s)) BY <1>2, <1>4 DEF Latest
  <2>2. m \in Int /\ Len(s) \in Int /\ \A i \in m .. Len(s) : s[i] \in S BY <1>1, <1>4
  <2> HIDE DEF m
  <2>3. /\ l \in Seq(S) /\ Len(l) = (IF m <= Len(s) THEN Len(s) - m + 1 ELSE 0)
        /\ \A i \in 1 .. Len(s) - m + 1 : l[i] = s[m + i - 1]
    BY <2>1, <2>2, SubSeqProperties
  <2>4. Len(l) = n BY <1>1, <1>4, <2>3 DEF m
  <2>5. \A i \in 1 .. n : l[i] = s[Len(s) - n + i] /\ Len(s) - n + i \in DOMAIN s
    <3> SUFFICES ASSUME NEW i \in 1 .. n PROVE l[i] = s[Len(s) - n + i] /\ Len(s) - n + i \in DOMAIN s OBVIOUS
    <3>1. i \in 1 .. Len(s) - m + 1 /\ m + i - 1 = Len(s) - n + i BY <1>1, <1>4 DEF m
    <3>2. Len(s) - n + i \in 1 .. Len(s) BY <1>1, <1>4
    <3> QED BY <1>1, <2>3, <3>1, <3>2
  <2>6. DOMAIN l = 1 .. n BY <2>3, <2>4, LenProperties
  <2>7. Range(l) \subseteq Range(s) BY <2>5, <2>6 DEF Range
  <2> QED BY <1>1, <1>2, <1>4, <2>3, <2>4, <2>5, <2>6, <2>7
<1> QED BY <1>3, <1>4

LEMMA LatestRises ==
  ASSUME NEW s \in Seq(Nat), NEW n \in Nat, Rising(s)
  PROVE  Rising(Latest(s, n))
<1>1. PICK l : l = Latest(s, n) OBVIOUS
<1>2. PICK d : d = Len(s) - Len(l) OBVIOUS
<1>3. /\ Len(l) \in Nat /\ Len(s) \in Nat /\ DOMAIN l = 1 .. Len(l)
      /\ \A i \in 1 .. Len(l) : l[i] = s[d + i] /\ d + i \in DOMAIN s
  <2>1. /\ Len(l) \in Nat /\ Len(s) \in Nat /\ DOMAIN l = 1 .. Len(l)
        /\ \A i \in 1 .. Len(l) : l[i] = s[Len(s) - Len(l) + i] /\ Len(s) - Len(l) + i \in DOMAIN s
    <3>1. Len(Latest(s, n)) \in Nat BY TheLatest
    <3> QED BY <1>1, <3>1, TheLatest
  <2> QED BY <1>2, <2>1
<1>4. d \in Int BY <1>2, <1>3
<1> SUFFICES ASSUME NEW i \in DOMAIN l, NEW j \in DOMAIN l, i < j PROVE l[i] < l[j] BY <1>1 DEF Rising
<1>5. d + i < d + j BY <1>3, <1>4
<1> QED BY <1>3, <1>5 DEF Rising

\* Two sequences side by side.
LEMMA Joined ==
  ASSUME NEW S, NEW s \in Seq(S), NEW t \in Seq(S)
  PROVE  /\ s \o t \in Seq(S) /\ Len(s) \in Nat /\ Len(t) \in Nat
         /\ DOMAIN s = 1 .. Len(s) /\ DOMAIN t = 1 .. Len(t) /\ DOMAIN (s \o t) = 1 .. (Len(s) + Len(t))
         /\ \A i \in 1 .. Len(s) : (s \o t)[i] = s[i]
         /\ \A i \in 1 .. Len(t) : (s \o t)[Len(s) + i] = t[i]
         /\ \A i \in DOMAIN (s \o t) : i \in 1 .. Len(s) \/ (i - Len(s) \in 1 .. Len(t) /\ i = Len(s) + (i - Len(s)))
         /\ Range(s \o t) = Range(s) \cup Range(t)
<1>1. Len(s) \in Nat /\ Len(t) \in Nat /\ DOMAIN s = 1 .. Len(s) /\ DOMAIN t = 1 .. Len(t) BY LenProperties
<1>2. PICK u, m, n : u = s \o t /\ m = Len(s) /\ n = Len(t) OBVIOUS
<1>3. /\ u \in Seq(S) /\ Len(u) = m + n
      /\ \A i \in 1 .. m + n : u[i] = IF i <= m THEN s[i] ELSE t[i - m]
  BY <1>2, ConcatProperties
<1>4. DOMAIN u = 1 .. (m + n) BY <1>3, LenProperties
<1>5. \A i \in 1 .. m : u[i] = s[i]
  <2>1. \A i \in 1 .. m : i \in 1 .. m + n /\ i <= m BY <1>1, <1>2
  <2> QED BY <1>3, <2>1
<1>6. \A i \in 1 .. n : u[m + i] = t[i]
  <2>1. \A i \in 1 .. n : m + i \in 1 .. m + n /\ ~(m + i <= m) /\ (m + i) - m = i BY <1>1, <1>2
  <2> QED BY <1>3, <2>1
<1>7. \A i \in 1 .. (m + n) : i \in 1 .. m \/ (i - m \in 1 .. n /\ i = m + (i - m)) BY <1>1, <1>2
<1>8. Range(u) = Range(s) \cup Range(t) BY <1>2, RangeConcatenation
<1> QED BY <1>1, <1>2, <1>3, <1>4, <1>5, <1>6, <1>7, <1>8

EventKinds == {"action", "log", "error"}
EventKeys == EventKinds \X Nat

\* The memory is the end of all that was taken, in which what is equal is far apart.
Recent(s, t) ==
  /\ Len(s) = IF Len(t) <= DedupSize THEN Len(t) ELSE DedupSize
  /\ \A i \in 1 .. Len(s) : s[i] = t[Len(t) - Len(s) + i]
FarApart(t) == \A i, j \in DOMAIN t : i < j /\ t[i] = t[j] => j - i > DedupSize

\* One key more is taken and remembered.
LEMMA OneTaken ==
  ASSUME NEW s \in Seq(EventKeys), NEW t \in Seq(EventKeys), NEW k \in EventKeys,
         Recent(s, t), FarApart(t), k \notin ToSet(s)
  PROVE  /\ Evict(Append(s, k)) \in Seq(EventKeys)
         /\ Recent(Evict(Append(s, k)), Append(t, k)) /\ FarApart(Append(t, k))
<1>1. DedupSize \in Nat BY EventAssumption
<1>2. PICK u, a, e, m, n : u = Append(t, k) /\ a = Append(s, k) /\ e = Evict(a) /\ m = Len(s) /\ n = Len(t) OBVIOUS
<1>3. /\ u \in Seq(EventKeys) /\ n \in Nat /\ DOMAIN t = 1 .. n /\ Len(u) = n + 1 /\ DOMAIN u = 1 .. (n + 1)
      /\ \A i \in 1 .. n : u[i] = t[i]
      /\ u[n + 1] = k
  BY <1>2, OneMore
<1>4. /\ a \in Seq(EventKeys) /\ m \in Nat /\ DOMAIN s = 1 .. m /\ Len(a) = m + 1
      /\ \A i \in 1 .. m : a[i] = s[i]
      /\ a[m + 1] = k
  BY <1>2, OneMore
<1>5. m = (IF n <= DedupSize THEN n ELSE DedupSize) /\ \A i \in 1 .. m : s[i] = t[n - m + i] BY <1>2 DEF Recent
<1>6. \A i \in 1 .. (m + 1) : a[i] = u[n - m + i]
  <2> SUFFICES ASSUME NEW i \in 1 .. (m + 1) PROVE a[i] = u[n - m + i] OBVIOUS
  <2>1. CASE i = m + 1
    <3>1. n - m + i = n + 1 BY <1>3, <1>4, <2>1
    <3> QED BY <1>3, <1>4, <2>1, <3>1
  <2>2. CASE i \in 1 .. m
    <3>1. n - m + i \in 1 .. n BY <1>1, <1>3, <1>4, <1>5, <2>2
    <3> QED BY <1>3, <1>4, <1>5, <2>2, <3>1
  <2> QED BY <1>4, <2>1, <2>2
<1>7. PICK l : l = Len(e) OBVIOUS
<1>8. /\ e \in Seq(EventKeys) /\ l = (IF m + 1 <= DedupSize THEN m + 1 ELSE DedupSize)
      /\ \A i \in 1 .. l : e[i] = a[m + 1 - l + i]
  <2>1. e = Latest(a, DedupSize) BY <1>2 DEF Evict
  <2>2. /\ e \in Seq(EventKeys) /\ Len(e) = (IF Len(a) <= DedupSize THEN Len(a) ELSE DedupSize)
        /\ \A i \in 1 .. Len(e) : e[i] = a[Len(a) - Len(e) + i]
    <3>1. LET b == Latest(a, DedupSize) IN
          /\ b \in Seq(EventKeys) /\ Len(b) = (IF Len(a) <= DedupSize THEN Len(a) ELSE DedupSize)
          /\ \A i \in 1 .. Len(b) : b[i] = a[Len(a) - Len(b) + i]
      <4>1. a \in Seq(EventKeys) /\ DedupSize \in Nat BY <1>1, <1>4
      <4> QED BY <4>1, TheLatest
    <3> QED BY <2>1, <3>1
  <2>3. Len(a) = m + 1 /\ Len(e) = l BY <1>4, <1>7
  <2>4. ASSUME NEW i \in 1 .. l PROVE e[i] = a[m + 1 - l + i]
    <3>1. i \in 1 .. Len(e) /\ Len(a) - Len(e) + i = m + 1 - l + i
      <4>1. m \in Nat /\ Len(a) \in Nat /\ l \in Nat /\ Len(e) \in Nat BY <1>1, <1>4, <2>2, <2>3
      <4> QED BY <2>3, <4>1
    <3>2. e[i] = a[Len(a) - Len(e) + i] BY <2>2, <3>1
    <3> QED BY <3>1, <3>2
  <2> QED BY <2>2, <2>3, <2>4
<1>9. l = IF n + 1 <= DedupSize THEN n + 1 ELSE DedupSize BY <1>1, <1>3, <1>5, <1>8
<1>10. \A i \in 1 .. l : e[i] = u[n + 1 - l + i]
  <2> SUFFICES ASSUME NEW i \in 1 .. l PROVE e[i] = u[n + 1 - l + i] OBVIOUS
  <2>1. PICK j : j = m + 1 - l + i OBVIOUS
  <2>2. j \in 1 .. (m + 1) /\ n - m + j = n + 1 - l + i BY <1>1, <1>3, <1>4, <1>8, <2>1
  <2>3. a[j] = u[n - m + j] BY <1>6, <2>2
  <2>4. e[i] = a[j]
    <3>1. \A h \in 1 .. l : e[h] = a[m + 1 - l + h] BY <1>8
    <3>2. e[i] = a[m + 1 - l + i] BY <3>1
    <3> QED BY <2>1, <3>2
  <2> QED BY <2>2, <2>3, <2>4
<1>11. Recent(e, u)
  <2>1. Len(e) = l /\ Len(u) = n + 1 BY <1>3, <1>7
  <2>2. Len(e) = IF Len(u) <= DedupSize THEN Len(u) ELSE DedupSize BY <1>9, <2>1
  <2>3. ASSUME NEW i \in 1 .. Len(e) PROVE e[i] = u[Len(u) - Len(e) + i]
    <3>1. i \in 1 .. l BY <2>1
    <3>2. PICK h : h = n + 1 - l + i OBVIOUS
    <3>3. e[i] = u[h] BY <1>10, <3>1, <3>2
    <3>4. n \in Nat /\ l \in Nat BY <1>1, <1>3, <1>9
    <3>5. Len(u) - Len(e) + i = h BY <2>1, <3>2, <3>4
    <3> QED BY <3>3, <3>5
  <2> QED BY <2>2, <2>3 DEF Recent
<1>12. FarApart(u)
  <2> SUFFICES ASSUME NEW i \in DOMAIN u, NEW j \in DOMAIN u, i < j, u[i] = u[j] PROVE j - i > DedupSize
    BY DEF FarApart
  <2>1. i \in 1 .. n BY <1>3
  <2>2. CASE j \in 1 .. n BY <1>3, <2>1, <2>2 DEF FarApart
  <2>3. CASE j = n + 1
    <3>1. t[i] = k BY <1>3, <2>1, <2>3
    <3> SUFFICES ASSUME ~(j - i > DedupSize) PROVE FALSE OBVIOUS
    <3>2. n + 1 - i <= DedupSize /\ n \in Nat /\ i \in Nat BY <1>1, <1>3, <2>1, <2>3
    <3>3. i - (n - m) \in 1 .. m /\ n - m + (i - (n - m)) = i 
      <4>1. i >= 1 /\ i <= n BY <2>1
      <4>2. i > n - m BY <1>1, <1>4, <1>5, <3>2, <4>1
      <4> QED BY <1>4, <3>2, <4>1, <4>2
    <3>4. s[i - (n - m)] = k BY <1>5, <3>1, <3>3
    <3>5. k \in ToSet(s) BY <1>4, <3>3, <3>4 DEF ToSet
    <3> QED BY <3>5
  <2> QED BY <1>3, <2>2, <2>3
<1> QED BY <1>2, <1>8, <1>11, <1>12

\* A reply is gone through key by key.
LEMMA RepliesTaken ==
  ASSUME NEW reply \in Seq(EventKeys), seen \in Seq(EventKeys), taken \in Seq(EventKeys),
         Recent(seen, taken), FarApart(taken)
  PROVE  LET r == TakeNew(reply) IN
         /\ r.seen \in Seq(EventKeys) /\ r.new \in Seq(EventKeys)
         /\ Range(r.new) \subseteq Range(reply)
         /\ Recent(r.seen, taken \o r.new) /\ FarApart(taken \o r.new)
<1> DEFINE N == Len(reply)
           Good == {st \in [seen : Seq(EventKeys), new : Seq(EventKeys)] :
                      /\ Range(st.new) \subseteq Range(reply)
                      /\ Recent(st.seen, taken \o st.new) /\ FarApart(taken \o st.new)}
           base == [seen |-> seen, new |-> <<>>]
           R == {p \in (1 .. N) \X Good \X Good : p[3] = TakeOne(reply[p[1]], p[2])}
           rec(f) == [n \in 0 .. N |-> IF n = 0 THEN base ELSE TakeOne(reply[n], f[n - 1])]
           after == CHOOSE f : f = rec(f)
<1>1. N \in Nat /\ DOMAIN reply = 1 .. N /\ \A n \in 1 .. N : reply[n] \in EventKeys /\ reply[n] \in Range(reply)
  BY LenProperties, ElementOfSeq DEF Range
<1>2. base \in Good
  <2>1. base.seen = seen /\ base.new = <<>> OBVIOUS
  <2>2. base \in [seen : Seq(EventKeys), new : Seq(EventKeys)] BY EmptySeq
  <2>3. Range(<<>>) = {} BY EmptySeq DEF Range
  <2>4. taken \o <<>> = taken BY ConcatEmptySeq
  <2> HIDE DEF base
  <2> QED BY <2>1, <2>2, <2>3, <2>4
<1>3. \A n \in 1 .. N, st \in Good : TakeOne(reply[n], st) \in Good
  <2> SUFFICES ASSUME NEW n \in 1 .. N, NEW st \in Good PROVE TakeOne(reply[n], st) \in Good OBVIOUS
  <2>1. PICK k : k = reply[n] OBVIOUS
  <2>2. k \in EventKeys /\ k \in Range(reply) BY <1>1, <2>1
  <2>3. /\ st.seen \in Seq(EventKeys) /\ st.new \in Seq(EventKeys)
        /\ Range(st.new) \subseteq Range(reply)
        /\ Recent(st.seen, taken \o st.new) /\ FarApart(taken \o st.new)
    OBVIOUS
  <2>4. CASE k \in ToSet(st.seen) BY <2>1, <2>4 DEF TakeOne
  <2>5. CASE k \notin ToSet(st.seen)
    <3>1. TakeOne(k, st) = [seen |-> Evict(Append(st.seen, k)), new |-> Append(st.new, k)]
      BY <2>5 DEF TakeOne, Remember
    <3>2. taken \o st.new \in Seq(EventKeys) BY <2>3, ConcatProperties
    <3>3. /\ Evict(Append(st.seen, k)) \in Seq(EventKeys)
          /\ Recent(Evict(Append(st.seen, k)), Append(taken \o st.new, k)) /\ FarApart(Append(taken \o st.new, k))
      BY <2>2, <2>3, <2>5, <3>2, OneTaken
    <3>4. Append(taken \o st.new, k) = taken \o Append(st.new, k)
      <4>1. <<k>> \in Seq(EventKeys) BY <2>2
      <4>2. Append(taken \o st.new, k) = (taken \o st.new) \o <<k>> BY <2>2, <3>2, AppendIsConcat
      <4>3. Append(st.new, k) = st.new \o <<k>> BY <2>2, <2>3, AppendIsConcat
      <4>4. PICK a, b, c : a = taken /\ b = st.new /\ c = <<k>> OBVIOUS
      <4>5. a \in Seq(EventKeys) /\ b \in Seq(EventKeys) /\ c \in Seq(EventKeys) BY <2>3, <4>1, <4>4
      <4>6. (a \o b) \o c = a \o (b \o c)
        <5> HIDE DEF Good, base, R, rec, after, N
        <5> QED BY <4>5, ConcatAssociative
      <4> QED BY <4>2, <4>3, <4>4, <4>6
    <3>5. Append(st.new, k) \in Seq(EventKeys) /\ Range(Append(st.new, k)) = Range(st.new) \cup {k}
      BY <2>2, <2>3, OneMore
    <3>6. PICK d : d = TakeOne(k, st) OBVIOUS
    <3>7. d.seen = Evict(Append(st.seen, k)) /\ d.new = Append(st.new, k) BY <3>1, <3>6
    <3>8. d \in [seen : Seq(EventKeys), new : Seq(EventKeys)] BY <3>1, <3>3, <3>5, <3>6
    <3>9. d \in Good BY <2>2, <2>3, <3>3, <3>4, <3>5, <3>7, <3>8
    <3> QED BY <2>1, <3>6, <3>9
  <2> QED BY <2>4, <2>5
<1> HIDE DEF Good, base
<1>4. after = rec(after)
  <2>1. \A n \in 1 .. N, a, b \in Good : <<n, a, b>> \in R <=> b = TakeOne(reply[n], a) OBVIOUS
  <2> HIDE DEF R
  <2>2. PICK f \in [0 .. N -> Good] : f[0] = base /\ \A n \in 1 .. N : <<n, f[n - 1], f[n]>> \in R
    <3>1. PICK M : M = N OBVIOUS
    <3>2. GoesOn(R, Good, M) BY <1>3, <2>1, <3>1 DEF GoesOn
    <3>3. CarriedOn(R, Good, base, M) BY <1>1, <1>2, <3>1, <3>2, Iterates
    <3> QED BY <3>1, <3>3 DEF CarriedOn
  <2>3. \A n \in 1 .. N : f[n] = TakeOne(reply[n], f[n - 1])
    <3>1. \A n \in 1 .. N : n - 1 \in 0 .. N /\ n \in 0 .. N BY <1>1
    <3> HIDE DEF N
    <3>2. \A n \in 1 .. N : f[n - 1] \in Good /\ f[n] \in Good BY <3>1
    <3> QED BY <2>1, <2>2, <3>2
  <2>4. f = rec(f)
    <3>1. \A n \in 0 .. N : f[n] = rec(f)[n]
      <4> SUFFICES ASSUME NEW n \in 0 .. N PROVE f[n] = rec(f)[n] OBVIOUS
      <4>1. CASE n = 0 BY <2>2, <4>1
      <4>2. CASE n # 0
        <5>1. n \in 1 .. N BY <1>1, <4>2
        <5> QED BY <2>3, <4>2, <5>1
      <4> QED BY <4>1, <4>2
    <3> QED BY <3>1
  <2> HIDE DEF rec
  <2> QED BY <2>4
<1>5. TakeNew(reply) = after[N] BY DEF TakeNew, base
<1> HIDE DEF after
<1>6. after[0] = base /\ \A n \in 1 .. N : after[n] = TakeOne(reply[n], after[n - 1])
  <2>1. \A n \in 1 .. N : n \in 0 .. N /\ n # 0 OBVIOUS
  <2>2. 0 \in 0 .. N BY <1>1
  <2> QED BY <1>4, <2>1, <2>2
<1>7. after[N] \in Good
  <2> DEFINE P == {n \in 0 .. N : after[n] \in Good}
  <2>1. 0 \in P BY <1>1, <1>2, <1>6
  <2>2. \A n \in 1 .. N : n - 1 \in P => n \in P BY <1>3, <1>6
  <2> HIDE DEF P, N
  <2>3. 0 .. N \subseteq P BY <1>1, <2>1, <2>2, StepByStep
  <2>4. N \in P BY <1>1, <2>3
  <2> QED BY <2>4 DEF P
<1> QED BY <1>5, <1>7 DEF Good

EventNames == {"action", "info", "error"}
LabKeys == EventKinds \X DOMAIN happened

EventsTyped ==
  /\ happened \in Seq(EventNames)
  /\ ring \in Seq(Nat) /\ Len(ring) <= RingSize
  /\ poll \in [pc : {"asleep", "logs", "errors", "reply", "persist"},
               batch : Seq(EventKeys), reply : Seq(Nat), at : Nat]
  /\ seen \in Seq(EventKeys) /\ taken \in Seq(EventKeys) /\ faulty \in Seq(Nat)
  /\ watermark \in 0 .. Len(happened) /\ poll.at <= Len(happened)

\* What the collector and the buffer speak of has happened.
OfTheLab ==
  /\ Range(ring) \subseteq DOMAIN happened /\ Range(poll.reply) \subseteq DOMAIN happened
  /\ Range(poll.batch) \subseteq LabKeys /\ stored \subseteq LabKeys
  /\ \A i \in DOMAIN faulty : faulty[i] <= watermark

\* The errors of an answer are newer than the watermark, and all of those that its
\* buffer held; one that the watermark passed was taken, or logged in between.
Answered ==
  poll.pc = "reply" =>
    \A e \in Range(ring) : IsError(e) /\ watermark < e /\ e <= poll.at => e \in Range(poll.reply)
Passed == \A e \in Range(ring) : IsError(e) /\ e <= watermark /\ e \notin Range(faulty) => e \in gap
ErrorsTaken ==
  /\ Rising(ring) /\ Rising(faulty) /\ Rising(poll.reply)
  /\ \A i \in DOMAIN poll.reply : poll.reply[i] > watermark
  /\ Answered /\ Passed

CollectorInv == EventsTyped /\ OfTheLab /\ Recent(seen, taken) /\ FarApart(taken) /\ ErrorsTaken

LEMMA Nothing ==
  /\ \A S : <<>> \in Seq(S)
  /\ Len(<<>>) = 0 /\ DOMAIN <<>> = {} /\ Range(<<>>) = {}
  /\ Rising(<<>>) /\ Recent(<<>>, <<>>) /\ FarApart(<<>>)
<1>1. /\ \A S : <<>> \in Seq(S)
      /\ Len(<<>>) = 0 /\ DOMAIN <<>> = {} /\ Range(<<>>) = {}
  BY EmptySeq DEF Range
<1>2. DedupSize \in Nat BY EventAssumption
<1> QED BY <1>1, <1>2 DEF Rising, Recent, FarApart

LEMMA RestingIs ==
  /\ Resting.pc = "asleep" /\ Resting.batch = <<>> /\ Resting.reply = <<>> /\ Resting.at = 0
  /\ Resting \in [pc : {"asleep", "logs", "errors", "reply", "persist"},
                  batch : Seq(EventKeys), reply : Seq(Nat), at : Nat]
BY Nothing DEF Resting

LEMMA EventsStart == EventInit => CollectorInv
<1> SUFFICES ASSUME EventInit PROVE CollectorInv OBVIOUS
<1>1. /\ happened = <<>> /\ ring = <<>> /\ poll = Resting /\ seen = <<>> /\ watermark = 0
      /\ stored = {} /\ taken = <<>> /\ faulty = <<>>
  BY DEF EventInit
<1>2. RingSize \in Nat BY EventAssumption
<1>3. EventsTyped BY <1>1, <1>2, Nothing, RestingIs DEF EventsTyped
<1>4. OfTheLab BY <1>1, Nothing, RestingIs DEF OfTheLab
<1>5. ErrorsTaken BY <1>1, Nothing, RestingIs DEF ErrorsTaken, Answered, Passed
<1> QED BY <1>1, <1>3, <1>4, <1>5, Nothing DEF CollectorInv

\* Something happens, and the buffer may keep it.
LEMMA HappensPart ==
  ASSUME CollectorInv, NEW kind \in EventNames, Happens(kind) PROVE CollectorInv'
<1> DEFINE N == Len(happened)
<1>1. /\ happened' = Append(happened, kind)
      /\ ring' = (IF kind # "action" /\ listener = "on" THEN Latest(Append(ring, N + 1), RingSize) ELSE ring)
      /\ UNCHANGED <<poll, seen, watermark, taken, faulty, gap, stored>>
  BY DEF Happens, collector
<1>2. EventsTyped /\ OfTheLab /\ ErrorsTaken /\ Recent(seen, taken) /\ FarApart(taken) BY DEF CollectorInv
<1>3. /\ happened' \in Seq(EventNames) /\ N \in Nat /\ DOMAIN happened = 1 .. N
      /\ Len(happened') = N + 1 /\ DOMAIN happened' = 1 .. (N + 1)
      /\ \A i \in 1 .. N : happened'[i] = happened[i]
  <2>1. happened \in Seq(EventNames) BY <1>2 DEF EventsTyped
  <2> QED BY <1>1, <2>1, OneMore
<1>4. ring' \in Seq(Nat) /\ Len(ring') <= RingSize /\ Rising(ring') /\ Range(ring') \subseteq Range(ring) \cup {N + 1}
  <2>1. ring \in Seq(Nat) /\ Len(ring) <= RingSize /\ Rising(ring) /\ Range(ring) \subseteq 1 .. N
    BY <1>2, <1>3 DEF EventsTyped, OfTheLab, ErrorsTaken
  <2>2. CASE ring' = ring BY <2>1, <2>2
  <2>3. CASE ring' = Latest(Append(ring, N + 1), RingSize)
    <3>1. N + 1 \in Nat /\ RingSize \in Nat BY <1>3, EventAssumption
    <3>2. PICK a : a = Append(ring, N + 1) OBVIOUS
    <3>3. /\ a \in Seq(Nat) /\ Len(ring) \in Nat /\ DOMAIN ring = 1 .. Len(ring) /\ DOMAIN a = 1 .. (Len(ring) + 1)
          /\ \A i \in 1 .. Len(ring) : a[i] = ring[i]
          /\ a[Len(ring) + 1] = N + 1 /\ Range(a) = Range(ring) \cup {N + 1}
      BY <2>1, <3>1, <3>2, OneMore
    <3>4. Rising(a)
      <4> SUFFICES ASSUME NEW i \in DOMAIN a, NEW j \in DOMAIN a, i < j PROVE a[i] < a[j] BY DEF Rising
      <4>1. i \in 1 .. Len(ring) BY <3>3
      <4>2. ring[i] \in 1 .. N BY <2>1, <3>3, <4>1 DEF Range
      <4>3. CASE j \in 1 .. Len(ring) BY <2>1, <3>3, <4>1, <4>3 DEF Rising
      <4>4. CASE j = Len(ring) + 1
        <5>1. ring[i] < N + 1 BY <1>3, <4>2
        <5> QED BY <3>3, <4>1, <4>4, <5>1
      <4> QED BY <3>3, <4>3, <4>4
    <3>5. Rising(Latest(a, RingSize)) BY <3>1, <3>3, <3>4, LatestRises
    <3>6. /\ Latest(a, RingSize) \in Seq(Nat) /\ Range(Latest(a, RingSize)) \subseteq Range(a)
          /\ Len(Latest(a, RingSize)) <= RingSize
      <4>1. LET l == Latest(a, RingSize) IN
            /\ l \in Seq(Nat) /\ Len(l) = (IF Len(a) <= RingSize THEN Len(a) ELSE RingSize) /\ Len(a) \in Nat
            /\ Range(l) \subseteq Range(a)
        BY <3>1, <3>3, TheLatest
      <4> QED BY <3>1, <4>1
    <3> QED BY <2>3, <3>2, <3>3, <3>5, <3>6
  <2> QED BY <1>1, <2>2, <2>3
<1>5. EventsTyped'
  <2>1. watermark \in 0 .. N /\ poll.at <= N /\ poll.at \in Nat BY <1>2 DEF EventsTyped
  <2>2. watermark \in 0 .. (N + 1) /\ poll.at <= N + 1 BY <1>3, <2>1
  <2> QED BY <1>1, <1>2, <1>3, <1>4, <2>2 DEF EventsTyped
<1>6. OfTheLab'
  <2>1. DOMAIN happened \subseteq DOMAIN happened' /\ N + 1 \in DOMAIN happened' BY <1>3
  <2>2. LabKeys \subseteq LabKeys' BY <2>1 DEF LabKeys
  <2> QED BY <1>1, <1>2, <1>4, <2>1, <2>2 DEF OfTheLab
<1>7. ErrorsTaken'
  <2>1. \A e \in Range(ring) : e \in 1 .. N /\ (IsError(e)' <=> IsError(e)) BY <1>2, <1>3 DEF OfTheLab, IsError
  <2>2. watermark < N + 1 /\ poll.at < N + 1 BY <1>2, <1>3 DEF EventsTyped
  <2>3. ~(N + 1 <= poll.at) /\ ~(N + 1 <= watermark) BY <1>2, <1>3, <2>2 DEF EventsTyped
  <2>4. Answered' BY <1>1, <1>2, <1>4, <2>1, <2>3 DEF Answered, ErrorsTaken
  <2>5. Passed' BY <1>1, <1>2, <1>4, <2>1, <2>3 DEF Passed, ErrorsTaken
  <2> QED BY <1>1, <1>2, <1>4, <2>4, <2>5 DEF ErrorsTaken
<1>8. (Recent(seen, taken) /\ FarApart(taken))' BY <1>1, <1>2 DEF Recent, FarApart
<1> QED BY <1>5, <1>6, <1>7, <1>8 DEF CollectorInv

\* The socket alone changes.
LEMMA SocketPart ==
  ASSUME CollectorInv, UNCHANGED <<happened, ring, poll, collector, stored>> PROVE CollectorInv'
<1>1. UNCHANGED <<happened, ring, poll, seen, watermark, taken, faulty, gap, stored>> BY DEF collector
<1>2. EventsTyped' BY <1>1 DEF CollectorInv, EventsTyped
<1>3. OfTheLab' BY <1>1 DEF CollectorInv, OfTheLab, LabKeys
<1>4. ErrorsTaken' BY <1>1 DEF CollectorInv, ErrorsTaken, Answered, Passed, IsError
<1> QED BY <1>1, <1>2, <1>3, <1>4 DEF CollectorInv, Recent, FarApart

\* The numbers of a window become the keys of a reply.
LEMMA Keyed ==
  ASSUME NEW kind \in EventKinds, NEW w \in Seq(Nat), Range(w) \subseteq DOMAIN happened
  PROVE  LET keys == [n \in DOMAIN w |-> Key(kind, w[n])] IN
         keys \in Seq(EventKeys) /\ Range(keys) \subseteq LabKeys
<1>1. PICK N \in Nat : N = Len(w) /\ DOMAIN w = 1 .. N BY LenProperties
<1>2. PICK keys : keys = [n \in DOMAIN w |-> Key(kind, w[n])] OBVIOUS
<1>3. \A n \in 1 .. N : w[n] \in Nat /\ w[n] \in DOMAIN happened BY <1>1, ElementOfSeq DEF Range
<1>4. \A n \in 1 .. N : keys[n] \in EventKeys /\ keys[n] \in LabKeys BY <1>1, <1>2, <1>3 DEF Key, EventKeys, LabKeys
<1>5. keys = [n \in 1 .. N |-> keys[n]] /\ DOMAIN keys = 1 .. N BY <1>1, <1>2
<1>6. keys \in Seq(EventKeys) BY <1>4, <1>5, IsASeq
<1>7. Range(keys) \subseteq LabKeys BY <1>4, <1>5 DEF Range
<1> QED BY <1>2, <1>6, <1>7

\* The keys of a reply that are new are taken, remembered and batched.
LEMMA TookPart ==
  ASSUME CollectorInv, NEW reply \in Seq(EventKeys), Range(reply) \subseteq LabKeys,
         NEW next \in {"logs", "errors"}, Took(reply, next),
         UNCHANGED <<happened, ring, watermark, stored, faulty, gap>>
  PROVE  CollectorInv'
<1>1. EventsTyped /\ OfTheLab /\ ErrorsTaken /\ Recent(seen, taken) /\ FarApart(taken) BY DEF CollectorInv
<1>2. PICK r : r = TakeNew(reply) OBVIOUS
<1>3. /\ r.seen \in Seq(EventKeys) /\ r.new \in Seq(EventKeys) /\ Range(r.new) \subseteq Range(reply)
      /\ Recent(r.seen, taken \o r.new) /\ FarApart(taken \o r.new)
  <2>1. seen \in Seq(EventKeys) /\ taken \in Seq(EventKeys) BY <1>1 DEF EventsTyped
  <2> QED BY <1>1, <1>2, <2>1, RepliesTaken
<1>4. /\ seen' = r.seen /\ taken' = taken \o r.new
      /\ poll' = [poll EXCEPT !.pc = next, !.batch = @ \o r.new]
  BY <1>2 DEF Took
<1>5. /\ poll \in [pc : {"asleep", "logs", "errors", "reply", "persist"},
                   batch : Seq(EventKeys), reply : Seq(Nat), at : Nat]
      /\ taken \in Seq(EventKeys)
  BY <1>1 DEF EventsTyped
<1>6. poll.batch \o r.new \in Seq(EventKeys) /\ Range(poll.batch \o r.new) = Range(poll.batch) \cup Range(r.new)
  <2>1. PICK b, c : b = poll.batch /\ c = r.new OBVIOUS
  <2>2. b \in Seq(EventKeys) /\ c \in Seq(EventKeys) BY <1>3, <1>5, <2>1
  <2>3. b \o c \in Seq(EventKeys) /\ Range(b \o c) = Range(b) \cup Range(c) BY <2>2, Joined
  <2> QED BY <2>1, <2>3
<1>7. taken' \in Seq(EventKeys) BY <1>3, <1>4, <1>5, ConcatProperties
<1>8. /\ poll' \in [pc : {"asleep", "logs", "errors", "reply", "persist"},
                    batch : Seq(EventKeys), reply : Seq(Nat), at : Nat]
      /\ poll'.pc = next /\ poll'.batch = poll.batch \o r.new /\ poll'.reply = poll.reply /\ poll'.at = poll.at
  BY <1>4, <1>5, <1>6
<1>9. EventsTyped' BY <1>1, <1>3, <1>4, <1>7, <1>8 DEF EventsTyped
<1>10. OfTheLab'
  <2>1. LabKeys' = LabKeys BY DEF LabKeys
  <2> QED BY <1>1, <1>3, <1>6, <1>8, <2>1 DEF OfTheLab
<1>11. ErrorsTaken'
  <2>1. Answered' BY <1>8 DEF Answered
  <2>2. Passed' BY <1>1 DEF ErrorsTaken, Passed, IsError
  <2> QED BY <1>1, <1>8, <2>1, <2>2 DEF ErrorsTaken
<1>12. (Recent(seen, taken) /\ FarApart(taken))' BY <1>3, <1>4 DEF Recent, FarApart
<1> QED BY <1>9, <1>10, <1>11, <1>12 DEF CollectorInv

LEMMA Turned ==
  ASSUME NEW s \in Seq(Nat) PROVE Reverse(s) \in Seq(Nat) /\ Range(Reverse(s)) \subseteq Range(s)
<1>1. PICK N \in Nat : N = Len(s) /\ DOMAIN s = 1 .. N BY LenProperties
<1>2. PICK b : b = Reverse(s) OBVIOUS
<1>3. b = [i \in 1 .. N |-> s[N - i + 1]] BY <1>1, <1>2 DEF Reverse
<1>4. \A i \in 1 .. N : N - i + 1 \in 1 .. N OBVIOUS
<1>5. \A i \in 1 .. N : s[i] \in Nat /\ s[i] \in Range(s) BY <1>1, ElementOfSeq DEF Range
<1>6. \A i \in 1 .. N : b[i] \in Nat /\ b[i] \in Range(s) BY <1>3, <1>4, <1>5
<1>7. b = [i \in 1 .. N |-> b[i]] /\ DOMAIN b = 1 .. N BY <1>3
<1>8. b \in Seq(Nat)
  <2>1. b \in [1 .. N -> Nat] BY <1>6, <1>7
  <2> QED BY <2>1, SeqDef
<1> QED BY <1>2, <1>6, <1>7, <1>8 DEF Range

LEMMA ActionsPart == ASSUME CollectorInv, FetchActions PROVE CollectorInv'
<1>1. Took(NewestActions, "logs") /\ UNCHANGED <<happened, ring, watermark, stored, faulty, gap>> BY DEF FetchActions
<1>2. PICK all, acts, w : /\ all = [i \in DOMAIN happened |-> i]
                          /\ acts = Those(all, {i \in DOMAIN happened : happened[i] = "action"})
                          /\ w = Reverse(Latest(acts, ActionWindow))
  OBVIOUS
<1>3. NewestActions = [n \in DOMAIN w |-> Key("action", w[n])] BY <1>2 DEF NewestActions
<1>4. all \in Seq(Nat) /\ Range(all) \subseteq DOMAIN happened
  <2>1. happened \in Seq(EventNames) BY DEF CollectorInv, EventsTyped
  <2>2. PICK N \in Nat : DOMAIN happened = 1 .. N BY <2>1, LenProperties
  <2>3. all = [i \in 1 .. N |-> all[i]] /\ \A i \in 1 .. N : all[i] = i /\ all[i] \in Nat BY <1>2, <2>2
  <2>4. all \in Seq(Nat) BY <2>3, IsASeq
  <2> QED BY <1>2, <2>4 DEF Range
<1>5. acts \in Seq(Nat) /\ Range(acts) \subseteq DOMAIN happened
  <2>1. PICK keep : keep = {i \in DOMAIN happened : happened[i] = "action"} OBVIOUS
  <2>2. Those(all, keep) \in Seq(Nat) /\ Range(Those(all, keep)) = Range(all) \cap keep BY <1>4, Selected
  <2> QED BY <1>2, <1>4, <2>1, <2>2
<1>6. PICK l : l = Latest(acts, ActionWindow) OBVIOUS
<1>7. l \in Seq(Nat) /\ Range(l) \subseteq Range(acts)
  <2>1. ActionWindow \in Nat BY EventAssumption
  <2>2. LET m == Latest(acts, ActionWindow) IN m \in Seq(Nat) /\ Range(m) \subseteq Range(acts)
    BY <1>5, <2>1, TheLatest
  <2> QED BY <1>6, <2>2
<1>8. w \in Seq(Nat) /\ Range(w) \subseteq DOMAIN happened BY <1>2, <1>5, <1>6, <1>7, Turned
<1>9. "action" \in EventKinds BY DEF EventKinds
<1>10. NewestActions \in Seq(EventKeys) /\ Range(NewestActions) \subseteq LabKeys BY <1>3, <1>8, <1>9, Keyed
<1>11. PICK reply : reply = NewestActions OBVIOUS
<1> QED BY <1>1, <1>10, <1>11, TookPart

LEMMA LogsPart == ASSUME CollectorInv, FetchLogs PROVE CollectorInv'
<1>1. PICK w : w = Latest(ring, LogWindow) OBVIOUS
<1>2. PICK reply : reply = [n \in DOMAIN w |-> Key("log", w[n])] OBVIOUS
<1>3. Took(reply, "errors") /\ UNCHANGED <<happened, ring, watermark, stored, faulty, gap>>
  BY <1>1, <1>2 DEF FetchLogs
<1>4. ring \in Seq(Nat) /\ Range(ring) \subseteq DOMAIN happened BY DEF CollectorInv, EventsTyped, OfTheLab
<1>5. w \in Seq(Nat) /\ Range(w) \subseteq DOMAIN happened
  <2>1. LogWindow \in Nat BY EventAssumption
  <2>2. LET m == Latest(ring, LogWindow) IN m \in Seq(Nat) /\ Range(m) \subseteq Range(ring)
    BY <1>4, <2>1, TheLatest
  <2> QED BY <1>1, <1>4, <2>2
<1>6. "log" \in EventKinds BY DEF EventKinds
<1>7. reply \in Seq(EventKeys) /\ Range(reply) \subseteq LabKeys BY <1>2, <1>5, <1>6, Keyed
<1> QED BY <1>3, <1>7, TookPart

LEMMA FetchFailsPart == ASSUME CollectorInv, FetchFails PROVE CollectorInv'
<1>1. /\ EventsTyped /\ OfTheLab /\ ErrorsTaken /\ Recent(seen, taken) /\ FarApart(taken)
      /\ UNCHANGED <<happened, ring, seen, watermark, taken, faulty, gap, stored>>
  BY DEF CollectorInv, FetchFails, collector
<1>2. PICK next \in {"logs", "errors", "persist"} : poll' = [poll EXCEPT !.reply = <<>>, !.at = 0, !.pc = next]
  BY DEF FetchFails
<1>3. poll \in [pc : {"asleep", "logs", "errors", "reply", "persist"},
                batch : Seq(EventKeys), reply : Seq(Nat), at : Nat]
  BY <1>1 DEF EventsTyped
<1>4. /\ poll' \in [pc : {"asleep", "logs", "errors", "reply", "persist"},
                    batch : Seq(EventKeys), reply : Seq(Nat), at : Nat]
      /\ poll'.pc = next /\ poll'.batch = poll.batch /\ poll'.reply = <<>> /\ poll'.at = 0
  BY <1>2, <1>3, Nothing
<1>5. EventsTyped'
  <2>1. happened \in Seq(EventNames) BY <1>1 DEF EventsTyped
  <2>2. Len(happened) \in Nat BY <2>1, LenProperties
  <2> QED BY <1>1, <1>4, <2>2 DEF EventsTyped
<1>6. OfTheLab' BY <1>1, <1>4, Nothing DEF OfTheLab, LabKeys
<1>7. ErrorsTaken'
  <2>1. Answered' BY <1>4 DEF Answered
  <2>2. Passed' BY <1>1 DEF ErrorsTaken, Passed, IsError
  <2> QED BY <1>1, <1>4, <2>1, <2>2, Nothing DEF ErrorsTaken
<1> QED BY <1>1, <1>5, <1>6, <1>7 DEF CollectorInv, Recent, FarApart

\* The errors asked for are those of the buffer that are newer than the watermark.
LEMMA AskPart == ASSUME CollectorInv, AskErrors PROVE CollectorInv'
<1> DEFINE asked == {i \in DOMAIN happened : IsError(i) /\ i > watermark}
<1>1. /\ EventsTyped /\ OfTheLab /\ ErrorsTaken /\ Recent(seen, taken) /\ FarApart(taken)
      /\ UNCHANGED <<happened, ring, seen, watermark, taken, faulty, gap, stored>>
      /\ poll' = [poll EXCEPT !.pc = "reply", !.reply = Those(ring, asked), !.at = Len(happened)]
  BY DEF CollectorInv, AskErrors, collector
<1>2. PICK keep, t : keep = asked /\ t = Those(ring, keep) OBVIOUS
<1>3. t \in Seq(Nat) /\ Range(t) = Range(ring) \cap keep /\ Rising(t)
  <2>1. ring \in Seq(Nat) /\ Rising(ring) BY <1>1 DEF EventsTyped, ErrorsTaken
  <2> QED BY <1>2, <2>1, Selected
<1>4. /\ poll \in [pc : {"asleep", "logs", "errors", "reply", "persist"},
                   batch : Seq(EventKeys), reply : Seq(Nat), at : Nat]
      /\ Len(happened) \in Nat /\ DOMAIN happened = 1 .. Len(happened)
  <2>1. happened \in Seq(EventNames) BY <1>1 DEF EventsTyped
  <2> QED BY <1>1, <2>1, LenProperties DEF EventsTyped
<1>5. /\ poll' \in [pc : {"asleep", "logs", "errors", "reply", "persist"},
                    batch : Seq(EventKeys), reply : Seq(Nat), at : Nat]
      /\ poll'.pc = "reply" /\ poll'.batch = poll.batch /\ poll'.reply = t /\ poll'.at = Len(happened)
  <2> HIDE DEF asked
  <2>1. poll' = [poll EXCEPT !.pc = "reply", !.reply = t, !.at = Len(happened)] BY <1>1, <1>2
  <2> QED BY <1>3, <1>4, <2>1
<1>6. EventsTyped' BY <1>1, <1>4, <1>5 DEF EventsTyped
<1>7. OfTheLab'
  <2>1. Range(t) \subseteq DOMAIN happened BY <1>1, <1>3 DEF OfTheLab
  <2> QED BY <1>1, <1>5, <2>1 DEF OfTheLab, LabKeys
<1>8. ErrorsTaken'
  <2>1. \A i \in DOMAIN t : t[i] > watermark
    <3>1. \A i \in DOMAIN t : t[i] \in keep BY <1>3 DEF Range
    <3> QED BY <1>2, <3>1
  <2>2. \A e \in Range(ring) : IsError(e) /\ watermark < e => e \in Range(t)
    <3>1. \A e \in Range(ring) : e \in DOMAIN happened BY <1>1 DEF OfTheLab
    <3>2. \A e \in Range(ring) : IsError(e) /\ watermark < e => e \in keep
      <4> SUFFICES ASSUME NEW e \in Range(ring), IsError(e), watermark < e PROVE e \in keep OBVIOUS
      <4>1. e \in Int /\ watermark \in Int BY <1>1, <1>4, <3>1 DEF EventsTyped
      <4>2. e > watermark BY <4>1
      <4> QED BY <1>2, <3>1, <4>2
    <3> QED BY <1>3, <3>2
  <2> HIDE DEF asked
  <2>3. Answered' BY <1>1, <1>5, <2>2 DEF Answered, IsError
  <2>4. Passed' BY <1>1 DEF ErrorsTaken, Passed, IsError
  <2> QED BY <1>1, <1>3, <1>5, <2>1, <2>3, <2>4 DEF ErrorsTaken
<1> QED BY <1>1, <1>6, <1>7, <1>8 DEF CollectorInv, Recent, FarApart

\* The answer is taken, and the watermark passes what was logged since it was asked for.
LEMMA TakePart == ASSUME CollectorInv, TakeErrors PROVE CollectorInv'
<1> DEFINE N == Len(happened)
           Cycles == [pc : {"asleep", "logs", "errors", "reply", "persist"},
                     batch : Seq(EventKeys), reply : Seq(Nat), at : Nat]
<1>1. /\ EventsTyped /\ OfTheLab /\ ErrorsTaken /\ Recent(seen, taken) /\ FarApart(taken)
      /\ UNCHANGED <<happened, ring, seen, taken, stored>>
      /\ poll.pc = "reply" /\ watermark' = N
      /\ gap' = gap \cup (poll.at + 1 .. N) /\ faulty' = faulty \o poll.reply
  BY DEF CollectorInv, TakeErrors, Watermark
<1>2. PICK w, keys : w = poll.reply /\ keys = [n \in DOMAIN w |-> Key("error", w[n])] OBVIOUS
<1>3. poll' = [poll EXCEPT !.pc = "persist", !.reply = <<>>, !.at = 0, !.batch = @ \o keys]
  BY <1>2 DEF TakeErrors
<1>4. /\ poll \in Cycles /\ N \in Nat /\ DOMAIN happened = 1 .. N /\ happened \in Seq(EventNames)
      /\ watermark \in 0 .. N /\ poll.at \in Nat
  <2>1. happened \in Seq(EventNames) BY <1>1 DEF EventsTyped
  <2> QED BY <1>1, <2>1, LenProperties DEF EventsTyped
<1>5. w \in Seq(Nat) /\ Range(w) \subseteq 1 .. N /\ Rising(w) /\ \A i \in DOMAIN w : w[i] > watermark
  BY <1>1, <1>2, <1>4 DEF OfTheLab, ErrorsTaken
<1>6. keys \in Seq(EventKeys) /\ Range(keys) \subseteq LabKeys
  <2>1. "error" \in EventKinds BY DEF EventKinds
  <2> QED BY <1>2, <1>4, <1>5, <2>1, Keyed
<1>7. PICK b, c : b = poll.batch /\ c = b \o keys OBVIOUS
<1>8. c \in Seq(EventKeys) /\ Range(c) \subseteq LabKeys
  <2>1. b \in Seq(EventKeys) BY <1>4, <1>7
  <2>2. Range(b) \subseteq LabKeys BY <1>1, <1>7 DEF OfTheLab
  <2>3. b \o keys \in Seq(EventKeys) /\ Range(b \o keys) = Range(b) \cup Range(keys) BY <1>6, <2>1, Joined
  <2> QED BY <1>6, <1>7, <2>2, <2>3
<1>9. /\ poll' \in Cycles /\ poll'.pc = "persist" /\ poll'.batch = c /\ poll'.reply = <<>> /\ poll'.at = 0
  <2>1. poll' = [poll EXCEPT !.pc = "persist", !.reply = <<>>, !.at = 0, !.batch = c] BY <1>3, <1>7
  <2> QED BY <1>4, <1>8, <2>1, Nothing
<1>10. PICK f, F, m, n : f = faulty \o w /\ F = faulty /\ m = Len(faulty) /\ n = Len(w) OBVIOUS
<1>11. /\ f \in Seq(Nat) /\ m \in Nat /\ n \in Nat /\ DOMAIN F = 1 .. m /\ DOMAIN w = 1 .. n /\ DOMAIN f = 1 .. (m + n)
       /\ \A i \in 1 .. m : f[i] = F[i]
       /\ \A i \in 1 .. n : f[m + i] = w[i]
       /\ \A i \in DOMAIN f : i \in 1 .. m \/ (i - m \in 1 .. n /\ i = m + (i - m))
       /\ Range(f) = Range(F) \cup Range(w)
  <2>1. faulty \in Seq(Nat) BY <1>1 DEF EventsTyped
  <2> QED BY <1>5, <1>10, <2>1, Joined
<1>12. faulty' = f BY <1>1, <1>2, <1>10
<1>13. Rising(F) /\ (\A i \in 1 .. m : F[i] \in Nat /\ F[i] <= watermark) /\ \A i \in 1 .. n : w[i] \in 1 .. N
  <2>1. F \in Seq(Nat) /\ Rising(F) /\ \A i \in DOMAIN F : F[i] <= watermark
    BY <1>1, <1>10 DEF EventsTyped, OfTheLab, ErrorsTaken
  <2>2. \A i \in 1 .. m : F[i] \in Nat BY <1>11, <2>1, ElementOfSeq
  <2> QED BY <1>5, <1>11, <2>1, <2>2 DEF Range
<1>14. EventsTyped' BY <1>1, <1>4, <1>9, <1>11, <1>12 DEF EventsTyped
<1>15. OfTheLab'
  <2>1. \A i \in DOMAIN f : f[i] <= N
    <3> SUFFICES ASSUME NEW i \in DOMAIN f PROVE f[i] <= N OBVIOUS
    <3>1. CASE i \in 1 .. m
      <4>1. f[i] = F[i] /\ F[i] \in Nat /\ F[i] <= watermark BY <1>11, <1>13, <3>1
      <4> QED BY <1>4, <4>1
    <3>2. CASE i - m \in 1 .. n /\ i = m + (i - m)
      <4>1. PICK k \in 1 .. n : i = m + k BY <3>2
      <4>2. f[i] = w[k] /\ w[k] \in 1 .. N BY <1>11, <1>13, <4>1
      <4> QED BY <1>4, <4>2
    <3> QED BY <1>11, <3>1, <3>2
  <2> QED BY <1>1, <1>8, <1>9, <1>12, <2>1, Nothing DEF OfTheLab, LabKeys
<1>16. Rising(f)
  <2> SUFFICES ASSUME NEW i \in DOMAIN f, NEW j \in DOMAIN f, i < j PROVE f[i] < f[j] BY DEF Rising
  <2>1. CASE j \in 1 .. m
    <3>1. i \in 1 .. m BY <1>11, <2>1
    <3> QED BY <1>11, <1>13, <2>1, <3>1 DEF Rising
  <2>2. CASE j - m \in 1 .. n /\ j = m + (j - m)
    <3>1. PICK k \in 1 .. n : j = m + k BY <2>2
    <3>2. f[j] = w[k] /\ w[k] \in Nat /\ w[k] > watermark
      <4>1. w[k] \in 1 .. N /\ k \in DOMAIN w BY <1>11, <1>13
      <4>2. w[k] \in Nat BY <4>1
      <4>3. w[k] > watermark BY <1>5, <4>1
      <4>4. f[j] = w[k] BY <1>11, <3>1
      <4> QED BY <4>2, <4>3, <4>4
    <3>3. CASE i \in 1 .. m
      <4>1. f[i] = F[i] /\ F[i] \in Nat /\ F[i] <= watermark BY <1>11, <1>13, <3>3
      <4> QED BY <1>4, <3>2, <4>1
    <3>4. CASE i - m \in 1 .. n /\ i = m + (i - m)
      <4>1. PICK h \in 1 .. n : i = m + h BY <3>4
      <4>2. h < k BY <1>11, <3>1, <4>1
      <4>3. w[h] < w[k] BY <1>5, <1>11, <4>2 DEF Rising
      <4> QED BY <1>11, <3>2, <4>1, <4>3
    <3> QED BY <1>11, <3>3, <3>4
  <2> QED BY <1>11, <2>1, <2>2
<1>17. ErrorsTaken'
  <2>1. Answered' BY <1>9 DEF Answered
  <2>2. Passed'
    <3>1. \A e \in Range(ring) : IsError(e)' <=> IsError(e) BY <1>1 DEF IsError
    <3> SUFFICES ASSUME NEW e \in Range(ring), IsError(e), e <= N, e \notin Range(f) PROVE e \in gap'
      BY <1>1, <1>12, <3>1 DEF Passed
    <3>2. e \in 1 .. N BY <1>1, <1>4 DEF OfTheLab
    <3>3. e \notin Range(F) /\ e \notin Range(w) BY <1>11
    <3>4. CASE e <= watermark
      <4>1. e \in gap BY <1>1, <1>10, <3>3, <3>4 DEF ErrorsTaken, Passed
      <4> QED BY <1>1, <4>1
    <3>5. CASE ~(e <= watermark)
      <4>1. watermark < e BY <1>4, <3>2, <3>5
      <4>2. ~(e <= poll.at) BY <1>1, <1>2, <3>3, <4>1 DEF ErrorsTaken, Answered
      <4>3. e \in poll.at + 1 .. N BY <1>4, <3>2, <4>2
      <4> QED BY <1>1, <4>3
    <3> QED BY <3>4, <3>5
  <2> QED BY <1>1, <1>9, <1>12, <1>16, <2>1, <2>2, Nothing DEF ErrorsTaken
<1> QED BY <1>1, <1>14, <1>15, <1>17 DEF CollectorInv, Recent, FarApart

LEMMA PersistEventsPart == ASSUME CollectorInv, Persist PROVE CollectorInv'
<1>1. /\ EventsTyped /\ OfTheLab /\ ErrorsTaken /\ Recent(seen, taken) /\ FarApart(taken)
      /\ UNCHANGED <<happened, ring, seen, watermark, taken, faulty, gap>>
      /\ poll' = Resting /\ stored' \subseteq stored \cup ToSet(poll.batch)
  BY DEF CollectorInv, Persist, collector
<1>2. happened \in Seq(EventNames) BY <1>1 DEF EventsTyped
<1>3. Len(happened) \in Nat BY <1>2, LenProperties
<1>4. EventsTyped' BY <1>1, <1>3, RestingIs DEF EventsTyped
<1>5. OfTheLab'
  <2>1. ToSet(poll.batch) = Range(poll.batch) BY DEF ToSet, Range
  <2> QED BY <1>1, <2>1, RestingIs, Nothing DEF OfTheLab, LabKeys
<1>6. ErrorsTaken'
  <2>1. Answered' BY <1>1, RestingIs DEF Answered
  <2>2. Passed' BY <1>1 DEF ErrorsTaken, Passed, IsError
  <2> QED BY <1>1, <2>1, <2>2, RestingIs, Nothing DEF ErrorsTaken
<1> QED BY <1>1, <1>4, <1>5, <1>6 DEF CollectorInv, Recent, FarApart

LEMMA RestartedPart == ASSUME CollectorInv, Restarted PROVE CollectorInv'
<1>1. /\ EventsTyped /\ OfTheLab /\ ErrorsTaken
      /\ UNCHANGED <<happened, ring, stored>>
      /\ poll' = Resting /\ seen' = <<>> /\ watermark' = 0 /\ taken' = <<>> /\ faulty' = <<>>
  BY DEF CollectorInv, Restarted
<1>2. happened \in Seq(EventNames) BY <1>1 DEF EventsTyped
<1>3. Len(happened) \in Nat /\ DOMAIN happened = 1 .. Len(happened) BY <1>2, LenProperties
<1>4. EventsTyped' BY <1>1, <1>3, RestingIs, Nothing DEF EventsTyped
<1>5. OfTheLab' BY <1>1, RestingIs, Nothing DEF OfTheLab, LabKeys
<1>6. ErrorsTaken'
  <2>1. Answered' BY <1>1, RestingIs DEF Answered
  <2>2. \A e \in Range(ring) : ~(e <= 0) BY <1>1, <1>3 DEF OfTheLab
  <2>3. Passed' BY <1>1, <2>2 DEF Passed
  <2> QED BY <1>1, <2>1, <2>3, RestingIs, Nothing DEF ErrorsTaken
<1> QED BY <1>1, <1>4, <1>5, <1>6, Nothing DEF CollectorInv

LEMMA EventsGoOn == ASSUME CollectorInv, [EventNext]_eventVars PROVE CollectorInv'
<1>1. ASSUME NEW kind \in {"action", "info", "error"}, Happens(kind) PROVE CollectorInv'
  BY <1>1, HappensPart DEF EventNames
<1>2. CASE Listening BY <1>2, SocketPart DEF Listening
<1>3. CASE Disconnected BY <1>3, SocketPart DEF Disconnected
<1>4. CASE FetchActions BY <1>4, ActionsPart
<1>5. CASE FetchLogs BY <1>5, LogsPart
<1>6. CASE FetchFails BY <1>6, FetchFailsPart
<1>7. CASE AskErrors BY <1>7, AskPart
<1>8. CASE TakeErrors BY <1>8, TakePart
<1>9. CASE Persist BY <1>9, PersistEventsPart
<1>10. CASE Restarted BY <1>10, RestartedPart
<1>11. CASE UNCHANGED eventVars BY <1>11, SocketPart DEF eventVars, collector
<1> QED BY <1>1, <1>2, <1>3, <1>4, <1>5, <1>6, <1>7, <1>8, <1>9, <1>10, <1>11 DEF EventNext

LEMMA EventsSound == CollectorInv => TakenOnce
<1> SUFFICES ASSUME CollectorInv PROVE TakenOnce OBVIOUS
<1>1. EventsTyped /\ OfTheLab /\ Recent(seen, taken) /\ FarApart(taken) /\ ErrorsTaken BY DEF CollectorInv
<1>2. EventTypeOK
  <2>1. DedupSize \in Nat /\ Len(taken) \in Nat
    <3>1. taken \in Seq(EventKeys) BY <1>1 DEF EventsTyped
    <3> QED BY <3>1, LenProperties, EventAssumption
  <2>2. Len(seen) <= DedupSize BY <1>1, <2>1 DEF Recent
  <2>3. stored \subseteq {"action", "log", "error"} \X DOMAIN happened BY <1>1 DEF OfTheLab, LabKeys, EventKinds
  <2> QED BY <1>1, <2>2, <2>3 DEF EventTypeOK, EventsTyped
<1>3. \A i, j \in DOMAIN faulty : faulty[i] = faulty[j] => i = j
  <2> SUFFICES ASSUME NEW i \in DOMAIN faulty, NEW j \in DOMAIN faulty, faulty[i] = faulty[j], i # j PROVE FALSE
    OBVIOUS
  <2>1. faulty \in Seq(Nat) BY <1>1 DEF EventsTyped
  <2>2. i \in Nat /\ j \in Nat /\ faulty[i] \in Nat /\ faulty[j] \in Nat BY <2>1, LenProperties, ElementOfSeq
  <2>3. i < j \/ j < i BY <2>2
  <2>4. faulty[i] < faulty[j] \/ faulty[j] < faulty[i] BY <1>1, <2>3 DEF ErrorsTaken, Rising
  <2> QED BY <2>2, <2>4
<1>4. ToSet(ring) = Range(ring) /\ ToSet(faulty) = Range(faulty) BY DEF ToSet, Range
<1> QED BY <1>1, <1>2, <1>3, <1>4 DEF TakenOnce, FarApart, ErrorsTaken, Passed

(* A collector takes an action or a log entry again only after dedup_max_size  *)
(* newer ones, an error never again, and passes over an error that its buffer  *)
(* held only if it was logged while an answer was under way, whatever the      *)
(* sizes of the windows, of the memory and of the buffer                       *)
(* (collector.py:168-186, 219-226).                                            *)
THEOREM EventsTakenOnce == EventSpec => []TakenOnce
<1>1. EventInit => CollectorInv BY EventsStart
<1>2. CollectorInv /\ [EventNext]_eventVars => CollectorInv' BY EventsGoOn
<1>3. CollectorInv => TakenOnce BY EventsSound
<1> QED BY <1>1, <1>2, <1>3, PTL DEF EventSpec

-----------------------------------------------------------------------------
(* What the window tells of the learner *)

Kinds == Heartbeat \cup {"start", "error", "hint"}
Noteworthy ==
  [action : Kinds, component : Components \cup {None}, message : Components \cup Details \cup {None},
   actual : Details \cup {None}, at : Nat]

\* The window v is the window w with the event e behind it.
Longer(w, e, v) ==
  /\ Len(w) \in Nat /\ Len(v) = Len(w) + 1 /\ DOMAIN w = 1 .. Len(w) /\ DOMAIN v = 1 .. (Len(w) + 1)
  /\ \A i \in 1 .. Len(w) : v[i] = w[i]
  /\ v[Len(w) + 1] = e

LEMMA WindowGrows ==
  ASSUME NEW w \in Seq(Noteworthy), NEW e \in Noteworthy
  PROVE  Longer(w, e, Append(w, e)) /\ Append(w, e) \in Seq(Noteworthy) /\ Append(w, e) # <<>>
<1>1. PICK v, S : v = Append(w, e) /\ S = Noteworthy OBVIOUS
<1>2. /\ v \in Seq(S) /\ v # <<>> /\ Len(w) \in Nat /\ DOMAIN w = 1 .. Len(w)
      /\ Len(v) = Len(w) + 1 /\ DOMAIN v = 1 .. (Len(w) + 1)
      /\ (\A i \in 1 .. Len(w) : v[i] = w[i]) /\ v[Len(w) + 1] = e
  BY <1>1, OneMore
<1> QED BY <1>1, <1>2 DEF Longer

\* A set of places of a window, and one place more.
LEMMA PlacesCounted ==
  ASSUME NEW n \in Nat, NEW S, S \subseteq 1 .. n
  PROVE  /\ IsFiniteSet(S) /\ Cardinality(S) \in Nat
         /\ n + 1 \notin S /\ Cardinality(S \cup {n + 1}) = Cardinality(S) + 1
<1>1. IsFiniteSet(1 .. n) BY FS_Interval
<1>2. IsFiniteSet(S) /\ Cardinality(S) \in Nat BY <1>1, FS_Subset, FS_CardinalityType
<1>3. n + 1 \notin S
  <2>1. ~(n + 1 \in 1 .. n) OBVIOUS
  <2> QED BY <2>1
<1> QED BY <1>2, <1>3, FS_AddElement

\* The errors that agree, up to the last one.
ErrorRun(w) == {i \in SincePassed(w) : \A j \in SincePassed(w) : j >= i => w[j].message = w[i].message}
ErrorsFollowed(w, s) ==
  s[2] \in Nat /\ Cardinality(ErrorRun(w)) = s[2] /\ \A i \in ErrorRun(w) : w[i].message = s[1]

LEMMA ErrorsGrow ==
  ASSUME NEW w, NEW e, NEW v, Longer(w, e, v), NEW s, ErrorsFollowed(w, s)
  PROVE  ErrorsFollowed(v, IF e.action = "check_passed" THEN <<None, 0>>
                           ELSE IF ~IsErrorKind(e.action) THEN s
                           ELSE IF s[1] = e.message THEN <<e.message, s[2] + 1>> ELSE <<e.message, 1>>)
<1>1. PICK n, m : n = Len(w) /\ m = n + 1 OBVIOUS
<1>2. /\ n \in Nat /\ m = n + 1 /\ DOMAIN w = 1 .. n /\ DOMAIN v = 1 .. m /\ Len(v) = m
      /\ (\A i \in 1 .. n : v[i] = w[i]) /\ v[m] = e
  BY <1>1 DEF Longer
<1>3. \A i : i \in 1 .. m <=> (i \in 1 .. n \/ i = m) BY <1>2
<1>4. m \notin 1 .. n /\ m \in 1 .. m /\ \A i \in 1 .. n : m \in i .. m /\ i <= m /\ m >= i /\ ~(i >= m) BY <1>2
<1>5. SincePassed(w) \subseteq 1 .. n BY <1>2 DEF SincePassed, AllErrors
<1>6. ErrorRun(w) \subseteq 1 .. n BY <1>5 DEF ErrorRun
<1>7. CASE e.action = "check_passed"
  <2>1. SincePassed(v) = {}
    <3> SUFFICES ASSUME NEW i \in SincePassed(v) PROVE FALSE OBVIOUS
    <3>1. i \in 1 .. m /\ \A j \in i .. m : v[j].action # "check_passed"
      BY <1>2 DEF SincePassed, AllErrors
    <3>2. m \in i .. m BY <1>2, <3>1
    <3> QED BY <1>2, <1>7, <3>1, <3>2
  <2>2. ErrorRun(v) = {} BY <2>1 DEF ErrorRun
  <2>3. Cardinality(ErrorRun(v)) = 0 BY <2>2, FS_EmptySet
  <2> QED BY <1>7, <2>2, <2>3 DEF ErrorsFollowed
<1>8. ASSUME e.action # "check_passed", NEW i \in 1 .. n PROVE i \in SincePassed(v) <=> i \in SincePassed(w)
  <2>1. v[i] = w[i] /\ i \in 1 .. m BY <1>2, <1>3
  <2>2. \A j : j \in i .. m <=> (j \in i .. n \/ j = m) BY <1>2
  <2>3. \A j \in i .. n : j \in 1 .. n /\ v[j] = w[j] BY <1>2
  <2>4. (\A j \in i .. m : v[j].action # "check_passed") <=> (\A j \in i .. n : w[j].action # "check_passed")
    BY <1>2, <1>8, <2>2, <2>3
  <2> QED BY <1>1, <1>2, <2>1, <2>4 DEF SincePassed, AllErrors
<1>9. CASE e.action # "check_passed" /\ ~IsErrorKind(e.action)
  <2>1. m \notin SincePassed(v) BY <1>2, <1>9 DEF SincePassed, AllErrors
  <2>2. SincePassed(v) \subseteq 1 .. m BY <1>2 DEF SincePassed, AllErrors
  <2>3. SincePassed(v) = SincePassed(w) BY <1>3, <1>5, <1>8, <1>9, <2>1, <2>2
  <2>4. \A i \in SincePassed(w) : v[i] = w[i] BY <1>2, <1>5
  <2>5. ErrorRun(v) = ErrorRun(w) BY <2>3, <2>4 DEF ErrorRun
  <2>6. \A i \in ErrorRun(w) : v[i] = w[i] BY <2>4 DEF ErrorRun
  <2> QED BY <1>9, <2>5, <2>6 DEF ErrorsFollowed
<1>10. CASE e.action # "check_passed" /\ IsErrorKind(e.action)
  <2>1. m \in SincePassed(v)
    <3>1. \A j \in m .. m : j = m BY <1>2
    <3> QED BY <1>2, <1>4, <1>10, <3>1 DEF SincePassed, AllErrors
  <2>2. SincePassed(v) \subseteq 1 .. m BY <1>2 DEF SincePassed, AllErrors
  <2>3. \A i : i \in SincePassed(v) <=> (i \in SincePassed(w) \/ i = m) BY <1>3, <1>5, <1>8, <1>10, <2>1, <2>2
  <2>4. \A i \in SincePassed(w) : v[i] = w[i] BY <1>2, <1>5
  <2>5. m \in ErrorRun(v)
    <3>1. \A j \in SincePassed(v) : j >= m => j = m BY <1>4, <1>5, <2>3
    <3> QED BY <2>1, <3>1 DEF ErrorRun
  <2>6. ErrorRun(v) \subseteq SincePassed(v) BY DEF ErrorRun
  <2>7. ASSUME NEW i \in SincePassed(w)
        PROVE  i \in ErrorRun(v) <=> i \in ErrorRun(w) /\ w[i].message = e.message
    <3>1. i \in SincePassed(v) /\ v[i] = w[i] /\ m >= i BY <1>4, <1>5, <2>3, <2>4
    <3>2. (\A j \in SincePassed(v) : j >= i => v[j].message = v[i].message)
          <=> /\ \A j \in SincePassed(w) : j >= i => w[j].message = w[i].message
              /\ e.message = w[i].message
      BY <1>2, <2>3, <2>4, <3>1
    <3> QED BY <3>1, <3>2 DEF ErrorRun
  <2>8. CASE s[1] = e.message
    <3>1. ErrorRun(v) = ErrorRun(w) \cup {m}
      <4>1. \A i \in ErrorRun(w) : i \in SincePassed(w) /\ w[i].message = e.message
        BY <2>8 DEF ErrorRun, ErrorsFollowed
      <4> QED BY <2>3, <2>5, <2>6, <2>7, <4>1
    <3>2. Cardinality(ErrorRun(v)) = s[2] + 1
      <4>1. Cardinality(ErrorRun(w) \cup {n + 1}) = Cardinality(ErrorRun(w)) + 1 BY <1>2, <1>6, PlacesCounted
      <4> QED BY <1>2, <3>1, <4>1 DEF ErrorsFollowed
    <3>3. \A i \in ErrorRun(v) : v[i].message = e.message
      <4>1. \A i \in ErrorRun(w) : v[i].message = e.message BY <2>4, <2>8 DEF ErrorRun, ErrorsFollowed
      <4> QED BY <1>2, <3>1, <4>1
    <3> QED BY <1>10, <2>8, <3>2, <3>3 DEF ErrorsFollowed
  <2>9. CASE s[1] # e.message
    <3>1. ErrorRun(v) = {m}
      <4>1. \A i \in ErrorRun(w) : w[i].message # e.message BY <2>9 DEF ErrorsFollowed
      <4> QED BY <2>3, <2>5, <2>6, <2>7, <4>1
    <3>2. Cardinality(ErrorRun(v)) = 1 BY <3>1, FS_Singleton
    <3>3. \A i \in ErrorRun(v) : v[i].message = e.message BY <1>2, <3>1
    <3> QED BY <1>10, <2>9, <3>2, <3>3 DEF ErrorsFollowed
  <2> QED BY <2>8, <2>9
<1> QED BY <1>7, <1>9, <1>10

\* The polls of one component that fail unchanged, up to the last event.
FailureRun(w) ==
  {i \in DOMAIN w : \A j \in DOMAIN w : j >= i => /\ w[j].action = "check_failing" /\ w[i].action = "check_failing"
                                                  /\ w[j].component = w[i].component}
FailuresFollowed(w, u) ==
  u[2] \in Nat /\ Cardinality(FailureRun(w)) = u[2] /\ \A i \in FailureRun(w) : w[i].component = u[1]

LEMMA FailuresGrow ==
  ASSUME NEW w, NEW e, NEW v, Longer(w, e, v), NEW u, FailuresFollowed(w, u)
  PROVE  FailuresFollowed(v, IF e.action # "check_failing" THEN <<None, 0>>
                             ELSE IF u[1] = e.component THEN <<e.component, u[2] + 1>> ELSE <<e.component, 1>>)
<1>1. PICK n, m : n = Len(w) /\ m = n + 1 OBVIOUS
<1>2. /\ n \in Nat /\ m = n + 1 /\ DOMAIN w = 1 .. n /\ DOMAIN v = 1 .. m
      /\ (\A i \in 1 .. n : v[i] = w[i]) /\ v[m] = e
  BY <1>1 DEF Longer
<1>3. \A i : i \in 1 .. m <=> (i \in 1 .. n \/ i = m) BY <1>2
<1>4. m \notin 1 .. n /\ m \in 1 .. m /\ m >= m /\ \A i \in 1 .. n : m >= i /\ ~(i >= m) BY <1>2
<1>5. FailureRun(w) \subseteq 1 .. n /\ FailureRun(v) \subseteq 1 .. m BY <1>2 DEF FailureRun
<1>6. CASE e.action # "check_failing"
  <2>1. \A i \in 1 .. m : i \notin FailureRun(v) BY <1>2, <1>3, <1>4, <1>6 DEF FailureRun
  <2>2. FailureRun(v) = {} BY <1>5, <2>1
  <2>3. Cardinality(FailureRun(v)) = 0 BY <2>2, FS_EmptySet
  <2> QED BY <1>6, <2>2, <2>3 DEF FailuresFollowed
<1>7. CASE e.action = "check_failing"
  <2>1. m \in FailureRun(v)
    <3>1. \A j \in 1 .. m : j >= m => j = m BY <1>3, <1>4
    <3> QED BY <1>2, <1>4, <1>7, <3>1 DEF FailureRun
  <2>2. ASSUME NEW i \in 1 .. n
        PROVE  i \in FailureRun(v) <=> i \in FailureRun(w) /\ w[i].component = e.component
    <3> DEFINE Same(x, j, k) == /\ x[j].action = "check_failing" /\ x[k].action = "check_failing"
                                /\ x[j].component = x[k].component
    <3>1. v[i] = w[i] /\ i \in 1 .. m /\ m >= i BY <1>2, <1>3, <1>4
    <3>2. \A j \in 1 .. n : v[j] = w[j] BY <1>2
    <3>3. i \in FailureRun(w) <=> \A j \in 1 .. n : j >= i => Same(w, j, i) BY <1>2 DEF FailureRun
    <3>4. i \in FailureRun(v) <=> \A j \in 1 .. m : j >= i => Same(v, j, i) BY <1>2, <3>1 DEF FailureRun
    <3>5. \A j \in 1 .. n : Same(v, j, i) <=> Same(w, j, i) BY <3>1, <3>2
    <3>6. Same(v, m, i) <=> w[i].action = "check_failing" /\ e.component = w[i].component BY <1>2, <1>7, <3>1
    <3>7. i \in FailureRun(w) => w[i].action = "check_failing"
      <4>1. i >= i BY <1>2
      <4> QED BY <3>3, <4>1
    <3> HIDE DEF Same
    <3> QED BY <1>3, <3>1, <3>3, <3>4, <3>5, <3>6, <3>7
  <2>3. CASE u[1] = e.component
    <3>1. \A i \in FailureRun(w) : w[i].component = e.component BY <2>3 DEF FailuresFollowed
    <3>2. FailureRun(v) = FailureRun(w) \cup {m} BY <1>3, <1>5, <2>1, <2>2, <3>1
    <3>3. Cardinality(FailureRun(v)) = u[2] + 1
      <4>1. Cardinality(FailureRun(w) \cup {n + 1}) = Cardinality(FailureRun(w)) + 1 BY <1>2, <1>5, PlacesCounted
      <4> QED BY <1>2, <3>2, <4>1 DEF FailuresFollowed
    <3>4. \A i \in FailureRun(v) : v[i].component = e.component BY <1>2, <1>5, <3>1, <3>2
    <3> QED BY <1>7, <2>3, <3>3, <3>4 DEF FailuresFollowed
  <2>4. CASE u[1] # e.component
    <3>1. \A i \in FailureRun(w) : w[i].component # e.component BY <2>4 DEF FailuresFollowed
    <3>2. FailureRun(v) = {m} BY <1>3, <1>5, <2>1, <2>2, <3>1
    <3>3. Cardinality(FailureRun(v)) = 1 BY <3>2, FS_Singleton
    <3>4. \A i \in FailureRun(v) : v[i].component = e.component BY <1>2, <3>2
    <3> QED BY <1>7, <2>4, <3>3, <3>4 DEF FailuresFollowed
  <2> QED BY <2>3, <2>4
<1> QED BY <1>6, <1>7


\* The events since the last change of component, the first of which was at the time t.
Stay(w) == {i \in DOMAIN w : \A j \in DOMAIN w : j >= i => w[j].component = w[i].component}
StayFollowed(w, t) == \E i \in Stay(w) : (\A j \in Stay(w) : i <= j) /\ w[i].at = t

LEMMA StayGrows ==
  ASSUME NEW w, NEW e, NEW v, Longer(w, e, v), NEW t, w # <<>> => StayFollowed(w, t)
  PROVE  StayFollowed(v, IF w = <<>> \/ Last(w).component # e.component THEN e.at ELSE t)
<1>1. PICK n, m : n = Len(w) /\ m = n + 1 OBVIOUS
<1>2. /\ n \in Nat /\ m = n + 1 /\ DOMAIN w = 1 .. n /\ DOMAIN v = 1 .. m
      /\ (\A i \in 1 .. n : v[i] = w[i]) /\ v[m] = e
  BY <1>1 DEF Longer
<1>3. \A i : i \in 1 .. m <=> (i \in 1 .. n \/ i = m) BY <1>2
<1>4. m \notin 1 .. n /\ m \in 1 .. m /\ m >= m /\ m <= m /\ \A i \in 1 .. n : m >= i /\ ~(i >= m) /\ i <= m BY <1>2
<1>5. Stay(w) \subseteq 1 .. n /\ Stay(v) \subseteq 1 .. m BY <1>2 DEF Stay
<1>6. m \in Stay(v)
  <2>1. \A j \in 1 .. m : j >= m => j = m BY <1>3, <1>4
  <2> QED BY <1>2, <1>4, <2>1 DEF Stay
<1>7. ASSUME NEW i \in 1 .. n PROVE i \in Stay(v) <=> i \in Stay(w) /\ w[i].component = e.component
  <2> DEFINE Same(x, j) == x[j].component = x[i].component
  <2>1. v[i] = w[i] /\ i \in 1 .. m /\ m >= i BY <1>2, <1>3, <1>4
  <2>2. i \in Stay(w) <=> \A j \in 1 .. n : j >= i => Same(w, j) BY <1>2 DEF Stay
  <2>3. i \in Stay(v) <=> \A j \in 1 .. m : j >= i => Same(v, j) BY <1>2, <2>1 DEF Stay
  <2>4. \A j \in 1 .. n : Same(v, j) <=> Same(w, j) BY <1>2, <2>1
  <2>5. Same(v, m) <=> w[i].component = e.component BY <1>2, <2>1
  <2> HIDE DEF Same
  <2> QED BY <1>3, <2>1, <2>2, <2>3, <2>4, <2>5
<1>8. CASE w # <<>> /\ Last(w).component = e.component
  <2>1. PICK i \in Stay(w) : (\A j \in Stay(w) : i <= j) /\ w[i].at = t BY <1>8 DEF StayFollowed
  <2>2. i \in 1 .. n /\ n \in 1 .. n /\ n >= i BY <1>2, <1>5, <2>1
  <2>3. w[n].component = w[i].component BY <1>2, <2>1, <2>2 DEF Stay
  <2>4. w[i].component = e.component BY <1>1, <1>8, <2>3 DEF Last
  <2>5. i \in Stay(v) /\ v[i].at = t BY <1>2, <1>7, <2>1, <2>2, <2>4
  <2>6. \A j \in Stay(v) : i <= j BY <1>3, <1>4, <1>5, <1>7, <2>1, <2>2
  <2> QED BY <1>8, <2>5, <2>6 DEF StayFollowed
<1>9. CASE w = <<>> \/ Last(w).component # e.component
  <2>1. \A i \in 1 .. n : i \notin Stay(v)
    <3> SUFFICES ASSUME NEW i \in 1 .. n, i \in Stay(v) PROVE FALSE OBVIOUS
    <3>1. i \in Stay(w) /\ w[i].component = e.component BY <1>7
    <3>2. n \in 1 .. n /\ n >= i /\ n # 0 BY <1>2
    <3>3. w[n].component = w[i].component BY <1>2, <3>1, <3>2 DEF Stay
    <3>4. Last(w).component = e.component BY <1>1, <3>1, <3>3 DEF Last
    <3>5. w # <<>>
      <4>1. Len(<<>>) = 0 OBVIOUS
      <4> QED BY <1>1, <3>2, <4>1
    <3> QED BY <1>9, <3>4, <3>5
  <2>2. Stay(v) = {m} BY <1>3, <1>5, <1>6, <2>1
  <2>3. v[m].at = e.at BY <1>2
  <2> QED BY <1>4, <1>9, <2>2, <2>3 DEF StayFollowed
<1> QED BY <1>8, <1>9

\* The silences of the learner that are over and were long, by the event before them, and
\* when the learner last acted.
Unanswered(w) ==
  {i \in Students(w) : \E j \in Students(w) : /\ j > i /\ (\A k \in Students(w) : k > i => j <= k)
                                              /\ w[j].at - w[i].at > IdleGap}
LastActs(w, l, a) == l \in Students(w) /\ (\A k \in Students(w) : k <= l) /\ w[l].at = a
Long(s) == {i \in DOMAIN s : s[i] > IdleGap}
SilencesFollowed(w, s, a) ==
  /\ s \in Seq(Int) /\ Cardinality(Unanswered(w)) = Cardinality(Long(s))
  /\ IF a = None THEN Students(w) = {} ELSE a \in Nat /\ \E l \in Students(w) : LastActs(w, l, a)

LEMMA PollsKeepSilences ==
  ASSUME NEW w, NEW e, NEW v, Longer(w, e, v), NEW s, NEW a, SilencesFollowed(w, s, a), e.action \in Heartbeat
  PROVE  SilencesFollowed(v, s, a)
<1>1. PICK n, m : n = Len(w) /\ m = n + 1 OBVIOUS
<1>2. /\ n \in Nat /\ m = n + 1 /\ DOMAIN w = 1 .. n /\ DOMAIN v = 1 .. m
      /\ (\A i \in 1 .. n : v[i] = w[i]) /\ v[m] = e
  BY <1>1 DEF Longer
<1>3. \A i : i \in 1 .. m <=> (i \in 1 .. n \/ i = m) BY <1>2
<1>4. Students(v) = Students(w) /\ Students(w) \subseteq 1 .. n BY <1>2, <1>3 DEF Students
<1>5. \A i \in Students(w) : v[i] = w[i] BY <1>2, <1>4
<1>6. Unanswered(v) = Unanswered(w) BY <1>4, <1>5 DEF Unanswered
<1>7. \A l \in Students(w) : LastActs(v, l, a) <=> LastActs(w, l, a) BY <1>4, <1>5 DEF LastActs
<1> QED BY <1>4, <1>6, <1>7 DEF SilencesFollowed

LEMMA ActsKeepSilences ==
  ASSUME NEW w, NEW e, NEW v, Longer(w, e, v), NEW s, NEW a, SilencesFollowed(w, s, a),
         e.action \notin Heartbeat, e.at \in Nat
  PROVE  SilencesFollowed(v, IF a = None THEN <<>> ELSE Append(s, e.at - a), e.at)
<1>1. PICK n, m : n = Len(w) /\ m = n + 1 OBVIOUS
<1>2. /\ n \in Nat /\ m = n + 1 /\ DOMAIN w = 1 .. n /\ DOMAIN v = 1 .. m
      /\ (\A i \in 1 .. n : v[i] = w[i]) /\ v[m] = e
  BY <1>1 DEF Longer
<1>3. \A i : i \in 1 .. m <=> (i \in 1 .. n \/ i = m) BY <1>2
<1>4. m \notin 1 .. n /\ m \in 1 .. m /\ m <= m /\ ~(m > m) /\ \A i \in 1 .. n : m > i /\ ~(i > m) /\ i <= m /\ ~(m <= i) BY <1>2
<1>5. Students(v) = Students(w) \cup {m} /\ Students(w) \subseteq 1 .. n BY <1>2, <1>3 DEF Students
<1>6. \A i \in Students(w) : v[i] = w[i] BY <1>2, <1>5
<1>7. LastActs(v, m, e.at) BY <1>2, <1>4, <1>5 DEF LastActs
<1>8. m \notin Unanswered(v) BY <1>4, <1>5 DEF Unanswered
<1>9. e.at # None BY WindowAssumption
<1>10. CASE a = None
  <2>1. Students(w) = {} BY <1>10 DEF SilencesFollowed
  <2>2. Unanswered(v) = {} BY <1>5, <1>8, <2>1 DEF Unanswered
  <2>3. PICK z : z = <<>> OBVIOUS
  <2>4. z \in Seq(Int) /\ DOMAIN z = {} BY <2>3
  <2>5. Long(z) = {} BY <2>4 DEF Long
  <2>6. SilencesFollowed(v, z, e.at) BY <1>5, <1>7, <1>9, <2>2, <2>4, <2>5 DEF SilencesFollowed
  <2> QED BY <1>10, <2>3, <2>6
<1>11. CASE a # None
  <2>1. PICK l \in Students(w) : LastActs(w, l, a) BY <1>11 DEF SilencesFollowed
  <2>2. l \in 1 .. n /\ w[l].at = a /\ a \in Nat /\ v[l] = w[l] /\ \A k \in Students(w) : k <= l /\ ~(k > l)
    <3>1. \A k \in Students(w) : k <= l /\ k \in Int /\ l \in Int BY <1>2, <1>5, <2>1 DEF LastActs
    <3> QED BY <1>5, <1>6, <1>11, <2>1, <3>1 DEF LastActs, SilencesFollowed
  <2>3. PICK d : d = e.at - a OBVIOUS
  <2>4. d \in Int BY <2>2, <2>3
  <2>5. l \notin Unanswered(w) BY <2>2 DEF Unanswered
  <2>6. l \in Unanswered(v) <=> d > IdleGap
    <3>1. \A k \in Students(v) : k > l <=> k = m BY <1>4, <1>5, <2>2
    <3>2. l \in Students(v) /\ m \in Students(v) /\ v[m].at - v[l].at = d BY <1>2, <1>5, <2>2, <2>3
    <3> QED BY <1>4, <3>1, <3>2 DEF Unanswered
  <2>7. ASSUME NEW i \in Students(w), i # l PROVE i \in Unanswered(v) <=> i \in Unanswered(w)
    <3> DEFINE Next(x, S, j) == j > i /\ (\A k \in S : k > i => j <= k) /\ x[j].at - x[i].at > IdleGap
    <3>1. l > i /\ i \in Students(v) BY <1>2, <1>5, <2>2, <2>7
    <3>2. ~Next(v, Students(v), m) BY <1>4, <1>5, <2>2, <3>1
    <3>3. \A j \in Students(w) : Next(v, Students(v), j) <=> Next(w, Students(w), j)
      <4> SUFFICES ASSUME NEW j \in Students(w) PROVE Next(v, Students(v), j) <=> Next(w, Students(w), j) OBVIOUS
      <4>1. v[j] = w[j] /\ v[i] = w[i] /\ j <= m BY <1>4, <1>5, <1>6
      <4>2. (\A k \in Students(v) : k > i => j <= k) <=> (\A k \in Students(w) : k > i => j <= k) BY <1>5, <4>1
      <4> QED BY <4>1, <4>2
    <3>4. i \in Unanswered(v) <=> \E j \in Students(v) : Next(v, Students(v), j) BY <3>1 DEF Unanswered
    <3>5. i \in Unanswered(w) <=> \E j \in Students(w) : Next(w, Students(w), j) BY DEF Unanswered
    <3> HIDE DEF Next
    <3> QED BY <1>5, <3>2, <3>3, <3>4, <3>5
  <2>8. Unanswered(w) \subseteq Students(w) /\ Unanswered(v) \subseteq Students(v) BY DEF Unanswered
  <2>9. PICK z : z = Append(s, d) OBVIOUS
  <2>10. s \in Seq(Int) /\ Cardinality(Unanswered(w)) = Cardinality(Long(s)) BY DEF SilencesFollowed
  <2>11. PICK q : q = Len(s) OBVIOUS
  <2>12. /\ z \in Seq(Int) /\ q \in Nat /\ DOMAIN s = 1 .. q /\ DOMAIN z = 1 .. (q + 1)
         /\ (\A i \in 1 .. q : z[i] = s[i]) /\ z[q + 1] = d
    BY <2>4, <2>9, <2>10, <2>11, OneMore
  <2>13. Long(s) \subseteq 1 .. q BY <2>12 DEF Long
  <2>14. Long(z) = IF d > IdleGap THEN Long(s) \cup {q + 1} ELSE Long(s)
    <3>1. \A i : i \in 1 .. (q + 1) <=> (i \in 1 .. q \/ i = q + 1) BY <2>12
    <3> QED BY <2>12, <3>1 DEF Long
  <2>15. Unanswered(v) = IF d > IdleGap THEN Unanswered(w) \cup {l} ELSE Unanswered(w) BY <1>5, <1>8, <2>1, <2>5, <2>6, <2>7, <2>8
  <2>16. Cardinality(Long(s) \cup {q + 1}) = Cardinality(Long(s)) + 1 BY <2>12, <2>13, PlacesCounted
  <2>17. Cardinality(Unanswered(w) \cup {l}) = Cardinality(Unanswered(w)) + 1
    <3>1. Unanswered(w) \subseteq 1 .. n BY <1>5, <2>8
    <3>2. IsFiniteSet(Unanswered(w)) BY <1>2, <3>1, PlacesCounted
    <3> QED BY <2>5, <3>2, FS_AddElement
  <2>18. Cardinality(Unanswered(v)) = Cardinality(Long(z)) BY <2>10, <2>14, <2>15, <2>16, <2>17
  <2>19. SilencesFollowed(v, z, e.at) BY <1>5, <1>7, <1>9, <2>12, <2>18 DEF SilencesFollowed
  <2> QED BY <1>11, <2>3, <2>9, <2>19
<1> QED BY <1>10, <1>11


\* The learner is observed to be idle as often as the window tells.
LEMMA IdleIsSilent ==
  ASSUME NEW w \in Seq(Noteworthy), SilencesFollowed(w, silences, actedAt), clock \in Nat
  PROVE  IdlePeriods(w) = LongSilences
<1>1. PICK n : n = Len(w) OBVIOUS
<1>2. n \in Nat /\ DOMAIN w = 1 .. n /\ Students(w) \subseteq 1 .. n /\ Unanswered(w) \subseteq Students(w)
  BY <1>1, LenProperties DEF Students, Unanswered
<1>3. PICK idle : idle = {i \in Students(w) : Latency(w, i) > IdleGap} OBVIOUS
<1>4. ASSUME NEW i \in Students(w), NEW j \in Students(w), j > i, \A k \in Students(w) : k > i => j <= k
      PROVE  Latency(w, i) = w[j].at - w[i].at /\ (i \in Unanswered(w) <=> w[j].at - w[i].at > IdleGap)
  <2>1. PICK later : later = {k \in Students(w) : k > i} OBVIOUS
  <2>2. j \in later /\ \A k \in later : j <= k BY <1>4, <2>1
  <2>3. \A x \in later : x \in Int BY <1>2, <2>1
  <2>4. Min(later) = j BY <2>2, <2>3 DEF Min
  <2>5. Latency(w, i) = w[j].at - w[i].at BY <2>1, <2>2, <2>4 DEF Latency
  <2>6. \A x \in Students(w) : x > i /\ (\A k \in Students(w) : k > i => x <= k) => x = j
    <3>1. \A x \in Students(w) : x \in Int BY <1>2
    <3> QED BY <1>4, <3>1
  <2>7. i \in Unanswered(w) <=> w[j].at - w[i].at > IdleGap BY <1>4, <2>6 DEF Unanswered
  <2> QED BY <2>5, <2>7
<1>5. ASSUME NEW i \in Students(w), NEW l \in Students(w), l > i
      PROVE  i \in idle <=> i \in Unanswered(w)
  <2>1. PICK later : later = {k \in Students(w) : k > i} OBVIOUS
  <2>2. later \subseteq Nat /\ later # {} BY <1>2, <1>5, <2>1
  <2>3. PICK j \in later : \A k \in later : j <= k BY <2>2, Least
  <2>4. j \in Students(w) /\ j > i /\ \A k \in Students(w) : k > i => j <= k BY <2>1, <2>3
  <2> QED BY <1>3, <1>4, <2>4
<1>6. CASE actedAt = None
  <2>1. Students(w) = {} BY <1>6 DEF SilencesFollowed
  <2>2. idle = {} /\ Unanswered(w) = {} BY <1>2, <1>3, <2>1
  <2>3. Cardinality(Unanswered(w)) = Cardinality(Long(silences)) BY DEF SilencesFollowed
  <2>4. IdlePeriods(w) = 0 /\ Cardinality(Long(silences)) = 0 BY <1>3, <2>2, <2>3, FS_EmptySet DEF IdlePeriods
  <2> QED BY <1>6, <2>4 DEF LongSilences, Long
<1>7. CASE actedAt # None
  <2>1. PICK l \in Students(w) : LastActs(w, l, actedAt) BY <1>7 DEF SilencesFollowed
  <2>2. l \in 1 .. n /\ (\A k \in Students(w) : k \in 1 .. n /\ k <= l) /\ w[l].at = actedAt /\ actedAt \in Nat
    BY <1>2, <1>7, <2>1 DEF LastActs, SilencesFollowed
  <2>4. Latency(w, l) = clock - actedAt
    <3>1. PICK later : later = {k \in Students(w) : k > l} OBVIOUS
    <3>2. \A k \in Students(w) : ~(k > l) BY <2>2
    <3>3. later = {} BY <3>1, <3>2
    <3>4. Latency(w, l) = clock - w[l].at BY <3>1, <3>3 DEF Latency
    <3> QED BY <2>2, <3>4
  <2>5. l \notin Unanswered(w)
    <3>1. \A k \in Students(w) : ~(k > l) BY <2>2
    <3> QED BY <3>1 DEF Unanswered
  <2>6. \A i \in Students(w) : i # l => l > i BY <2>2
  <2>7. \A i \in Students(w) : i # l => (i \in idle <=> i \in Unanswered(w)) BY <1>5, <2>1, <2>6
  <2>8. Cardinality(Unanswered(w)) = Cardinality(Long(silences)) /\ Cardinality(Unanswered(w)) \in Nat /\ IsFiniteSet(Unanswered(w))
    <3>1. Unanswered(w) \subseteq 1 .. n BY <1>2
    <3> QED BY <1>2, <3>1, PlacesCounted DEF SilencesFollowed
  <2>9. CASE clock - actedAt > IdleGap
    <3>1. idle = Unanswered(w) \cup {l} BY <1>2, <1>3, <2>1, <2>4, <2>7, <2>9
    <3>2. Cardinality(idle) = Cardinality(Unanswered(w)) + 1 BY <2>5, <2>8, <3>1, FS_AddElement
    <3> QED BY <1>3, <1>7, <2>8, <2>9, <3>2 DEF IdlePeriods, LongSilences, Long
  <2>10. CASE ~(clock - actedAt > IdleGap)
    <3>1. idle = Unanswered(w) BY <1>2, <1>3, <2>1, <2>4, <2>5, <2>7, <2>10
    <3>2. IdlePeriods(w) = Cardinality(Unanswered(w)) BY <1>3, <3>1 DEF IdlePeriods
    <3>3. LongSilences = Cardinality(Long(silences)) + 0 BY <2>10 DEF LongSilences, Long
    <3> QED BY <2>8, <3>2, <3>3
  <2> QED BY <2>9, <2>10
<1> QED BY <1>6, <1>7

\* The first rule comes before the others, and no other names its regime.
LEMMA FirstRuleNames ==
  ASSUME NEW w, w # <<>>, NEW flailing
  PROVE  Regime(w, flailing) = "repeating_errors" <=> CurrentErrorRun(w) >= RepeatThreshold
<1>1. PICK rules : rules = Rules(w, flailing) OBVIOUS
<1>2. /\ DOMAIN rules = 1 .. 6 /\ rules[1][2] = "repeating_errors" /\ rules[2][2] = "trial_and_error"
      /\ rules[3][2] = "stuck_on_step" /\ rules[4][2] = "trial_and_error" /\ rules[5][2] = "idle"
      /\ rules[6][2] = "stuck_on_step"
  BY <1>1 DEF Rules
<1>3. rules[1][1] <=> CurrentErrorRun(w) >= RepeatThreshold BY <1>1 DEF Rules
<1>4. PICK matching : matching = IF w = <<>> THEN {} ELSE {k \in DOMAIN rules : rules[k][1]} OBVIOUS
<1>5. Regime(w, flailing) = IF matching = {} THEN "productive" ELSE rules[Min(matching)][2]
  BY <1>1, <1>4 DEF Regime
<1>6. matching \subseteq 1 .. 6 /\ (1 \in matching <=> CurrentErrorRun(w) >= RepeatThreshold) BY <1>2, <1>3, <1>4
<1>7. CASE 1 \in matching
  <2>1. Min(matching) = 1
    <3>1. \A x \in matching : x \in Int /\ 1 <= x BY <1>6
    <3> QED BY <1>7, <3>1 DEF Min
  <2> QED BY <1>2, <1>5, <1>6, <1>7, <2>1
<1>8. CASE 1 \notin matching /\ matching # {}
  <2>1. PICK k \in matching : k = Min(matching)
    <3>1. matching \subseteq Nat BY <1>6
    <3>2. \E x \in matching : \A y \in matching : x <= y BY <1>8, <3>1, Least
    <3> QED BY <3>2 DEF Min
  <2>2. k \in 2 .. 6 BY <1>6, <1>8, <2>1
  <2>3. rules[k][2] # "repeating_errors" BY <1>2, <2>2
  <2> QED BY <1>5, <1>6, <1>8, <2>1, <2>3
<1>9. CASE matching = {} BY <1>5, <1>6, <1>9
<1> QED BY <1>7, <1>8, <1>9

\* The window is what the observer of every event has followed.
WindowInv ==
  /\ window \in Seq(Noteworthy) /\ Len(window) <= MaxEvents /\ clock \in 0 .. MaxClock
  /\ \A i \in DOMAIN window : window[i].at <= clock
  /\ ErrorsFollowed(window, streak) /\ FailuresFollowed(window, unchanged)
  /\ window # <<>> => StayFollowed(window, movedAt)
  /\ withheldAt = None => SilencesFollowed(window, silences, actedAt)

LEMMA WindowStarts == WindowInit => WindowInv
<1> SUFFICES ASSUME WindowInit PROVE WindowInv OBVIOUS
<1>1. PICK e, o : e = <<>> /\ o = <<None, 0>> OBVIOUS
<1>2. /\ window = e /\ clock = 0 /\ streak = o /\ unchanged = o /\ movedAt = 0 /\ silences = e
      /\ actedAt = None /\ withheldAt = None
  BY <1>1 DEF WindowInit
<1>3. e \in Seq(Noteworthy) /\ e \in Seq(Int) /\ DOMAIN e = {} /\ Len(e) = 0 /\ o[2] = 0 BY <1>1
<1>4. ErrorRun(e) = {} /\ FailureRun(e) = {} /\ Unanswered(e) = {} /\ Long(e) = {} /\ Students(e) = {}
  BY <1>3 DEF ErrorRun, SincePassed, AllErrors, FailureRun, Unanswered, Students, Long
<1>5. ErrorsFollowed(e, o) /\ FailuresFollowed(e, o)
  BY <1>3, <1>4, FS_EmptySet DEF ErrorsFollowed, FailuresFollowed
<1>6. SilencesFollowed(e, e, None) BY <1>3, <1>4 DEF SilencesFollowed
<1>7. MaxEvents \in Nat /\ MaxClock \in Nat BY WindowAssumption
<1> QED BY <1>1, <1>2, <1>3, <1>5, <1>6, <1>7 DEF WindowInv

\* An event more.
LEMMA FollowKeeps ==
  ASSUME WindowInv, NEW e \in Noteworthy, e.at = clock, Follow(e)
  PROVE  /\ Longer(window, e, window')
         /\ window' \in Seq(Noteworthy) /\ Len(window') <= MaxEvents /\ clock' \in 0 .. MaxClock
         /\ \A i \in DOMAIN window' : window'[i].at <= clock'
         /\ ErrorsFollowed(window', streak') /\ FailuresFollowed(window', unchanged')
         /\ window' # <<>> => StayFollowed(window', movedAt')
<1>1. PICK w, v, t : w = window /\ v = window' /\ t = clock OBVIOUS
<1>2. /\ Len(w) < MaxEvents /\ v = Append(w, e) /\ clock' = t
      /\ movedAt' = IF w = <<>> \/ Last(w).component # e.component THEN e.at ELSE movedAt
      /\ streak' = IF e.action = "check_passed" THEN <<None, 0>>
                   ELSE IF ~IsErrorKind(e.action) THEN streak
                   ELSE IF streak[1] = e.message THEN <<e.message, streak[2] + 1>> ELSE <<e.message, 1>>
      /\ unchanged' = IF e.action # "check_failing" THEN <<None, 0>>
                      ELSE IF unchanged[1] = e.component THEN <<e.component, unchanged[2] + 1>>
                      ELSE <<e.component, 1>>
  BY <1>1 DEF Follow
<1>3. /\ w \in Seq(Noteworthy) /\ Len(w) <= MaxEvents /\ t \in 0 .. MaxClock
      /\ (\A i \in DOMAIN w : w[i].at <= t)
      /\ ErrorsFollowed(w, streak) /\ FailuresFollowed(w, unchanged)
      /\ w # <<>> => StayFollowed(w, movedAt)
  BY <1>1 DEF WindowInv
<1>4. Longer(w, e, v) /\ v \in Seq(Noteworthy) BY <1>2, <1>3, WindowGrows
<1>5. ErrorsFollowed(v, streak') BY <1>2, <1>3, <1>4, ErrorsGrow
<1>6. FailuresFollowed(v, unchanged') BY <1>2, <1>3, <1>4, FailuresGrow
<1>7. StayFollowed(v, movedAt') BY <1>2, <1>3, <1>4, StayGrows
<1>8. Len(v) <= MaxEvents
  <2>1. MaxEvents \in Nat BY WindowAssumption
  <2> QED BY <1>2, <1>4, <2>1 DEF Longer
<1>9. \A i \in DOMAIN v : v[i].at <= t
  <2>1. \A i \in DOMAIN v : i \in DOMAIN w \/ i = Len(w) + 1 BY <1>4 DEF Longer
  <2>2. t <= t BY <1>3
  <2> QED BY <1>1, <1>3, <1>4, <2>1, <2>2 DEF Longer
<1> QED BY <1>1, <1>2, <1>3, <1>4, <1>5, <1>6, <1>7, <1>8, <1>9

LEMMA WindowKept == WindowInv /\ [WindowNext]_windowVars => WindowInv'
<1> SUFFICES ASSUME WindowInv, [WindowNext]_windowVars PROVE WindowInv' OBVIOUS
<1>0. /\ clock \in Nat /\ (withheldAt = None => SilencesFollowed(window, silences, actedAt))
      /\ clock # None /\ MaxClock \in Nat
  <2>1. MaxClock \in Nat BY WindowAssumption
  <2> QED BY <2>1, WindowAssumption DEF WindowInv
<1>1. ASSUME NEW action \in {"start", "error"}, NEW c \in Components, NEW d \in Details \cup {None},
             Collected(action, c, d)
      PROVE  WindowInv'
  <2>1. PICK e : e = Noted(action, c, d, None) OBVIOUS
  <2>2. e \in Noteworthy /\ e.at = clock /\ e.action \notin Heartbeat
    BY <1>0, <2>1 DEF Noted, Noteworthy, Kinds, Heartbeat
  <2>3. Follow(e) BY <1>1, <2>1 DEF Collected
  <2>4. /\ Longer(window, e, window')
        /\ window' \in Seq(Noteworthy) /\ Len(window') <= MaxEvents /\ clock' \in 0 .. MaxClock
        /\ \A i \in DOMAIN window' : window'[i].at <= clock'
        /\ ErrorsFollowed(window', streak') /\ FailuresFollowed(window', unchanged')
        /\ window' # <<>> => StayFollowed(window', movedAt')
    BY <2>2, <2>3, FollowKeeps
  <2>5. /\ silences' = (IF actedAt = None THEN <<>> ELSE Append(silences, e.at - actedAt))
        /\ actedAt' = e.at /\ withheldAt' = withheldAt
    BY <1>1, <2>2 DEF Collected
  <2>6. withheldAt' = None => SilencesFollowed(window', silences', actedAt')
    <3> SUFFICES ASSUME withheldAt = None PROVE SilencesFollowed(window', silences', actedAt') BY <2>5
    <3>1. SilencesFollowed(window, silences, actedAt) BY <1>0
    <3> QED BY <1>0, <2>2, <2>4, <2>5, <3>1, ActsKeepSilences
  <2> QED BY <2>4, <2>6 DEF WindowInv
<1>2. ASSUME NEW action \in Heartbeat, NEW c \in Components, NEW d \in Details, Polled(action, c, d)
      PROVE  WindowInv'
  <2>1. PICK x : x = IF action = "check_passed" THEN None ELSE d OBVIOUS
  <2>2. PICK e : e = Noted(action, c, c, x) OBVIOUS
  <2>3. e \in Noteworthy /\ e.at = clock /\ e.action \in Heartbeat
    BY <1>0, <2>1, <2>2 DEF Noted, Noteworthy, Kinds
  <2>4. Follow(e) BY <1>2, <2>1, <2>2 DEF Polled
  <2>5. /\ Longer(window, e, window')
        /\ window' \in Seq(Noteworthy) /\ Len(window') <= MaxEvents /\ clock' \in 0 .. MaxClock
        /\ \A i \in DOMAIN window' : window'[i].at <= clock'
        /\ ErrorsFollowed(window', streak') /\ FailuresFollowed(window', unchanged')
        /\ window' # <<>> => StayFollowed(window', movedAt')
    BY <2>3, <2>4, FollowKeeps
  <2>6. silences' = silences /\ actedAt' = actedAt /\ withheldAt' = withheldAt BY <1>2 DEF Polled
  <2>7. withheldAt' = None => SilencesFollowed(window', silences', actedAt')
    BY <1>0, <2>3, <2>5, <2>6, PollsKeepSilences
  <2> QED BY <2>5, <2>7 DEF WindowInv
<1>3. CASE RecordWithheld
  <2>1. PICK e : e = Noted("hint", None, None, None) OBVIOUS
  <2>2. e \in Noteworthy /\ e.at = clock BY <1>0, <2>1 DEF Noted, Noteworthy, Kinds
  <2>3. Follow(e) /\ withheldAt' = clock BY <1>3, <2>1 DEF RecordWithheld
  <2>4. /\ window' \in Seq(Noteworthy) /\ Len(window') <= MaxEvents /\ clock' \in 0 .. MaxClock
        /\ \A i \in DOMAIN window' : window'[i].at <= clock'
        /\ ErrorsFollowed(window', streak') /\ FailuresFollowed(window', unchanged')
        /\ window' # <<>> => StayFollowed(window', movedAt')
    BY <2>2, <2>3, FollowKeeps
  <2> QED BY <1>0, <2>3, <2>4 DEF WindowInv
<1>4. CASE Wait
  <2>1. /\ clock < MaxClock /\ clock' = clock + 1 /\ window' = window /\ streak' = streak
        /\ unchanged' = unchanged /\ movedAt' = movedAt /\ silences' = silences /\ actedAt' = actedAt
        /\ withheldAt' = withheldAt
    BY <1>4 DEF Wait
  <2>2. clock' \in 0 .. MaxClock BY <1>0, <2>1
  <2>3. \A i \in DOMAIN window : window[i].at <= clock'
    <3>1. \A i \in DOMAIN window : window[i].at \in Nat /\ window[i].at <= clock
      <4>1. \A i \in DOMAIN window : window[i] \in Noteworthy
        <5>1. DOMAIN window = 1 .. Len(window) BY LenProperties DEF WindowInv
        <5> QED BY <5>1, ElementOfSeq DEF WindowInv
      <4> QED BY <4>1 DEF WindowInv, Noteworthy
    <3> QED BY <1>0, <2>1, <3>1
  <2> QED BY <2>1, <2>2, <2>3 DEF WindowInv
<1>5. CASE UNCHANGED windowVars BY <1>5 DEF windowVars, WindowInv
<1>6. ASSUME NEW c \in Components, LearnerActs(c) PROVE WindowInv' BY <1>1, <1>6 DEF LearnerActs
<1>7. ASSUME NEW c \in Components, NEW d \in Details, ErrorLogged(c, d) PROVE WindowInv'
  BY <1>1, <1>7 DEF ErrorLogged
<1> QED BY <1>2, <1>3, <1>4, <1>5, <1>6, <1>7 DEF WindowNext

LEMMA WindowIsSound == WindowInv => WindowSound
<1> SUFFICES ASSUME WindowInv, window # <<>>
             PROVE  /\ WindowTypeOK /\ CurrentErrorRun(window) = RepeatedErrors
                    /\ CyclesFailingUnchanged(window) = unchanged[2]
                    /\ TimeOnCurrentStep(window) = clock - movedAt
                    /\ withheldAt = None => IdlePeriods(window) = LongSilences
                    /\ \A flailing \in MayFlail(window) :
                         RepeatedErrors >= RepeatThreshold <=> Regime(window, flailing) = "repeating_errors"
  BY DEF WindowSound
<1>0. /\ window \in Seq(Noteworthy) /\ Len(window) \in Nat /\ DOMAIN window = 1 .. Len(window)
      /\ \A i \in DOMAIN window : window[i] \in Noteworthy
  <2>1. window \in Seq(Noteworthy) BY DEF WindowInv
  <2>2. Len(window) \in Nat /\ DOMAIN window = 1 .. Len(window) BY <2>1, LenProperties
  <2>3. \A i \in 1 .. Len(window) : window[i] \in Noteworthy BY <2>1, ElementOfSeq
  <2> QED BY <2>1, <2>2, <2>3
<1>1. WindowTypeOK
  <2>1. \A i \in DOMAIN window : window[i].component \in Components \cup {None} BY <1>0 DEF Noteworthy
  <2> QED BY <2>1 DEF WindowTypeOK, WindowInv
<1>2. CurrentErrorRun(window) = RepeatedErrors
  <2>1. Trailing(window, SincePassed(window), SameMessage) = ErrorRun(window) BY DEF Trailing, SameMessage, ErrorRun
  <2>2. Cardinality(ErrorRun(window)) = streak[2] BY DEF WindowInv, ErrorsFollowed
  <2> QED BY <2>1, <2>2 DEF CurrentErrorRun, RunOf, RepeatedErrors
<1>3. CyclesFailingUnchanged(window) = unchanged[2]
  <2>1. Trailing(window, DOMAIN window, SameFailure) = FailureRun(window) BY DEF Trailing, SameFailure, FailureRun
  <2> QED BY <2>1 DEF CyclesFailingUnchanged, WindowInv, FailuresFollowed
<1>4. TimeOnCurrentStep(window) = clock - movedAt
  <2>1. Trailing(window, DOMAIN window, SameComponent) = Stay(window) BY DEF Trailing, SameComponent, Stay
  <2>2. PICK i \in Stay(window) : (\A j \in Stay(window) : i <= j) /\ window[i].at = movedAt
    BY DEF WindowInv, StayFollowed
  <2>3. \A j \in Stay(window) : j \in Int BY <1>0 DEF Stay
  <2>4. Min(Stay(window)) = i BY <2>2, <2>3 DEF Min
  <2> QED BY <2>1, <2>2, <2>4 DEF TimeOnCurrentStep
<1>5. ASSUME withheldAt = None PROVE IdlePeriods(window) = LongSilences
  <2>1. SilencesFollowed(window, silences, actedAt) /\ clock \in Nat BY <1>5 DEF WindowInv
  <2> QED BY <1>0, <2>1, IdleIsSilent
<1>6. \A flailing \in MayFlail(window) :
        RepeatedErrors >= RepeatThreshold <=> Regime(window, flailing) = "repeating_errors"
  BY <1>2, FirstRuleNames
<1> QED BY <1>1, <1>2, <1>3, <1>4, <1>5, <1>6

\* The features are those an observer of every event would have found, for any events,
\* thresholds and times.
THEOREM WindowAlwaysSound == WindowSpec => []WindowSound
<1>1. WindowInit => WindowInv BY WindowStarts
<1>2. WindowInv /\ [WindowNext]_windowVars => WindowInv' BY WindowKept
<1>3. WindowInv => WindowSound BY WindowIsSound
<1> QED BY <1>1, <1>2, <1>3, PTL DEF WindowSpec

-----------------------------------------------------------------------------
(* The policy that the search simulates, and what it costs *)

Sample == [ts : Nat, regime : BadStates \cup {"productive"}, dwell : Nat]
Recorded(s) == s \in Seq(Sample) /\ \A i, j \in 1 .. Len(s) : i < j => s[i].ts < s[j].ts
Stamps(s) == {s[i].ts : i \in DOMAIN s}

\* A set is finite and not larger than a finite one whose members name all of its own.
LEMMA NamedByMembers ==
  ASSUME NEW S, IsFiniteSet(S), NEW T, NEW N, \A t \in T : \E x \in S : <<x, t>> \in N,
         \A x \in S, t, u \in T : <<x, t>> \in N /\ <<x, u>> \in N => t = u
  PROVE  IsFiniteSet(T) /\ Cardinality(T) \in Nat /\ Cardinality(T) <= Cardinality(S)
<1> DEFINE U == {x \in S : \E t \in T : <<x, t>> \in N}
           f == [x \in U |-> CHOOSE t \in T : <<x, t>> \in N]
<1>1. U \subseteq S /\ IsFiniteSet(U) /\ Cardinality(U) <= Cardinality(S) BY FS_Subset
<1>2. \A x \in U : f[x] \in T /\ <<x, f[x]>> \in N OBVIOUS
<1>3. f \in Surjection(U, T)
  <2>1. f \in [U -> T] BY <1>2
  <2>2. ASSUME NEW t \in T PROVE \E x \in U : f[x] = t
    <3>1. PICK x \in S : <<x, t>> \in N OBVIOUS
    <3>2. x \in U BY <3>1
    <3>3. f[x] = t BY <1>2, <3>1, <3>2
    <3> QED BY <3>2, <3>3
  <2> HIDE DEF f
  <2> QED BY <2>1, <2>2 DEF Surjection
<1> HIDE DEF f, U
<1>4. IsFiniteSet(T) /\ Cardinality(T) <= Cardinality(U) BY <1>1, <1>3, FS_Surjection
<1>5. {Cardinality(S), Cardinality(T), Cardinality(U)} \subseteq Nat BY <1>1, <1>4, FS_CardinalityType
<1> QED BY <1>1, <1>4, <1>5

LEMMA SamplesRead ==
  ASSUME NEW s \in Seq(Sample)
  PROVE  /\ Len(s) \in Nat /\ DOMAIN s = 1 .. Len(s)
         /\ \A i \in 1 .. Len(s) : s[i] \in Sample /\ s[i].ts \in Nat /\ s[i].dwell \in Nat
         /\ Stamps(s) \subseteq Nat /\ IsFiniteSet(Stamps(s))
<1>1. Len(s) \in Nat /\ DOMAIN s = 1 .. Len(s) /\ \A i \in 1 .. Len(s) : s[i] \in Sample
  BY LenProperties, ElementOfSeq
<1>2. \A i \in 1 .. Len(s) : s[i].ts \in Nat /\ s[i].dwell \in Nat BY <1>1 DEF Sample
<1>3. IsFiniteSet(Stamps(s))
  <2> DEFINE N == {<<i, s[i].ts>> : i \in 1 .. Len(s)}
  <2>1. IsFiniteSet(1 .. Len(s)) BY <1>1, FS_Interval
  <2>2. \A t \in Stamps(s) : \E i \in 1 .. Len(s) : <<i, t>> \in N BY <1>1 DEF Stamps
  <2>3. \A i \in 1 .. Len(s), t, u \in Stamps(s) : <<i, t>> \in N /\ <<i, u>> \in N => t = u OBVIOUS
  <2> HIDE DEF N
  <2> QED BY <2>1, <2>2, <2>3, NamedByMembers
<1>4. Stamps(s) \subseteq Nat BY <1>1, <1>2 DEF Stamps
<1> QED BY <1>1, <1>2, <1>3, <1>4

\* A spell goes from its first sample up to, and without, the one that ends it, and is
\* bad all the way.
LEMMA SpellsAreBad ==
  ASSUME NEW s, Recorded(s), NEW i \in Begins(s)
  PROVE  /\ i \in 1 .. (Len(s) - 1) /\ EndOf(s, i) \in (i + 1) .. Len(s)
         /\ \A k \in i .. (EndOf(s, i) - 1) : IsBadState(s[k])
<1>1. Len(s) \in Nat BY SamplesRead DEF Recorded
<1>2. i \in 1 .. (Len(s) - 1) /\ IsBadState(s[i]) BY DEF Begins
<1>3. PICK n : n = Len(s) OBVIOUS
<1>4. PICK E : E = {j \in (i + 1) .. n : j = n \/ ~IsBadState(s[j])} OBVIOUS
<1>5. E \subseteq Nat /\ n \in E BY <1>1, <1>2, <1>3, <1>4
<1>6. EndOf(s, i) = Min(E) BY <1>3, <1>4 DEF EndOf
<1>7. PICK e \in E : e = Min(E) /\ \A j \in E : e <= j
  <2>1. \E e \in E : \A j \in E : e <= j BY <1>5, Least
  <2> QED BY <2>1 DEF Min
<1>8. ASSUME NEW k \in i .. (e - 1) PROVE IsBadState(s[k])
  <2>1. CASE k = i BY <1>2, <2>1
  <2>2. CASE k # i
    <3>1. k \in (i + 1) .. n /\ ~(e <= k) BY <1>1, <1>2, <1>3, <1>4, <1>7, <2>2
    <3> QED BY <1>4, <1>7, <3>1
  <2> QED BY <2>1, <2>2
<1> QED BY <1>2, <1>3, <1>4, <1>6, <1>7, <1>8

\* Two spells have no sample in common.
LEMMA OneSpell ==
  ASSUME NEW s, Recorded(s), NEW i \in Begins(s), NEW j \in Begins(s),
         NEW k, k \in i .. (EndOf(s, i) - 1), k \in j .. (EndOf(s, j) - 1)
  PROVE  i = j
<1>1. PICK d, e : d = EndOf(s, i) /\ e = EndOf(s, j) OBVIOUS
<1>2. i \in 1 .. (Len(s) - 1) /\ d \in (i + 1) .. Len(s) /\ \A l \in i .. (d - 1) : IsBadState(s[l])
  BY <1>1, SpellsAreBad
<1>3. j \in 1 .. (Len(s) - 1) /\ e \in (j + 1) .. Len(s) /\ \A l \in j .. (e - 1) : IsBadState(s[l])
  BY <1>1, SpellsAreBad
<1>4. Len(s) \in Nat BY SamplesRead DEF Recorded
<1>5. (i > 1 => ~IsBadState(s[i - 1])) /\ (j > 1 => ~IsBadState(s[j - 1])) BY DEF Begins
<1>6. i \in Int /\ j \in Int /\ d \in Int /\ e \in Int BY <1>2, <1>3, <1>4
<1>7. CASE i < j
  <2>1. j > 1 /\ j - 1 \in i .. (d - 1) BY <1>1, <1>2, <1>3, <1>6, <1>7
  <2> QED BY <1>2, <1>5, <2>1
<1>8. CASE j < i
  <2>1. i > 1 /\ i - 1 \in j .. (e - 1) BY <1>1, <1>2, <1>3, <1>6, <1>8
  <2> QED BY <1>3, <1>5, <2>1
<1> QED BY <1>6, <1>7, <1>8

\* An intervention at the time of a sample is in a spell when the sample is, and outside
\* of all when its sample is good.
LEMMA WhereItFell ==
  ASSUME NEW s, Recorded(s), NEW k \in 1 .. Len(s)
  PROVE  /\ \A i \in Begins(s) : SpellAt(s, i).from <= s[k].ts /\ s[k].ts < SpellAt(s, i).to
              => k \in i .. (EndOf(s, i) - 1)
         /\ \A times : s[k].ts \in OutsideBad(s, times) => ~IsBadState(s[k])
<1>1. Len(s) \in Nat /\ DOMAIN s = 1 .. Len(s) /\ \A i \in 1 .. Len(s) : s[i].ts \in Nat
  BY SamplesRead DEF Recorded
<1>2. \A i, j \in 1 .. Len(s) : i < j => s[i].ts < s[j].ts BY DEF Recorded
<1>3. ASSUME NEW i \in Begins(s), SpellAt(s, i).from <= s[k].ts, s[k].ts < SpellAt(s, i).to
      PROVE  k \in i .. (EndOf(s, i) - 1)
  <2>1. PICK e : e = EndOf(s, i) OBVIOUS
  <2>2. i \in 1 .. (Len(s) - 1) /\ e \in (i + 1) .. Len(s) BY <2>1, SpellsAreBad
  <2>3. s[i].ts <= s[k].ts /\ s[k].ts < s[e].ts BY <1>3, <2>1 DEF SpellAt
  <2>4. i \in 1 .. Len(s) /\ e \in 1 .. Len(s) BY <1>1, <2>2
  <2>5. ~(k < i) BY <1>1, <1>2, <2>3, <2>4
  <2>6. ~(e < k) /\ e # k BY <1>1, <1>2, <2>3, <2>4
  <2> QED BY <1>1, <2>1, <2>2, <2>5, <2>6
<1>4. ASSUME NEW times, s[k].ts \in OutsideBad(s, times) PROVE ~IsBadState(s[k])
  <2>1. PICK S : S = StateAt(s, s[k].ts) OBVIOUS
  <2>2. ~IsBadState(s[Max(S)]) BY <1>4, <2>1 DEF OutsideBad
  <2>3. S = {i \in 1 .. Len(s) : s[i].ts <= s[k].ts} BY <1>1, <2>1 DEF StateAt
  <2>4. k \in S /\ S \subseteq 1 .. Len(s) BY <1>1, <2>3
  <2>5. \A i \in S : k >= i
    <3> SUFFICES ASSUME NEW i \in S, k < i PROVE FALSE BY <1>1, <2>4
    <3>1. s[k].ts < s[i].ts BY <1>2, <2>4
    <3> QED BY <1>1, <2>3, <2>4, <3>1
  <2>6. Max(S) = k BY <1>1, <2>4, <2>5 DEF Max
  <2> QED BY <2>2, <2>6
<1> QED BY <1>3, <1>4

\* No intervention is counted twice: what fell outside the spells is apart from what fell
\* into one that was over early, and no two such spells share one.
LEMMA FalseOnce ==
  ASSUME NEW s, Recorded(s), NEW times, times \subseteq Stamps(s)
  PROVE  /\ IsFiniteSet(times) /\ Cardinality(times) \in Nat
         /\ CountFalse(s, times) \in Nat /\ CountFalse(s, times) <= Cardinality(times)
<1>1. Len(s) \in Nat /\ DOMAIN s = 1 .. Len(s) /\ Stamps(s) \subseteq Nat /\ IsFiniteSet(Stamps(s))
  BY SamplesRead DEF Recorded
<1>2. IsFiniteSet(times) /\ Cardinality(times) \in Nat BY <1>1, FS_Subset, FS_CardinalityType
<1>3. PICK early, out : early = PrematureSpells(s, times) /\ out = OutsideBad(s, times) OBVIOUS
<1>4. out \subseteq times BY <1>3 DEF OutsideBad
<1>5. ASSUME NEW e \in early
      PROVE  \E i \in Begins(s) : e = SpellAt(s, i) /\ \E t \in times : e.from <= t /\ t < e.to
  <2>1. e \in Spells(s) /\ Helped(e, times) BY <1>3, <1>5 DEF PrematureSpells, Premature
  <2> QED BY <2>1 DEF Spells, Helped
<1>6. ASSUME NEW t \in times, NEW e \in early, e.from <= t, t < e.to
      PROVE  t \notin out /\ \A d \in early : d.from <= t /\ t < d.to => d = e
  <2>1. PICK k \in 1 .. Len(s) : t = s[k].ts BY <1>1 DEF Stamps
  <2>2. PICK i \in Begins(s) : e = SpellAt(s, i) BY <1>5
  <2>3. k \in i .. (EndOf(s, i) - 1) BY <1>6, <2>1, <2>2, WhereItFell
  <2>4. IsBadState(s[k]) BY <2>3, SpellsAreBad
  <2>5. t \notin out BY <1>3, <2>1, <2>4, WhereItFell
  <2>6. ASSUME NEW d \in early, d.from <= t, t < d.to PROVE d = e
    <3>1. PICK j \in Begins(s) : d = SpellAt(s, j) BY <1>5
    <3>2. k \in j .. (EndOf(s, j) - 1) BY <2>1, <2>6, <3>1, WhereItFell
    <3>3. i = j BY <2>3, <3>2, OneSpell
    <3> QED BY <2>2, <3>1, <3>3
  <2> QED BY <2>5, <2>6
<1> DEFINE N == {p \in times \X early : p[2].from <= p[1] /\ p[1] < p[2].to}
           rest == times \ out
<1>7. \A e \in early : \E t \in rest : <<t, e>> \in N BY <1>5, <1>6
<1>8. \A t \in rest, d, e \in early : <<t, d>> \in N /\ <<t, e>> \in N => d = e BY <1>6
<1>9. rest \subseteq times /\ out \cap rest = {} /\ out \cup rest = times BY <1>4
<1> HIDE DEF N, rest
<1>10. IsFiniteSet(rest) /\ IsFiniteSet(out) BY <1>2, <1>4, <1>9, FS_Subset
<1>11. Cardinality(early) \in Nat /\ Cardinality(early) <= Cardinality(rest) BY <1>7, <1>8, <1>10, NamedByMembers
<1>12. /\ Cardinality(rest) \in Nat /\ Cardinality(out) \in Nat /\ Cardinality(out \cap rest) = 0
       /\ Cardinality(times) = Cardinality(out) + Cardinality(rest) - Cardinality(out \cap rest)
  BY <1>9, <1>10, FS_CardinalityType, FS_EmptySet, FS_Union
<1>13. CountFalse(s, times) \in 0 .. (Cardinality(out) + Cardinality(early)) BY <1>3, <1>11, <1>12 DEF CountFalse
<1> QED BY <1>2, <1>11, <1>12, <1>13

\* The time in bad states adds up sample by sample.
LEMMA BadTimeAdds ==
  ASSUME NEW s, Len(s) \in Nat, \A i \in 1 .. Len(s) : BadTime(s, i) \in Nat
  PROVE  \E sum \in [0 .. Len(s) -> Nat] :
           /\ sum[0] = 0 /\ \A i \in 1 .. Len(s) : sum[i] = sum[i - 1] + BadTime(s, i)
           /\ BadDuration(s) = sum[Len(s)]
<1> DEFINE N == Len(s)
           R == {p \in (1 .. N) \X Nat \X Nat : p[3] = p[2] + BadTime(s, p[1])}
           rec(f) == [n \in 0 .. N |-> IF n = 0 THEN 0 ELSE f[n - 1] + BadTime(s, n)]
           sum == CHOOSE f : f = rec(f)
<1>1. \A n \in 1 .. N, x, y \in Nat : <<n, x, y>> \in R <=> y = x + BadTime(s, n) OBVIOUS
<1> HIDE DEF R
<1>2. PICK f \in [0 .. N -> Nat] : f[0] = 0 /\ \A n \in 1 .. N : <<n, f[n - 1], f[n]>> \in R
  <2>1. PICK M, T : M = N /\ T = Nat OBVIOUS
  <2>2. \A n \in 1 .. N, x \in Nat : x + BadTime(s, n) \in Nat OBVIOUS
  <2>3. GoesOn(R, T, M) BY <1>1, <2>1, <2>2 DEF GoesOn
  <2>4. CarriedOn(R, T, 0, M) BY <2>1, <2>3, Iterates
  <2> QED BY <2>1, <2>4 DEF CarriedOn
<1>3. \A n \in 1 .. N : f[n] = f[n - 1] + BadTime(s, n)
  <2>1. \A n \in 1 .. N : n - 1 \in 0 .. N /\ n \in 0 .. N OBVIOUS
  <2>2. \A n \in 1 .. N : f[n - 1] \in Nat /\ f[n] \in Nat BY <2>1
  <2> HIDE DEF N
  <2> QED BY <1>1, <1>2, <2>2
<1>4. f = rec(f)
  <2>1. \A n \in 0 .. N : f[n] = rec(f)[n]
    <3> SUFFICES ASSUME NEW n \in 0 .. N PROVE f[n] = rec(f)[n] OBVIOUS
    <3>1. CASE n = 0 BY <1>2, <3>1
    <3>2. CASE n # 0
      <4>1. n \in 1 .. N BY <3>2
      <4> QED BY <1>3, <3>2, <4>1
    <3> QED BY <3>1, <3>2
  <2> QED BY <2>1
<1>5. sum = rec(sum)
  <2> HIDE DEF rec
  <2> QED BY <1>4
<1>6. BadDuration(s) = sum[N] BY DEF BadDuration
<1> HIDE DEF sum
<1>7. sum[0] = 0 /\ \A n \in 1 .. N : sum[n] = sum[n - 1] + BadTime(s, n)
  <2>1. 0 \in 0 .. N /\ \A n \in 1 .. N : n \in 0 .. N /\ n # 0 OBVIOUS
  <2> QED BY <1>5, <2>1
<1>8. 0 .. N \subseteq {n \in 0 .. N : sum[n] \in Nat}
  <2>1. PICK P : P = {n \in 0 .. N : sum[n] \in Nat} OBVIOUS
  <2>2. 0 \in P BY <1>7, <2>1
  <2>3. \A n \in 1 .. N : n - 1 \in P => n \in P BY <1>7, <2>1
  <2> HIDE DEF N
  <2>4. N \in Nat BY DEF N
  <2> QED BY <2>1, <2>2, <2>3, <2>4, StepByStep
<1>9. sum \in [0 .. N -> Nat] 
  <2>1. sum = [n \in 0 .. N |-> sum[n]] BY <1>5
  <2> QED BY <1>8, <2>1
<1> QED BY <1>6, <1>7, <1>9

\* Less time in each bad state is less time in all of them.
LEMMA BadTimeCompared ==
  ASSUME NEW s, NEW t, Len(s) \in Nat, Len(t) = Len(s),
         \A i \in 1 .. Len(s) : BadTime(s, i) \in Nat /\ BadTime(t, i) \in Nat /\ BadTime(t, i) <= BadTime(s, i)
  PROVE  BadDuration(s) \in Nat /\ BadDuration(t) \in Nat /\ BadDuration(t) <= BadDuration(s)
<1>1. PICK N : N = Len(s) OBVIOUS
<1>2. PICK f \in [0 .. N -> Nat] :
        /\ f[0] = 0 /\ \A i \in 1 .. N : f[i] = f[i - 1] + BadTime(s, i)
        /\ BadDuration(s) = f[N]
  BY <1>1, BadTimeAdds
<1>3. PICK g \in [0 .. N -> Nat] :
        /\ g[0] = 0 /\ \A i \in 1 .. N : g[i] = g[i - 1] + BadTime(t, i)
        /\ BadDuration(t) = g[N]
  BY <1>1, BadTimeAdds
<1>4. PICK P : P = {n \in 0 .. N : g[n] <= f[n]} OBVIOUS
<1>5. 0 \in P BY <1>1, <1>2, <1>3, <1>4
<1>6. ASSUME NEW n \in 1 .. N, n - 1 \in P PROVE n \in P
  <2>1. n \in 0 .. N /\ n - 1 \in 0 .. N BY <1>1
  <2>2. PICK a, b, c, d : a = f[n - 1] /\ b = g[n - 1] /\ c = BadTime(s, n) /\ d = BadTime(t, n) OBVIOUS
  <2>3. a \in Nat /\ b \in Nat BY <1>2, <1>3, <2>1, <2>2
  <2>4. b <= a BY <1>4, <1>6, <2>2
  <2>5. c \in Nat /\ d \in Nat /\ d <= c BY <1>1, <2>2
  <2>6. f[n] = a + c /\ g[n] = b + d BY <1>2, <1>3, <2>2
  <2> QED BY <1>4, <2>1, <2>3, <2>4, <2>5, <2>6
<1>7. 0 .. N \subseteq P BY <1>1, <1>5, <1>6, StepByStep
<1>8. N \in 0 .. N BY <1>1
<1> QED BY <1>2, <1>3, <1>4, <1>7, <1>8

\* An intervention shortens the struggle in no way but for the better.
LEMMA TruncationPays ==
  ASSUME NEW s, Recorded(s), NEW times
  PROVE  /\ BadDuration(s) \in Nat /\ BadDuration(Truncate(s, times)) \in Nat
         /\ BadDuration(Truncate(s, times)) <= BadDuration(s)
<1>1. /\ Len(s) \in Nat /\ DOMAIN s = 1 .. Len(s)
      /\ \A i \in 1 .. Len(s) : s[i] \in Sample /\ s[i].ts \in Nat
  BY SamplesRead DEF Recorded
<1>2. \A i, j \in 1 .. Len(s) : i < j => s[i].ts < s[j].ts BY DEF Recorded
<1>3. PICK t : t = Truncate(s, times) OBVIOUS
<1>4. t \in Seq(Sample) /\ Len(t) = Len(s)
      /\ \A i \in 1 .. Len(s) : t[i].ts = s[i].ts /\ (IsBadState(t[i]) => IsBadState(s[i]))
  <2>1. \A i \in 1 .. Len(s) : [s[i] EXCEPT !.regime = "productive", !.dwell = 0] \in Sample BY <1>1 DEF Sample
  <2>2. t = [i \in 1 .. Len(s) |->
               IF IsBadState(s[i]) /\ \E x \in times : x <= s[i].ts
               THEN [s[i] EXCEPT !.regime = "productive", !.dwell = 0] ELSE s[i]]
    BY <1>1, <1>3 DEF Truncate
  <2>3. \A i \in 1 .. Len(s) : t[i] = s[i] \/ (t[i] = [s[i] EXCEPT !.regime = "productive", !.dwell = 0] /\ IsBadState(s[i]))
    BY <2>2
  <2>4. \A i \in 1 .. Len(s) : t[i].ts = s[i].ts /\ (IsBadState(t[i]) => IsBadState(s[i]))
    <3> SUFFICES ASSUME NEW i \in 1 .. Len(s) PROVE t[i].ts = s[i].ts /\ (IsBadState(t[i]) => IsBadState(s[i])) OBVIOUS
    <3>1. PICK a, b : a = s[i] /\ b = t[i] OBVIOUS
    <3>2. a \in [ts : Nat, regime : BadStates \cup {"productive"}, dwell : Nat] BY <1>1, <3>1 DEF Sample
    <3>3. b = a \/ (b = [a EXCEPT !.regime = "productive", !.dwell = 0] /\ IsBadState(a)) BY <2>3, <3>1
    <3>4. b.ts = a.ts /\ (IsBadState(b) => IsBadState(a)) BY <3>2, <3>3
    <3> QED BY <3>1, <3>4
  <2>5. \A i \in 1 .. Len(s) : t[i] \in Sample BY <1>1, <2>1, <2>3
  <2>6. DOMAIN t = 1 .. Len(s) BY <2>2
  <2>7. t \in Seq(Sample) /\ Len(t) = Len(s)
    <3>1. t \in [1 .. Len(s) -> Sample] BY <2>2, <2>5, <2>6
    <3>2. t \in Seq(Sample) BY <1>1, <3>1
    <3>3. DOMAIN t = 1 .. Len(t) /\ Len(t) \in Nat BY <3>2, LenProperties
    <3> QED BY <1>1, <2>6, <3>2, <3>3
  <2> QED BY <2>4, <2>7
<1>5. ASSUME NEW i \in 1 .. Len(s)
      PROVE  BadTime(s, i) \in Nat /\ BadTime(t, i) \in Nat /\ BadTime(t, i) <= BadTime(s, i)
  <2>1. CASE i < Len(s)
    <3>1. i + 1 \in 1 .. Len(s) /\ i < i + 1 BY <1>1, <2>1
    <3>2. PICK a, b : a = s[i].ts /\ b = s[i + 1].ts OBVIOUS
    <3>3. a \in Nat /\ b \in Nat /\ a < b BY <1>1, <1>2, <3>1, <3>2
    <3>4. BadTime(s, i) = IF IsBadState(s[i]) THEN b - a ELSE 0 BY <2>1, <3>2 DEF BadTime
    <3>5. BadTime(t, i) = IF IsBadState(t[i]) THEN b - a ELSE 0 BY <1>4, <2>1, <3>1, <3>2 DEF BadTime
    <3>6. IsBadState(t[i]) => IsBadState(s[i]) BY <1>4
    <3> QED BY <3>3, <3>4, <3>5, <3>6
  <2>2. CASE ~(i < Len(s))
    <3>1. BadTime(s, i) = 0 /\ BadTime(t, i) = 0 BY <1>4, <2>2 DEF BadTime
    <3> QED BY <3>1
  <2> QED BY <2>1, <2>2
<1> QED BY <1>1, <1>3, <1>4, <1>5, BadTimeCompared

\* The simulation goes through the samples one by one.
LEMMA FiresOneByOne ==
  ASSUME NEW s \in Seq(Sample), NEW T
  PROVE  \E fired \in [0 .. Len(s) -> Seq(Nat)] :
           /\ fired[0] = <<>> /\ \A n \in 1 .. Len(s) : fired[n] = Fire(T, s[n], fired[n - 1])
           /\ SimulateInterventions(s, T) = fired[Len(s)]
<1> DEFINE N == Len(s)
           R == {p \in (1 .. N) \X Seq(Nat) \X Seq(Nat) : p[3] = Fire(T, s[p[1]], p[2])}
           rec(f) == [n \in 0 .. N |-> IF n = 0 THEN <<>> ELSE Fire(T, s[n], f[n - 1])]
           fired == CHOOSE f : f = rec(f)
<1>1. N \in Nat /\ \A n \in 1 .. N : s[n].ts \in Nat BY SamplesRead
<1>2. \A n \in 1 .. N, q, r \in Seq(Nat) : <<n, q, r>> \in R <=> r = Fire(T, s[n], q) OBVIOUS
<1>3. \A n \in 1 .. N, q \in Seq(Nat) : Fire(T, s[n], q) \in Seq(Nat)
  <2>1. \A n \in 1 .. N, q \in Seq(Nat) : Append(q, s[n].ts) \in Seq(Nat) BY <1>1, AppendProperties
  <2> QED BY <2>1 DEF Fire
<1> HIDE DEF R
<1>4. PICK f \in [0 .. N -> Seq(Nat)] : f[0] = <<>> /\ \A n \in 1 .. N : <<n, f[n - 1], f[n]>> \in R
  <2>1. PICK M, S : M = N /\ S = Seq(Nat) OBVIOUS
  <2>2. M \in Nat /\ <<>> \in S BY <1>1, <2>1, EmptySeq
  <2>3. GoesOn(R, S, M) BY <1>2, <1>3, <2>1 DEF GoesOn
  <2>4. CarriedOn(R, S, <<>>, M) BY <2>2, <2>3, Iterates
  <2> QED BY <2>1, <2>4 DEF CarriedOn
<1>5. \A n \in 1 .. N : f[n] = Fire(T, s[n], f[n - 1])
  <2>1. \A n \in 1 .. N : n - 1 \in 0 .. N /\ n \in 0 .. N BY <1>1
  <2>2. \A n \in 1 .. N : f[n - 1] \in Seq(Nat) /\ f[n] \in Seq(Nat) BY <1>4, <2>1
  <2> HIDE DEF N
  <2> QED BY <1>2, <1>4, <2>2
<1>6. f = rec(f)
  <2>1. \A n \in 0 .. N : f[n] = rec(f)[n]
    <3> SUFFICES ASSUME NEW n \in 0 .. N PROVE f[n] = rec(f)[n] OBVIOUS
    <3>1. CASE n = 0 BY <1>4, <3>1
    <3>2. CASE n # 0
      <4>1. n \in 1 .. N BY <1>1, <3>2
      <4> QED BY <1>5, <3>2, <4>1
    <3> QED BY <3>1, <3>2
  <2> QED BY <1>4, <2>1
<1>7. fired = rec(fired)
  <2> HIDE DEF rec
  <2> QED BY <1>6
<1>8. SimulateInterventions(s, T) = fired[N] BY DEF SimulateInterventions
<1> HIDE DEF fired
<1>9. fired[0] = <<>> /\ \A n \in 1 .. N : fired[n] = Fire(T, s[n], fired[n - 1])
  <2>1. 0 \in 0 .. N /\ \A n \in 1 .. N : n \in 0 .. N /\ n # 0 BY <1>1
  <2> QED BY <1>7, <2>1
<1>10. 0 .. N \subseteq {n \in 0 .. N : fired[n] \in Seq(Nat)}
  <2>1. PICK P : P = {n \in 0 .. N : fired[n] \in Seq(Nat)} OBVIOUS
  <2>2. 0 \in P
    <3>1. 0 \in 0 .. N /\ <<>> \in Seq(Nat) BY <1>1, EmptySeq
    <3> QED BY <1>9, <2>1, <3>1
  <2>3. \A n \in 1 .. N : n - 1 \in P => n \in P
    <3>1. \A n \in 1 .. N : n \in 0 .. N BY <1>1
    <3> QED BY <1>3, <1>9, <2>1, <3>1
  <2> HIDE DEF N
  <2> QED BY <1>1, <2>1, <2>2, <2>3, StepByStep
<1>11. fired \in [0 .. N -> Seq(Nat)]
  <2>1. fired = [n \in 0 .. N |-> fired[n]] BY <1>7
  <2> QED BY <1>10, <2>1
<1> QED BY <1>8, <1>9, <1>11

\* It fires at samples.
LEMMA FiresAtSamples ==
  ASSUME NEW s \in Seq(Sample), NEW T
  PROVE  /\ SimulateInterventions(s, T) \in Seq(Nat)
         /\ Range(SimulateInterventions(s, T)) \subseteq Stamps(s)
<1>1. PICK N : N = Len(s) OBVIOUS
<1>2. N \in Nat /\ DOMAIN s = 1 .. N /\ \A n \in 1 .. N : s[n].ts \in Nat BY <1>1, SamplesRead
<1>3. PICK fired \in [0 .. N -> Seq(Nat)] :
        /\ fired[0] = <<>> /\ \A n \in 1 .. N : fired[n] = Fire(T, s[n], fired[n - 1])
        /\ SimulateInterventions(s, T) = fired[N]
  BY <1>1, FiresOneByOne
<1>4. PICK P : P = {n \in 0 .. N : Range(fired[n]) \subseteq Stamps(s)} OBVIOUS
<1>5. 0 \in P
  <2>1. Range(<<>>) = {} BY EmptySeq DEF Range
  <2> QED BY <1>2, <1>3, <1>4, <2>1
<1>6. ASSUME NEW n \in 1 .. N, n - 1 \in P PROVE n \in P
  <2>1. PICK q, t : q = fired[n - 1] /\ t = s[n].ts OBVIOUS
  <2>2. n \in 0 .. N /\ n - 1 \in 0 .. N BY <1>2
  <2>3. q \in Seq(Nat) /\ t \in Nat /\ t \in Stamps(s) BY <1>2, <1>3, <2>1, <2>2 DEF Stamps
  <2>4. Range(q) \subseteq Stamps(s) BY <1>4, <1>6, <2>1
  <2>5. Range(Append(q, t)) = Range(q) \cup {t} BY <2>3, OneMore
  <2>6. fired[n] = q \/ fired[n] = Append(q, t) BY <1>3, <2>1 DEF Fire
  <2> QED BY <1>4, <2>2, <2>3, <2>4, <2>5, <2>6
<1>7. 0 .. N \subseteq P BY <1>2, <1>5, <1>6, StepByStep
<1>8. N \in 0 .. N BY <1>2
<1>9. fired[N] \in Seq(Nat) /\ Range(fired[N]) \subseteq Stamps(s) BY <1>3, <1>4, <1>7, <1>8
<1> QED BY <1>3, <1>9

\* One sample more is one step more.
LEMMA OneSampleMore ==
  ASSUME NEW s \in Seq(Sample), NEW e \in Sample, NEW T
  PROVE  SimulateInterventions(Append(s, e), T) = Fire(T, e, SimulateInterventions(s, T))
<1>1. PICK N, t : N = Len(s) /\ t = Append(s, e) OBVIOUS
<1>2. N \in Nat /\ t \in Seq(Sample) /\ Len(t) = N + 1 /\ t[N + 1] = e /\ \A n \in 1 .. N : t[n] = s[n]
  BY <1>1, OneMore
<1>3. PICK f \in [0 .. N -> Seq(Nat)] :
        /\ f[0] = <<>> /\ \A n \in 1 .. N : f[n] = Fire(T, s[n], f[n - 1])
        /\ SimulateInterventions(s, T) = f[N]
  BY <1>1, FiresOneByOne
<1>4. PICK g \in [0 .. (N + 1) -> Seq(Nat)] :
        /\ g[0] = <<>> /\ \A n \in 1 .. (N + 1) : g[n] = Fire(T, t[n], g[n - 1])
        /\ SimulateInterventions(t, T) = g[N + 1]
  BY <1>2, FiresOneByOne
<1>5. PICK P : P = {n \in 0 .. N : g[n] = f[n]} OBVIOUS
<1>6. 0 \in P BY <1>2, <1>3, <1>4, <1>5
<1>7. ASSUME NEW n \in 1 .. N, n - 1 \in P PROVE n \in P
  <2>1. n \in 1 .. (N + 1) /\ n \in 0 .. N /\ g[n - 1] = f[n - 1] BY <1>2, <1>5, <1>7
  <2>2. g[n] = Fire(T, s[n], f[n - 1]) BY <1>2, <1>4, <2>1
  <2> QED BY <1>3, <1>5, <2>1, <2>2
<1>8. 0 .. N \subseteq P BY <1>2, <1>6, <1>7, StepByStep
<1>9. g[N] = f[N] BY <1>2, <1>5, <1>8
<1>10. N + 1 \in 1 .. (N + 1) /\ (N + 1) - 1 = N BY <1>2
<1>11. g[N + 1] = Fire(T, t[N + 1], g[N]) BY <1>4, <1>10
<1> QED BY <1>1, <1>2, <1>3, <1>4, <1>9, <1>11

\* Every cost is a number, and help never makes it less but by what it shortens.
LEMMA CostCounts ==
  ASSUME NEW s, Recorded(s), NEW times, times \subseteq Stamps(s), NEW after, BadDuration(after) \in Nat
  PROVE  Cost(s, times, after) \in Nat /\ CostStuck * BadDuration(after) <= Cost(s, times, after)
<1>1. PICK a, b, c : a = BadDuration(after) /\ b = Cardinality(times) /\ c = CountFalse(s, times) OBVIOUS
<1>2. a \in Nat /\ b \in Nat /\ c \in Nat BY <1>1, FalseOnce
<1>3. CostStuck \in Nat /\ CostIntervention \in Nat /\ CostFalse \in Nat BY SearchAssumption
<1>4. \A m, n \in Nat : m * n \in Nat OBVIOUS
<1>5. PICK x, y, z : x = CostStuck * a /\ y = CostIntervention * b /\ z = CostFalse * c OBVIOUS
<1>6. x \in Nat /\ y \in Nat /\ z \in Nat BY <1>2, <1>3, <1>4, <1>5
<1>7. Cost(s, times, after) = x + y + z BY <1>1, <1>5 DEF Cost
<1>8. x <= x + y + z /\ x + y + z \in Nat BY <1>6
<1> QED BY <1>1, <1>5, <1>7, <1>8

LEMMA TotalCounts ==
  ASSUME NEW s, Recorded(s), NEW T PROVE TotalJ(s, T) \in Nat
<1>1. s \in Seq(Sample) BY DEF Recorded
<1>2. PICK times : times = Range(SimulateInterventions(s, T)) OBVIOUS
<1>3. times \subseteq Stamps(s) BY <1>1, <1>2, FiresAtSamples
<1>4. BadDuration(Truncate(s, times)) \in Nat BY TruncationPays
<1>5. Cost(s, times, Truncate(s, times)) \in Nat BY <1>3, <1>4, CostCounts
<1> QED BY <1>2, <1>5 DEF TotalJ

\* A regime is given the first of the candidates that are cheapest for it.
LEMMA BestIsBest ==
  ASSUME NEW s, Recorded(s), NEW T, NEW r
  PROVE  /\ BestCandidate(s, T, r) \in Range(Candidates)
         /\ \A t \in Range(Candidates) : TotalJ(s, LockIn(s, T, r)) <= TotalJ(s, [T EXCEPT ![r] = t])
<1>1. PICK N : N = Len(Candidates) OBVIOUS
<1>2. N \in Nat /\ DOMAIN Candidates = 1 .. N /\ 1 \in 1 .. N
  <2>1. Candidates \in Seq(Nat) /\ Candidates # <<>> BY SearchAssumption
  <2> QED BY <1>1, <2>1, LenProperties, EmptySeq
<1>3. PICK J : J = [i \in 1 .. N |-> TotalJ(s, [T EXCEPT ![r] = Candidates[i]])] OBVIOUS
<1>4. \A i \in 1 .. N : J[i] \in Nat /\ J[i] = TotalJ(s, [T EXCEPT ![r] = Candidates[i]]) BY <1>3, TotalCounts
<1>5. PICK cheapest : cheapest = {i \in 1 .. N : \A j \in 1 .. N : J[i] <= J[j]} OBVIOUS
<1>6. BestCandidate(s, T, r) = Candidates[Min(cheapest)]
  <2>1. cheapest = {i \in DOMAIN Candidates : \A j \in DOMAIN Candidates :
          TotalJ(s, [T EXCEPT ![r] = Candidates[i]]) <= TotalJ(s, [T EXCEPT ![r] = Candidates[j]])}
    BY <1>2, <1>4, <1>5
  <2> QED BY <2>1 DEF BestCandidate
<1>7. cheapest # {} /\ cheapest \subseteq Nat
  <2>1. PICK V : V = {J[i] : i \in 1 .. N} OBVIOUS
  <2>2. V \subseteq Nat /\ V # {} BY <1>2, <1>4, <2>1
  <2>3. PICK v \in V : \A w \in V : v <= w BY <2>2, Least
  <2>4. PICK i \in 1 .. N : v = J[i] BY <2>1, <2>3
  <2>5. \A j \in 1 .. N : J[i] <= J[j] BY <2>1, <2>3, <2>4
  <2> QED BY <1>2, <1>5, <2>5
<1>8. PICK b \in cheapest : b = Min(cheapest)
  <2>1. \E b \in cheapest : \A i \in cheapest : b <= i BY <1>7, Least
  <2> QED BY <2>1 DEF Min
<1>9. b \in 1 .. N /\ \A j \in 1 .. N : J[b] <= J[j] BY <1>5, <1>8
<1>10. BestCandidate(s, T, r) = Candidates[b] BY <1>6, <1>8
<1>11. TotalJ(s, LockIn(s, T, r)) = J[b] BY <1>4, <1>9, <1>10 DEF LockIn
<1>12. ASSUME NEW t \in Range(Candidates) PROVE J[b] <= TotalJ(s, [T EXCEPT ![r] = t])
  <2>1. PICK j \in 1 .. N : t = Candidates[j] BY <1>2 DEF Range
  <2> QED BY <1>4, <1>9, <2>1
<1>13. Candidates[b] \in Range(Candidates) BY <1>2, <1>9 DEF Range
<1> QED BY <1>10, <1>11, <1>12, <1>13

Policies == [BadStates -> Range(Candidates)]

\* The search takes the regimes one by one.
LEMMA SearchGoesOn ==
  ASSUME NEW s, Recorded(s)
  PROVE  \E T \in [0 .. Len(Struggles) -> Policies] :
           /\ T[0] = FirstCandidates
           /\ \A n \in 1 .. Len(Struggles) : T[n] = LockIn(s, T[n - 1], Struggles[n])
           /\ DeriveT(s) = T[Len(Struggles)]
<1> DEFINE N == Len(Struggles)
           R == {p \in (1 .. N) \X Policies \X Policies : p[3] = LockIn(s, p[2], Struggles[p[1]])}
           rec(f) == [n \in 0 .. N |-> IF n = 0 THEN FirstCandidates ELSE LockIn(s, f[n - 1], Struggles[n])]
           T == CHOOSE f : f = rec(f)
<1>1. N \in Nat BY SearchAssumption, LenProperties
<1>2. \A n \in 1 .. N, q, p \in Policies : <<n, q, p>> \in R <=> p = LockIn(s, q, Struggles[n]) OBVIOUS
<1>3. \A n \in 1 .. N, q \in Policies : LockIn(s, q, Struggles[n]) \in Policies
  <2>1. \A n \in 1 .. N, q \in Policies : BestCandidate(s, q, Struggles[n]) \in Range(Candidates) BY BestIsBest
  <2> QED BY <2>1 DEF LockIn, Policies
<1>4. FirstCandidates \in Policies
  <2>1. 1 \in DOMAIN Candidates
    <3>1. Candidates \in Seq(Nat) /\ Candidates # <<>> BY SearchAssumption
    <3> QED BY <3>1, LenProperties, EmptySeq
  <2> QED BY <2>1 DEF FirstCandidates, Policies, Range
<1> HIDE DEF R
<1>5. PICK f \in [0 .. N -> Policies] : f[0] = FirstCandidates /\ \A n \in 1 .. N : <<n, f[n - 1], f[n]>> \in R
  <2>1. PICK M, S, z : M = N /\ S = Policies /\ z = FirstCandidates OBVIOUS
  <2>2. M \in Nat /\ z \in S BY <1>1, <1>4, <2>1
  <2>3. GoesOn(R, S, M) BY <1>2, <1>3, <2>1 DEF GoesOn
  <2>4. CarriedOn(R, S, z, M) BY <2>2, <2>3, Iterates
  <2> QED BY <2>1, <2>4 DEF CarriedOn
<1>6. \A n \in 1 .. N : f[n] = LockIn(s, f[n - 1], Struggles[n])
  <2>1. \A n \in 1 .. N : n - 1 \in 0 .. N /\ n \in 0 .. N BY <1>1
  <2>2. \A n \in 1 .. N : f[n - 1] \in Policies /\ f[n] \in Policies BY <1>5, <2>1
  <2> HIDE DEF N
  <2> QED BY <1>2, <1>5, <2>2
<1>7. f = rec(f)
  <2>1. \A n \in 0 .. N : f[n] = rec(f)[n]
    <3> SUFFICES ASSUME NEW n \in 0 .. N PROVE f[n] = rec(f)[n] OBVIOUS
    <3>1. CASE n = 0 BY <1>5, <3>1
    <3>2. CASE n # 0
      <4>1. n \in 1 .. N BY <1>1, <3>2
      <4> QED BY <1>6, <3>2, <4>1
    <3> QED BY <3>1, <3>2
  <2> QED BY <1>5, <2>1
<1>8. T = rec(T)
  <2> HIDE DEF rec
  <2> QED BY <1>7
<1>9. DeriveT(s) = T[N] BY DEF DeriveT
<1> HIDE DEF T
<1>10. T[0] = FirstCandidates /\ \A n \in 1 .. N : T[n] = LockIn(s, T[n - 1], Struggles[n])
  <2>1. 0 \in 0 .. N /\ \A n \in 1 .. N : n \in 0 .. N /\ n # 0 BY <1>1
  <2> QED BY <1>8, <2>1
<1>11. 0 .. N \subseteq {n \in 0 .. N : T[n] \in Policies}
  <2>1. PICK P : P = {n \in 0 .. N : T[n] \in Policies} OBVIOUS
  <2>2. 0 \in P
    <3>1. 0 \in 0 .. N BY <1>1
    <3> QED BY <1>4, <1>10, <2>1, <3>1
  <2>3. \A n \in 1 .. N : n - 1 \in P => n \in P
    <3>1. \A n \in 1 .. N : n \in 0 .. N BY <1>1
    <3> QED BY <1>3, <1>10, <2>1, <3>1
  <2> HIDE DEF N
  <2> QED BY <1>1, <2>1, <2>2, <2>3, StepByStep
<1>12. T \in [0 .. N -> Policies]
  <2>1. T = [n \in 0 .. N |-> T[n]] BY <1>8
  <2> QED BY <1>11, <2>1
<1> QED BY <1>9, <1>10, <1>12

\* No step of the search makes the policy dearer, and the last one is the best for its regime.
LEMMA SearchPays ==
  ASSUME NEW s, Recorded(s), NEW T, T = DeriveT(s)
  PROVE  /\ TotalJ(s, T) <= TotalJ(s, FirstCandidates)
         /\ \A t \in Range(Candidates) : TotalJ(s, T) <= TotalJ(s, [T EXCEPT ![Last(Struggles)] = t])
<1>1. PICK N : N = Len(Struggles) OBVIOUS
<1>2. N \in Nat /\ DOMAIN Struggles = 1 .. N /\ \A n \in 1 .. N : Struggles[n] \in BadStates
  <2>1. Struggles \in Seq(BadStates) BY SearchAssumption
  <2> QED BY <1>1, <2>1, LenProperties, ElementOfSeq
<1>3. PICK f \in [0 .. N -> Policies] :
        /\ f[0] = FirstCandidates
        /\ \A n \in 1 .. N : f[n] = LockIn(s, f[n - 1], Struggles[n])
        /\ T = f[N]
  BY <1>1, SearchGoesOn
<1>4. \A n \in 0 .. N : f[n] \in Policies BY <1>3
<1>5. \A p : TotalJ(s, p) \in Nat BY TotalCounts
<1>6. PICK P : P = {n \in 0 .. N : TotalJ(s, f[n]) <= TotalJ(s, FirstCandidates)} OBVIOUS
<1>7. 0 \in P
  <2>1. 0 \in 0 .. N BY <1>2
  <2>2. TotalJ(s, f[0]) <= TotalJ(s, FirstCandidates) BY <1>3, <1>5
  <2> QED BY <1>6, <2>1, <2>2
<1>8. ASSUME NEW n \in 1 .. N, n - 1 \in P PROVE n \in P
  <2>1. PICK old, r : old = f[n - 1] /\ r = Struggles[n] OBVIOUS
  <2>2. n \in 0 .. N /\ n - 1 \in 0 .. N BY <1>2
  <2>3. old \in [BadStates -> Range(Candidates)] /\ r \in BadStates BY <1>2, <1>4, <2>1, <2>2 DEF Policies
  <2>4. old[r] \in Range(Candidates) /\ [old EXCEPT ![r] = old[r]] = old BY <2>3
  <2>5. TotalJ(s, LockIn(s, old, r)) <= TotalJ(s, [old EXCEPT ![r] = old[r]]) BY <2>4, BestIsBest
  <2>6. TotalJ(s, f[n]) <= TotalJ(s, old) BY <1>3, <2>1, <2>4, <2>5
  <2>7. TotalJ(s, old) <= TotalJ(s, FirstCandidates) BY <1>6, <1>8, <2>1
  <2>8. TotalJ(s, f[n]) <= TotalJ(s, FirstCandidates) BY <1>5, <2>6, <2>7
  <2> QED BY <1>6, <2>2, <2>8
<1>9. 0 .. N \subseteq P BY <1>2, <1>7, <1>8, StepByStep
<1>10. TotalJ(s, T) <= TotalJ(s, FirstCandidates)
  <2>1. N \in 0 .. N BY <1>2
  <2> QED BY <1>3, <1>6, <1>9, <2>1
<1>11. ASSUME NEW t \in Range(Candidates) PROVE TotalJ(s, T) <= TotalJ(s, [T EXCEPT ![Last(Struggles)] = t])
  <2>1. CASE N = 0
    <3>1. BadStates = {} BY <1>2, <2>1 DEF BadStates, Range
    <3>2. T \in [BadStates -> Range(Candidates)] BY <1>2, <1>3, <1>4 DEF Policies
    <3>3. [T EXCEPT ![Last(Struggles)] = t] = T BY <3>1, <3>2
    <3> QED BY <1>5, <3>3
  <2>2. CASE N # 0
    <3>1. PICK old, r : old = f[N - 1] /\ r = Struggles[N] OBVIOUS
    <3>2. N \in 1 .. N /\ N - 1 \in 0 .. N BY <1>2, <2>2
    <3>3. r = Last(Struggles) BY <1>1, <3>1 DEF Last
    <3>4. T = LockIn(s, old, r) BY <1>3, <3>1, <3>2
    <3>5. TotalJ(s, T) <= TotalJ(s, [old EXCEPT ![r] = t]) BY <3>4, BestIsBest
    <3>6. [T EXCEPT ![r] = t] = [old EXCEPT ![r] = t]
      <4>1. PICK b : T = [old EXCEPT ![r] = b] BY <3>4 DEF LockIn
      <4>2. old \in [BadStates -> Range(Candidates)] BY <1>4, <3>1, <3>2 DEF Policies
      <4> QED BY <4>1, <4>2
    <3> QED BY <3>3, <3>5, <3>6
  <2> QED BY <2>1, <2>2
<1> QED BY <1>10, <1>11

\* The samples are in the order of time, and the control law has acted as it is simulated.
SearchInv == Recorded(log) /\ acted = SimulateInterventions(log, threshold)

LEMMA SearchStarts == SearchInit => SearchInv
<1> SUFFICES ASSUME SearchInit PROVE SearchInv OBVIOUS
<1>1. log = <<>> /\ acted = <<>> BY DEF SearchInit
<1>2. log \in Seq(Sample) /\ Len(log) = 0 BY <1>1, EmptySeq
<1>3. PICK s : s = log OBVIOUS
<1>4. PICK fired \in [0 .. Len(s) -> Seq(Nat)] : fired[0] = <<>> /\ SimulateInterventions(s, threshold) = fired[Len(s)]
  BY <1>2, <1>3, FiresOneByOne
<1>5. SimulateInterventions(log, threshold) = <<>> BY <1>2, <1>3, <1>4
<1>6. Recorded(log) BY <1>2 DEF Recorded
<1> QED BY <1>1, <1>5, <1>6 DEF SearchInv

LEMMA SampleKeeps ==
  ASSUME SearchInv, NEW regime \in BadStates \cup {"productive"}, NEW interval \in 1 .. MaxInterval,
         Sampled(regime, interval)
  PROVE  SearchInv'
<1> DEFINE ts == IF log = <<>> THEN 0 ELSE Last(log).ts + interval
           dwell == IF log # <<>> /\ Last(log).regime = regime THEN Last(log).dwell + interval ELSE 0
<1>1. /\ Len(log) \in Nat /\ DOMAIN log = 1 .. Len(log) /\ log \in Seq(Sample)
      /\ \A i \in 1 .. Len(log) : log[i].ts \in Nat /\ log[i].dwell \in Nat
      /\ \A i, j \in 1 .. Len(log) : i < j => log[i].ts < log[j].ts
  BY SamplesRead DEF SearchInv, Recorded
<1>2. interval \in Nat /\ interval >= 1 BY SearchAssumption
<1>4. log # <<>> => Len(log) \in 1 .. Len(log) /\ Last(log) = log[Len(log)]
  <2>1. log # <<>> => Len(log) # 0 BY <1>1, EmptySeq
  <2> QED BY <1>1, <2>1 DEF Last
<1>5. ts \in Nat /\ dwell \in Nat BY <1>1, <1>2, <1>4
<1>6. \A i \in 1 .. Len(log) : log[i].ts < ts
  <2> SUFFICES ASSUME NEW i \in 1 .. Len(log) PROVE log[i].ts < ts OBVIOUS
  <2>1. log # <<>> BY <1>1, EmptySeq
  <2>2. PICK n, l : n = Len(log) /\ l = log[n].ts OBVIOUS
  <2>3. n \in 1 .. n /\ n \in Nat /\ l \in Nat /\ ts = l + interval BY <1>1, <1>4, <2>1, <2>2
  <2>4. log[i].ts <= l
    <3>1. CASE i = n BY <1>1, <2>2, <2>3, <3>1
    <3>2. CASE i # n
      <4>1. i < n BY <2>2, <2>3, <3>2
      <4>2. log[i].ts < l BY <1>1, <2>2, <2>3, <4>1
      <4> QED BY <1>1, <2>3, <4>2
    <3> QED BY <3>1, <3>2
  <2>5. log[i].ts \in Nat BY <1>1
  <2> HIDE DEF ts
  <2> QED BY <1>2, <2>3, <2>4, <2>5
<1>7. PICK e, x : e = [ts |-> ts, regime |-> regime, dwell |-> dwell] /\ x = ts OBVIOUS
<1>8. e \in Sample /\ e.ts = x /\ x \in Nat /\ (\A i \in 1 .. Len(log) : log[i].ts < x)
  BY <1>5, <1>6, <1>7 DEF Sample
<1>9. log' = Append(log, e) /\ threshold' = threshold BY <1>7 DEF Sampled
<1>10. acted' = Fire(threshold, e, acted)
  <2>1. acted' = IF /\ regime \in BadStates /\ dwell >= threshold[regime]
                    /\ acted # <<>> => ts - Last(acted) >= Pause
                 THEN Append(acted, ts) ELSE acted
    BY DEF Sampled
  <2>2. e.ts = ts /\ e.regime = regime /\ e.dwell = dwell BY <1>7
  <2> HIDE DEF ts, dwell
  <2> QED BY <2>1, <2>2 DEF Fire, FiresAt, IsBadState
<1> HIDE DEF ts, dwell
<1>11. PICK s, t : s = log /\ t = log' OBVIOUS
<1>12. Recorded(t)
  <2>1. /\ t \in Seq(Sample) /\ Len(t) = Len(s) + 1 /\ t[Len(s) + 1] = e
        /\ \A i \in 1 .. Len(s) : t[i] = s[i]
    BY <1>1, <1>8, <1>9, <1>11, OneMore
  <2>2. ASSUME NEW i \in 1 .. Len(t), NEW j \in 1 .. Len(t), i < j PROVE t[i].ts < t[j].ts
    <3>1. i \in 1 .. Len(s) /\ (j \in 1 .. Len(s) \/ j = Len(s) + 1) BY <1>1, <1>11, <2>1, <2>2
    <3>2. CASE j \in 1 .. Len(s) BY <1>1, <1>11, <2>1, <2>2, <3>1, <3>2
    <3>3. CASE j = Len(s) + 1 BY <1>8, <1>11, <2>1, <3>1, <3>3
    <3> QED BY <3>1, <3>2, <3>3
  <2> QED BY <2>1, <2>2 DEF Recorded
<1>13. acted' = SimulateInterventions(log', threshold')
  <2>1. SimulateInterventions(Append(s, e), threshold) = Fire(threshold, e, SimulateInterventions(s, threshold))
    BY <1>1, <1>8, <1>11, OneSampleMore
  <2> QED BY <1>9, <1>10, <1>11, <2>1 DEF SearchInv
<1> QED BY <1>11, <1>12, <1>13 DEF SearchInv

\* The criterion is fair to help and to its absence.
LEMMA CriterionIsFair ==
  ASSUME NEW s, Recorded(s), NEW times, times \subseteq Stamps(s)
  PROVE  /\ CountFalse(s, times) <= Cardinality(times)
         /\ BadDuration(Truncate(s, times)) <= BadDuration(s)
         /\ Cost(s, {}, NoEffect(s, {})) <= Cost(s, times, NoEffect(s, times))
<1>1. CountFalse(s, times) <= Cardinality(times) BY FalseOnce
<1>2. BadDuration(s) \in Nat /\ BadDuration(Truncate(s, times)) <= BadDuration(s) BY TruncationPays
<1>3. CostStuck * BadDuration(s) <= Cost(s, times, s) BY <1>2, CostCounts
<1>4. Cost(s, {}, s) = CostStuck * BadDuration(s)
  <2>1. CountFalse(s, {}) = 0 BY DEF CountFalse
  <2>2. Cardinality({}) = 0 BY FS_EmptySet
  <2>3. CostStuck \in Nat /\ CostIntervention \in Nat /\ CostFalse \in Nat BY SearchAssumption
  <2>4. PICK a : a = CostStuck * BadDuration(s) OBVIOUS
  <2>5. a \in Nat BY <1>2, <2>3, <2>4
  <2>6. Cost(s, {}, s) = a + CostIntervention * 0 + CostFalse * 0 BY <2>1, <2>2, <2>4 DEF Cost
  <2>7. CostIntervention * 0 = 0 /\ CostFalse * 0 = 0 BY <2>3
  <2> QED BY <2>4, <2>5, <2>6, <2>7
<1> QED BY <1>1, <1>2, <1>3, <1>4 DEF NoEffect

LEMMA SearchIsSound == SearchInv => SearchSound
<1> SUFFICES ASSUME SearchInv PROVE SearchSound OBVIOUS
<1>1. PICK s : s = log OBVIOUS
<1>2. Recorded(s) /\ SimulateInterventions(log, threshold) = acted BY <1>1 DEF SearchInv
<1>3. Stamps(s) = {log[i].ts : i \in DOMAIN log} BY <1>1 DEF Stamps
<1>4. ASSUME NEW times \in SUBSET {log[i].ts : i \in DOMAIN log}
      PROVE  /\ CountFalse(log, times) <= Cardinality(times)
             /\ BadDuration(Truncate(log, times)) <= BadDuration(log)
             /\ Cost(log, {}, NoEffect(log, {})) <= Cost(log, times, NoEffect(log, times))
  <2>1. times \subseteq Stamps(s) BY <1>3
  <2>2. /\ CountFalse(s, times) <= Cardinality(times)
        /\ BadDuration(Truncate(s, times)) <= BadDuration(s)
        /\ Cost(s, {}, NoEffect(s, {})) <= Cost(s, times, NoEffect(s, times))
    BY <1>2, <2>1, CriterionIsFair
  <2> QED BY <1>1, <2>2
<1>5. PICK T : T = DeriveT(s) OBVIOUS
<1>6. /\ TotalJ(s, T) <= TotalJ(s, FirstCandidates)
      /\ \A t \in Range(Candidates) : TotalJ(s, T) <= TotalJ(s, [T EXCEPT ![Last(Struggles)] = t])
  BY <1>2, <1>5, SearchPays
<1>7. /\ TotalJ(log, DeriveT(log)) <= TotalJ(log, FirstCandidates)
      /\ \A t \in Range(Candidates) : TotalJ(log, DeriveT(log)) <= TotalJ(log, [DeriveT(log) EXCEPT ![Last(Struggles)] = t])
  BY <1>1, <1>5, <1>6
<1> QED BY <1>2, <1>4, <1>7 DEF SearchSound

\* The search simulates the policy that acts, counts no intervention as false twice, and
\* finds no dearer thresholds than it began with, for any samples, grid, pause and costs
\* (analytics/criterion.py, analytics/thresholds.py).
THEOREM SearchAlwaysSound == SearchSpec => []SearchSound
<1>1. SearchInit => SearchInv BY SearchStarts
<1>2. SearchInv /\ [SearchNext]_searchVars => SearchInv'
  <2> SUFFICES ASSUME SearchInv, [SearchNext]_searchVars PROVE SearchInv' OBVIOUS
  <2>1. CASE SearchNext BY <2>1, SampleKeeps DEF SearchNext
  <2>2. CASE UNCHANGED searchVars BY <2>2 DEF searchVars, SearchInv
  <2> QED BY <2>1, <2>2
<1>3. SearchInv => SearchSound BY SearchIsSound
<1> QED BY <1>1, <1>2, <1>3, PTL DEF SearchSpec
=============================================================================
