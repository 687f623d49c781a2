-------------------------- MODULE MonitorRegistry --------------------------
(***************************************************************************)
(* The registry of learning monitors in the backend                        *)
(* (sessions/monitor_registry.py), filled by launches and, after a         *)
(* restart, by worker/restore.py, and emptied by the paths that end a      *)
(* session.  A monitor and its progress observer are polling tasks; each   *)
(* is named after the execution of start that has made it.                 *)
(***************************************************************************)
EXTENDS Absent, Naturals, FiniteSets

CONSTANTS
  Sessions,
  Launchers,    \* executions of the launch endpoint
  Restorer,     \* the restore_session_monitors task
  Enders,       \* executions of end_lab and of the reaper's _end_one
  MaxCrashes,   \* bound: restarts of the process
  Perils        \* see PerilNames

(***************************************************************************)
(* "fails"   a start fails, or the query of the restoration                *)
(* "overlap" a session is ended while its monitor is started or restored,  *)
(*           or by two paths at once                                       *)
(* "crash"   the process stops and starts again                            *)
(***************************************************************************)
PerilNames == {"fails", "overlap", "crash"}

Starters == Launchers \cup {Restorer}

ASSUME RegistryAssumption ==
  /\ Perils \subseteq PerilNames
  /\ MaxCrashes \in Nat
  /\ Restorer \notin Launchers
  /\ None \notin Starters \cup Sessions

VARIABLES
  row,          \* learning_sessions: what the paths here see of it
  monitors,     \* _monitors
  observers,    \* _observers
  watching,     \* per session, the monitors whose tasks run
  polling,      \* per session, the observers whose task runs
  start,        \* the executions of start
  stop,         \* the executions of stop, by the paths that end a session
  todo,         \* what the restoration still has to start of its selection
  late,         \* what it has selected although this process has launched it
  skipped,      \* sessions whose start failed, or that were too old to be restored
  crashes       \* restarts so far

registryVars == <<row, monitors, observers, watching, polling, start, stop, todo, late, skipped, crashes>>

IdleStart == [pc |-> "idle", session |-> None, victim |-> None]
IdleStop == [pc |-> "idle", session |-> None, victim |-> None]

RegistryTypeOK ==
  /\ row \in [Sessions -> {"none", "active", "ended"}]
  /\ monitors \in [Sessions -> Starters \cup {None}]
  /\ observers \in [Sessions -> Starters \cup {None}]
  /\ watching \in [Sessions -> SUBSET Starters]
  /\ polling \in [Sessions -> SUBSET Starters]
  /\ start \in [Starters -> [pc : {"idle", "select", "called", "observer", "monitor", "undo", "down"},
                             session : Sessions \cup {None}, victim : Starters \cup {None}]]
  /\ stop \in [Enders -> [pc : {"idle", "monitor", "observer", "mark"},
                          session : Sessions \cup {None}, victim : Starters \cup {None}]]
  /\ todo \subseteq Sessions
  /\ late \subseteq Sessions
  /\ skipped \subseteq Sessions
  /\ crashes \in 0 .. MaxCrashes

\* The process has just come up: nothing is registered, the restoration is due.
Forgotten ==
  /\ monitors' = [s \in Sessions |-> None]
  /\ observers' = [s \in Sessions |-> None]
  /\ watching' = [s \in Sessions |-> {}]
  /\ polling' = [s \in Sessions |-> {}]

RestorerAt(pc) ==
  [c \in Starters |-> IF c = Restorer THEN [IdleStart EXCEPT !.pc = pc] ELSE IdleStart]

Fresh == RestorerAt("select")

RegistryInit ==
  /\ row = [s \in Sessions |-> "none"]
  /\ monitors = [s \in Sessions |-> None]
  /\ observers = [s \in Sessions |-> None]
  /\ watching = [s \in Sessions |-> {}]
  /\ polling = [s \in Sessions |-> {}]
  /\ start = Fresh
  /\ stop = [e \in Enders |-> IdleStop]
  /\ todo = {}
  /\ late = {}
  /\ skipped = {}
  /\ crashes = 0

Down == start[Restorer].pc = "down"
Starting(s) == \E c \in Starters : start[c].session = s
Stopping(s) == \E e \in Enders : stop[e].session = s
-----------------------------------------------------------------------------
(* start *)

StartAt(c, pc) == start[c].pc = pc
StartTo(c, pc) == start' = [start EXCEPT ![c].pc = pc]
StartEnds(c) == start' = [start EXCEPT ![c] = IdleStart]

\* A launch has made its session active, and is going to start the monitor.
Launch(c, s) ==
  /\ StartAt(c, "idle") /\ c # Restorer
  /\ row[s] = "none" /\ ~Down
  /\ row' = [row EXCEPT ![s] = "active"]
  /\ start' = [start EXCEPT ![c] = [pc |-> "called", session |-> s, victim |-> None]]
  /\ UNCHANGED <<monitors, observers, watching, polling, stop, todo, late, skipped, crashes>>

\* The restoration selects the active sessions, except those started too long
\* ago: also those that a launch of this process has made active since.
Active == {s \in Sessions : row[s] = "active"}

RestoreSelect ==
  /\ StartAt(Restorer, "select")
  /\ \/ \E old \in SUBSET Active :
          todo' = Active \ old /\ skipped' = skipped \cup old
     \/ "fails" \in Perils /\ todo' = {} /\ skipped' = skipped \cup Active
  /\ late' = late \cup {s \in todo' : Starting(s) \/ watching[s] \cup polling[s] # {}}
  /\ StartEnds(Restorer)
  /\ UNCHANGED <<row, monitors, observers, watching, polling, stop, crashes>>

\* ... and starts their monitors one after the other, whatever they have become.
RestoreNext(s) ==
  /\ StartAt(Restorer, "idle")
  /\ s \in todo
  /\ todo' = todo \ {s}
  /\ start' = [start EXCEPT ![Restorer] = [pc |-> "called", session |-> s, victim |-> None]]
  /\ UNCHANGED <<row, monitors, observers, watching, polling, stop, late, skipped, crashes>>

\* A repeat call is a no-op.
StartCalled(c) ==
  /\ StartAt(c, "called")
  /\ IF monitors[start[c].session] # None THEN StartEnds(c) ELSE StartTo(c, "observer")
  /\ UNCHANGED <<row, monitors, observers, watching, polling, stop, todo, late, skipped, crashes>>

\* The row is loaded; with a gns3 session id it gets an observer, which polls
\* from now on.  Without one, or when that fails, there is none.
StartObserver(c) ==
  /\ StartAt(c, "observer")
  /\ LET s == start[c].session
     IN \/ /\ observers' = [observers EXCEPT ![s] = c]
           /\ polling' = [polling EXCEPT ![s] = @ \cup {c}]
        \/ UNCHANGED <<observers, polling>>
  /\ StartTo(c, "monitor")
  /\ UNCHANGED <<row, monitors, watching, stop, todo, late, skipped, crashes>>

\* The arm is read and the monitor started; it is registered once it runs.
StartMonitor(c) ==
  /\ StartAt(c, "monitor")
  /\ LET s == start[c].session
     IN /\ monitors' = [monitors EXCEPT ![s] = c]
        /\ watching' = [watching EXCEPT ![s] = @ \cup {c}]
  /\ StartEnds(c)
  /\ UNCHANGED <<row, observers, polling, stop, todo, late, skipped, crashes>>

\* Mutant: a start that fails leaves its observer running.
NoUndo(c) ==
  /\ observers' = [observers EXCEPT ![start[c].session] = None]
  /\ StartEnds(c)

\* _stop_observer: whichever observer the session has is popped and stopped.
Undo(c) ==
  LET s == start[c].session
  IN /\ observers' = [observers EXCEPT ![s] = None]
     /\ IF observers[s] = None
        THEN StartEnds(c)
        ELSE start' = [start EXCEPT ![c].pc = "undo", ![c].victim = observers[s]]

StartFails(c) ==
  /\ "fails" \in Perils
  /\ StartAt(c, "monitor")
  /\ Undo(c)
  /\ skipped' = skipped \cup {start[c].session}
  /\ UNCHANGED <<row, monitors, watching, polling, stop, todo, late, crashes>>

StartUndone(c) ==
  /\ StartAt(c, "undo")
  /\ polling' = [polling EXCEPT ![start[c].session] = @ \ {start[c].victim}]
  /\ StartEnds(c)
  /\ UNCHANGED <<row, monitors, observers, watching, stop, todo, late, skipped, crashes>>

StartStep(c) ==
  StartCalled(c) \/ StartObserver(c) \/ StartMonitor(c) \/ StartFails(c) \/ StartUndone(c)
-----------------------------------------------------------------------------
(* stop *)

StopAt(e, pc) == stop[e].pc = pc

\* The observer is popped, and unless there is none awaited.
PopObserver(e, s) ==
  /\ observers' = [observers EXCEPT ![s] = None]
  /\ stop' = [stop EXCEPT ![e] = [pc |-> IF observers[s] = None THEN "mark" ELSE "observer",
                                  session |-> s, victim |-> observers[s]]]

\* A path that ends a session stops its monitor first: popped, then awaited.
EndWatched(e, s) ==
  /\ StopAt(e, "idle")
  /\ row[s] # "none" /\ ~Down
  /\ "overlap" \in Perils \/ (~Starting(s) /\ ~Stopping(s) /\ s \notin todo)
  /\ IF monitors[s] = None
     THEN PopObserver(e, s) /\ UNCHANGED monitors
     ELSE /\ monitors' = [monitors EXCEPT ![s] = None]
          /\ stop' = [stop EXCEPT ![e] = [pc |-> "monitor", session |-> s, victim |-> monitors[s]]]
          /\ UNCHANGED observers
  /\ UNCHANGED <<row, watching, polling, start, todo, late, skipped, crashes>>

StopMonitor(e) ==
  /\ StopAt(e, "monitor")
  /\ LET s == stop[e].session
     IN watching' = [watching EXCEPT ![s] = @ \ {stop[e].victim}] /\ PopObserver(e, s)
  /\ UNCHANGED <<row, monitors, polling, start, todo, late, skipped, crashes>>

StopObserver(e) ==
  /\ StopAt(e, "observer")
  /\ polling' = [polling EXCEPT ![stop[e].session] = @ \ {stop[e].victim}]
  /\ stop' = [stop EXCEPT ![e].pc = "mark"]
  /\ UNCHANGED <<row, monitors, observers, watching, start, todo, late, skipped, crashes>>

\* Only then is the row finalized.
MarkEnded(e) ==
  /\ StopAt(e, "mark")
  /\ row' = [row EXCEPT ![stop[e].session] = "ended"]
  /\ stop' = [stop EXCEPT ![e] = IdleStop]
  /\ UNCHANGED <<monitors, observers, watching, polling, start, todo, late, skipped, crashes>>

StopStep(e) == StopMonitor(e) \/ StopObserver(e) \/ MarkEnded(e)
-----------------------------------------------------------------------------
\* stop_all: every monitor and observer that is registered.
StopRegistered ==
  /\ watching' = [s \in Sessions |-> watching[s] \ {monitors[s]}]
  /\ polling' = [s \in Sessions |-> polling[s] \ {observers[s], start[Restorer].victim}]

\* The service is shut down once its requests are answered; the restoration is
\* cancelled wherever it is, and nothing it was to undo is undone.
Shutdown ==
  /\ ~Down
  /\ \A c \in Launchers : StartAt(c, "idle")
  /\ \A e \in Enders : StopAt(e, "idle")
  /\ StopRegistered
  /\ monitors' = [s \in Sessions |-> None]
  /\ observers' = [s \in Sessions |-> None]
  /\ start' = RestorerAt("down")
  /\ todo' = {}
  /\ UNCHANGED <<row, stop, late, skipped, crashes>>

\* The process stops, unless it has been shut down, and starts again.
RestartRegistry ==
  /\ "crash" \in Perils
  /\ crashes < MaxCrashes
  /\ crashes' = crashes + 1
  /\ Forgotten
  /\ start' = Fresh
  /\ stop' = [e \in Enders |-> IdleStop]
  /\ todo' = {}
  /\ late' = {}
  /\ UNCHANGED <<row, skipped>>

RegistryNext ==
  \/ \E c \in Starters : StartStep(c) \/ \E s \in Sessions : Launch(c, s)
  \/ RestoreSelect
  \/ \E s \in Sessions : RestoreNext(s)
  \/ \E e \in Enders : StopStep(e) \/ \E s \in Sessions : EndWatched(e, s)
  \/ Shutdown
  \/ RestartRegistry

RegistrySpec == RegistryInit /\ [][RegistryNext]_registryVars
-----------------------------------------------------------------------------
\* restore.py: "Restarts the monitor for every live session": once the starts,
\* the stops and the restoration are through, every active session has one.
LiveIsWatched ==
  ~Down /\ ~StartAt(Restorer, "select") =>
    \A s \in Sessions :
      row[s] = "active" /\ s \notin skipped \cup todo /\ ~Starting(s) /\ ~Stopping(s)
        => monitors[s] \in watching[s]

\* Whatever polls for a session is in the registry or about to be stopped by
\* whoever has taken it out, also when starts fail half-way, when an end meets
\* a start, and when two ends meet: nothing is out of reach of stop and stop_all,
\* and after stop_all nothing polls, although the restoration may have been
\* cancelled between an observer and its monitor.  Only a session that the
\* restoration starts after its own launch may have two.  And every live session
\* has its monitor once all of these are through.
Registered ==
  /\ RegistryTypeOK
  /\ \A s \in Sessions \ late :
       /\ \A c \in watching[s] :
            \/ monitors[s] = c
            \/ \E e \in Enders : stop[e] = [pc |-> "monitor", session |-> s, victim |-> c]
       /\ \A c \in polling[s] :
            \/ observers[s] = c
            \/ \E e \in Enders : stop[e] = [pc |-> "observer", session |-> s, victim |-> c]
            \/ \E d \in Starters : start[d] = [pc |-> "undo", session |-> s, victim |-> c]
       /\ Down => watching[s] = {} /\ polling[s] = {}
  /\ LiveIsWatched
=============================================================================
