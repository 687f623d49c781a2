----------------------------- MODULE MCWorkbench -----------------------------
(***************************************************************************)
(* Small instances, side by side, of what works on a learner's lab: the    *)
(* checks of their work and what these leave behind, the power of the      *)
(* nodes, the consoles and the connections to the tool server.  A          *)
(* behaviour picks one part and leaves the others where they start.        *)
(***************************************************************************)
EXTENDS LabProgress, StepAttempts, ConsoleChecks, NodePower, ConsoleFlush, ConsoleTap,
        McpPool, McpStream, TransferStudy, SimCohort, SessionDoor, TLC

CONSTANTS v1, v2, a1, a2, a3, a4, h1, h2, h3, n1, n2, reclaimer,
          f1, f2, f3, m1, m2, t1, t2, t3, t4, d1, d2, u1, x1, x2, z3

VARIABLE part    \* the component that runs

TwoSteps == <<2, 1>>
HandlerOf == (h1 :> "show_ip") @@ (h2 :> "ping_node") @@ (h3 :> "cisco")
SourceOf == (h1 :> n2) @@ (h2 :> n1) @@ (h3 :> n2)
TargetOf == (h1 :> n2) @@ (h2 :> n2) @@ (h3 :> n2)
Sizes == [i \in {f1, f2, f3, m1, m2} |-> IF i \in {f3, m2} THEN 2 ELSE 1]
Typings == {<<"key">>, <<"break">>, <<"key", "break", "key">>, <<"break", "key", "break">>}
FourStreams == 1 .. 4
OneSkill == (x1 :> "vlan") @@ (x2 :> "vlan")

\* The pair of tool calls serves as starters, requests and viewers of the parts, which
\* never run together; nothing but identity tells the two apart.
BenchSymmetry == Permutations({t1, t2})

AllVars == <<part, progressVars, attemptVars, consoleVars, powerVars, flushVars, tapVars,
             poolVars, streamVars, studyVars, simVars, doorVars>>

\* The parts that do not run stay as they began, so a state is told by the one that does.
PartView ==
  CASE part = "progress" -> <<part, progressVars>>
    [] part = "attempts" -> <<part, attemptVars>>
    [] part = "checks" -> <<part, consoleVars>>
    [] part = "power" -> <<part, powerVars>>
    [] part = "flush" -> <<part, flushVars>>
    [] part = "tap" -> <<part, tapVars>>
    [] part = "pool" -> <<part, poolVars>>
    [] part = "stream" -> <<part, streamVars>>
    [] part = "study" -> <<part, studyVars>>
    [] part = "cohort" -> <<part, simVars>>
    [] part = "door" -> <<part, doorVars>>

BenchInit ==
  /\ part \in {"progress", "attempts", "checks", "power", "flush", "tap", "pool", "stream",
              "study", "cohort", "door"}
  /\ ProgressInit /\ AttemptInit /\ ConsoleInit /\ PowerInit
  /\ FlushInit /\ TapInit /\ PoolInit /\ StreamInit /\ StudyInit /\ SimInit /\ DoorInit
  /\ part # "pool" => suspends = FALSE
  /\ \A u \in Students : u # 1 \/ part # "cohort" => student[u].systematic  \* bound: the first has either trait
  /\ part # "study" => simulated = {}
  /\ part # "door" => door = "state"

BenchNext ==
  \/ /\ part = "progress" /\ ProgressNext
     /\ UNCHANGED <<part, attemptVars, consoleVars, powerVars, flushVars, tapVars, poolVars, streamVars, studyVars, simVars, doorVars>>
  \/ /\ part = "attempts" /\ AttemptNext
     /\ UNCHANGED <<part, progressVars, consoleVars, powerVars, flushVars, tapVars, poolVars, streamVars, studyVars, simVars, doorVars>>
  \/ /\ part = "checks" /\ ConsoleNext
     /\ UNCHANGED <<part, progressVars, attemptVars, powerVars, flushVars, tapVars, poolVars, streamVars, studyVars, simVars, doorVars>>
  \/ /\ part = "power" /\ PowerNext
     /\ UNCHANGED <<part, progressVars, attemptVars, consoleVars, flushVars, tapVars, poolVars, streamVars, studyVars, simVars, doorVars>>
  \/ /\ part = "flush" /\ FlushNext
     /\ UNCHANGED <<part, progressVars, attemptVars, consoleVars, powerVars, tapVars, poolVars, streamVars, studyVars, simVars, doorVars>>
  \/ /\ part = "tap" /\ TapNext
     /\ UNCHANGED <<part, progressVars, attemptVars, consoleVars, powerVars, flushVars, poolVars, streamVars, studyVars, simVars, doorVars>>
  \/ /\ part = "pool" /\ PoolNext
     /\ UNCHANGED <<part, progressVars, attemptVars, consoleVars, powerVars, flushVars, tapVars, streamVars, studyVars, simVars, doorVars>>
  \/ /\ part = "stream" /\ StreamNext
     /\ UNCHANGED <<part, progressVars, attemptVars, consoleVars, powerVars, flushVars, tapVars, poolVars, studyVars, simVars, doorVars>>
  \/ /\ part = "study" /\ StudyNext
     /\ UNCHANGED <<part, progressVars, attemptVars, consoleVars, powerVars, flushVars, tapVars, poolVars, streamVars, simVars, doorVars>>
  \/ /\ part = "cohort" /\ SimNext
     /\ UNCHANGED <<part, progressVars, attemptVars, consoleVars, powerVars, flushVars, tapVars, poolVars, streamVars, studyVars, doorVars>>
  \/ /\ part = "door" /\ DoorNext
     /\ UNCHANGED <<part, progressVars, attemptVars, consoleVars, powerVars, flushVars, tapVars, poolVars, streamVars, studyVars, simVars>>

BenchSpec == BenchInit /\ [][BenchNext]_AllVars
=============================================================================
