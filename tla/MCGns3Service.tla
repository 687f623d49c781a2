---------------------------- MODULE MCGns3Service ----------------------------
(***************************************************************************)
(* Small instances, side by side, of what gns3-service and the MCP server  *)
(* do with the GNS3 server: the sessions and their gate across replicas    *)
(* that crash, the stream of events, the consoles, the administrator's     *)
(* calls and the tools.  A behaviour picks one part and leaves the others  *)
(* where they start.                                                       *)
(***************************************************************************)
EXTENDS Gns3Sessions, EventStream, ConsoleRelay, AdminCalls, ToolRequests, TLC

CONSTANTS s1, s2, g1, g2, x1, x2, x3, x4, k1, k2, w1, u1, u2

VARIABLE part    \* the component that runs

TwoReplicas == (s1 :> g1) @@ (s2 :> g2)

\* Bound: five tokens.
ShortOutputs == {text \in UNION {[1 .. n -> Tokens] : n \in 0 .. 5} : KeepsPrompt(text)}

\* The parts never run together, so that one pair stands for each pair of equals.
ServiceSymmetry == Permutations({k1, k2}) \cup Permutations(Tenants)

\* The parts that do not run stay as they began, so a state is told by the one
\* that does; logged guards nothing, and only NothingLeftBehind reads it.
PartView ==
  CASE part = "sessions" -> <<part, gateVars, row, account, project, create, work>>
    [] part = "events" -> <<part, eventStreamVars>>
    [] part = "relay" -> <<part, relayVars>>
    [] part = "admin" -> <<part, adminVars>>
    [] part = "tools" -> <<part, toolVars>>

ServiceInit ==
  /\ part \in {"sessions", "events", "relay", "admin", "tools"}
  /\ Init /\ StreamOfEventsInit /\ RelayInit /\ AdminInit /\ ToolInit
  /\ part # "events" => follow = "pages"
  /\ part # "relay" => output = <<>>
  /\ part # "tools" => component = "node"

ServiceNext ==
  \/ /\ part = "sessions" /\ Next
     /\ UNCHANGED <<part, eventStreamVars, relayVars, adminVars, toolVars>>
  \/ /\ part = "events" /\ StreamOfEventsNext
     /\ UNCHANGED <<part, allVars, relayVars, adminVars, toolVars>>
  \/ /\ part = "relay" /\ RelayNext
     /\ UNCHANGED <<part, allVars, eventStreamVars, adminVars, toolVars>>
  \/ /\ part = "admin" /\ AdminNext
     /\ UNCHANGED <<part, allVars, eventStreamVars, relayVars, toolVars>>
  \/ /\ part = "tools" /\ ToolNext
     /\ UNCHANGED <<part, allVars, eventStreamVars, relayVars, adminVars>>

ServiceSpec ==
  ServiceInit /\ [][ServiceNext]_<<part, allVars, eventStreamVars, relayVars, adminVars, toolVars>>
=============================================================================
