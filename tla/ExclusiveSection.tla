-------------------------- MODULE ExclusiveSection --------------------------
(***************************************************************************)
(* What the RBAC gate of gns3-service is there to promise: the writes that *)
(* go through it happen one at a time, whoever makes them.                 *)
(***************************************************************************)
EXTENDS FiniteSets

CONSTANT Writers

VARIABLE inside     \* the writers in the section

ExclusiveInit == inside = {}

Admit(w) == inside = {} /\ inside' = {w}
Depart(w) == w \in inside /\ inside' = inside \ {w}

ExclusiveNext == \E w \in Writers : Admit(w) \/ Depart(w)

ExclusiveSpec == ExclusiveInit /\ [][ExclusiveNext]_inside
=============================================================================
