--------------------------- MODULE MCGns3Sessions ---------------------------
(* Small instances of Gns3Sessions for TLC. *)
EXTENDS Gns3Sessions, TLC

CONSTANTS s1, s2, g1, g2, x1, x2, x3, x4, k1, k2

OneReplica == (s1 :> g1) @@ (s2 :> g1)
=============================================================================
