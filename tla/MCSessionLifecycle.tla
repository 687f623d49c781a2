------------------------- MODULE MCSessionLifecycle -------------------------
(* Small instances of SessionLifecycle for TLC. *)
EXTENDS SessionLifecycle, TLC

CONSTANTS u1, u2, l1, l2, r1, r2, p1, p2, e1, e2, reaper

NoLabCaps == <<>>
FirstLabCap == l1 :> 1

\* Labs are interchangeable only when none of them has a cap of its own, and
\* the reaper is never interchangeable with a request.
RequestSymmetry == Permutations(Users) \cup Permutations(Rows) \cup Permutations(Launchers)
                     \cup Permutations(Closers \ {Reaper})
FullSymmetry == RequestSymmetry \cup Permutations(Labs)
=============================================================================
