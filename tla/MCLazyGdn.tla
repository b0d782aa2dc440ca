----------------------------- MODULE MCLazyGdn -----------------------------
EXTENDS LazyGdn, TLC
CONSTANTS r1, r2, b1, b2, b3, b4, b5

MCRequests == {r1, r2}
MCSlots == {b1, b2, b3, b4, b5}

(* Blocks and requests are interchangeable; no liveness is checked here.   *)
Symmetry == Permutations(MCSlots) \cup Permutations(MCRequests)
=============================================================================
