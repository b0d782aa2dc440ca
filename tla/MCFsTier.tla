------------------------------ MODULE MCFsTier ------------------------------
(***************************************************************************)
(* Instances of FsTier.  MCKeys: two requests that share one of three      *)
(* blocks, over a RAM tier of two blocks, so a stored block can be evicted *)
(* from RAM and asked for again.  MCDiskCaches has a smaller one for       *)
(* liveness.                                                               *)
(***************************************************************************)
EXTENDS FsTier

CONSTANTS k1, k2, k3, r1, r2

MCRequests == {r1, r2}

MCKeys == {k1, k2, k3}
MCWant == [r \in MCRequests |-> IF r = r1 THEN {k1, k2} ELSE {k1, k3}]
=============================================================================
