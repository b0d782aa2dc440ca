--------------------------- MODULE MCNightRelease ---------------------------
(* One pull request, pushed to twice, and one feature; the second revision *)
(* of the stack is slow.                                                   *)
EXTENDS NightRelease

CONSTANTS r1, r2, f, prod, none

MCProduction == {prod}
MCNothing == {none}
MCRev(p, r) == IF r = 1 THEN r1 ELSE r2

(* The repository has no fast number yet.                                  *)
MCFirstBase == [m \in Modes |-> IF m = "fast" THEN 0 ELSE Top]

(* The run of a gate goes well: its verdict is that of its measurement.    *)
GateRunsWell ==
    /\ now = 0
    /\ gate # NoGate => ~gate.failed /\ ~gate.error /\ (gate.at = "report" => gate.restored)
    /\ gate = NoGate => window = "free" /\ served = Production

(* At the last version or commit of main the night merges nothing more.    *)
CanMerge ==
    Tip.ver = MaxVersion \/ Len(main) = MaxMain => night.st = "merged"

FewMerges == Len(main) <= 2 /\ \A p \in PRs : Active(p) => PrVersion(p) <= 2

(* Whatever becomes of the gates, up to the first merge and its release;   *)
(* where they go well, through all the merges of the bounds.               *)
Bound == FewMerges \/ (GateRunsWell /\ CanMerge)
=============================================================================
