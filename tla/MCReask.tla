------------------------------ MODULE MCReask -------------------------------
(* A waiting request whose prompt is three blocks, and no connector that   *)
(* raises.                                                                 *)
EXTENDS Reask

QuietNext == Look \/ Preempt \/ Finish \/ Tick \/ Change \/ Land

QuietSpec == Init /\ [][QuietNext]_vars
=============================================================================
