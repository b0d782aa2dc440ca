------------------------- MODULE MCOneShotAllReduce -------------------------
(* The instance of OneShotAllReduce whose calls have different lengths.    *)
EXTENDS OneShotAllReduce

MCTwo == {0, 1}

\* Two lengths on the exact kernel, with different chunks.
MCMixed == {[kernel |-> "exact", words |-> 3], [kernel |-> "exact", words |-> 4]}
=============================================================================
