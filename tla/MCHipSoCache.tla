---------------------------- MODULE MCHipSoCache ----------------------------
(* Instances of HipSoCache for TLC. *)
EXTENDS HipSoCache

MCBoots == {"b1", "b2"}
MCKeys == {"k1", "k2"}
MCInodes == {"i1", "i2", "i3", "i4"}

\* Two servers of the same image, arch and source.
MCTogether == [b \in MCBoots |-> "k1"]
=============================================================================
