------------------------- MODULE MCCanonicalChunks --------------------------
(***************************************************************************)
(* An instance of CanonicalChunks: two request slots over one token        *)
(* stream.  A block is two tokens and a grid chunk two blocks; r1 has two  *)
(* grid chunks and a tail, r2 is shorter than one and soon decodes, one to *)
(* three tokens at a time, beside r1.                                      *)
(***************************************************************************)
EXTENDS CanonicalChunks

CONSTANTS r1, r2

MCRequests == {r1, r2}
MCPrompt == [r \in MCRequests |-> IF r = r1 THEN 11 ELSE 3]
=============================================================================
