--------------------------- MODULE AdaptiveWidth ----------------------------
(***************************************************************************)
(* How many drafts of each request a step verifies,                        *)
(* sly/radiance_adaptive_width.py.  A request accepts each further draft   *)
(* with probability q, so k of them yield 1 + q + ... + q^k tokens; a step *)
(* of M rows costs a + b * M; the batch wants the most tokens per time.    *)
(* `perseq` goes up each request's ladder of widths, where the next row    *)
(* gains most first, and stops at the best batch on its way; `uniform`     *)
(* takes one width for all.                                                *)
(*                                                                         *)
(* q is given in parts of Parts, gains in parts of Parts^Depth.            *)
(***************************************************************************)
EXTENDS Integers, Functions, FiniteSetsExt

CONSTANTS Requests,    \* 1 .. n, as in the batch
          Depth,       \* drafts the drafter makes
          Lens,        \* RADIANCE_AW_LENS
          Parts, Qs,   \* acceptance estimates, in parts
          CostA, CostB, MinRows, Quant,   \* RADIANCE_AW_*
          Modes

WidthSettings ==
    /\ Depth \in Nat \ {0} /\ Lens \subseteq Nat \ {0}
    /\ Parts \in Nat \ {0} /\ Qs \subseteq 0 .. Parts
    /\ CostA \in Nat /\ CostB \in Nat /\ MinRows \in Nat /\ Quant \in Nat
    /\ Modes \subseteq {"uniform", "perseq"}

VARIABLES mode, drafts, estimate, width,
          chosen       \* whether the step's widths are chosen

vars == <<mode, drafts, estimate, width, chosen>>

Sum(f) == FoldFunction(LAMBDA a, b : a + b, 0, f)

lens == {w \in Lens : w < Depth} \cup {Depth}
Rows(k) == Sum([i \in Requests |-> 1 + k[i]])
Cost(k) == CostA + CostB * Rows(k)

\* q^lo+1 + ... + q^hi
Chunk(q, lo, hi) ==
    Sum([j \in lo + 1 .. hi |-> q ^ j * Parts ^ (Depth - j)])

Gained(k) ==
    Sum([i \in Requests |-> Parts ^ Depth + Chunk(estimate[i], 0, k[i])])

\* More tokens per time, or as many.
AtLeast(k, l) == Gained(k) * Cost(l) >= Gained(l) * Cost(k)

Ladder(i) == {w \in lens : w < drafts[i]} \cup {drafts[i]}
Above(i, w) == Min({v \in Ladder(i) : v > w})

-----------------------------------------------------------------------------
Full(k) == k = drafts

Admissible(k) == Full(k) \/ Quant <= 1 \/ Rows(k) % Quant = 0

Climbers(k) == {i \in Requests : k[i] < drafts[i]}

Steps(i, k) == Above(i, k[i]) - k[i]
Gain(i, k) == Chunk(estimate[i], k[i], Above(i, k[i]))

\* Mutant: the first request that can climb does.
BugPicked(k) == Min(Climbers(k))

\* Who gains most per row, the lowest index of several.
Picked(k) ==
    Min({i \in Climbers(k) :
           \A j \in Climbers(k) : Gain(i, k) * Steps(j, k) >= Gain(j, k) * Steps(i, k)})

\* The batches on the way up: the first rungs, and one more rung each time.
Path ==
    LET walk[j \in 0 .. Cardinality(Requests) * Depth] ==
          IF j = 0 THEN [i \in Requests |-> Min(Ladder(i))]
          ELSE LET k == walk[j - 1]
               IN  IF Climbers(k) = {} THEN k
                   ELSE [k EXCEPT ![Picked(k)] = Above(Picked(k), @)]
    IN  Range(walk)

\* The best of them, the widest of several.
PerSeq ==
    LET good == {k \in Path : Admissible(k)}
        best == {k \in good : \A l \in good : AtLeast(k, l)}
    IN  CHOOSE k \in best : \A l \in best : Rows(l) <= Rows(k)

Uniform ==
    LET common(w) == [i \in Requests |-> Min({w, drafts[i]})]
    IN  common(Max({w \in lens : \A v \in lens : AtLeast(common(w), common(v))}))

Init ==
    /\ mode \in Modes
    /\ drafts \in [Requests -> 1 .. Depth]
    /\ estimate \in [Requests -> Qs]
    /\ width = drafts /\ chosen = FALSE

(* choose *)
Choose ==
    /\ ~chosen /\ chosen' = TRUE
    /\ width' = IF Rows(drafts) < MinRows THEN drafts
                ELSE IF mode = "uniform" THEN Uniform
                ELSE PerSeq
    /\ UNCHANGED <<mode, drafts, estimate>>

Next == Choose

Spec == Init /\ [][Next]_vars

TypeOK ==
    /\ mode \in Modes
    /\ drafts \in [Requests -> 1 .. Depth]
    /\ estimate \in [Requests -> Qs]
    /\ \A i \in Requests : width[i] \in 1 .. drafts[i]
    /\ chosen \in BOOLEAN

Batches ==
    {k \in [Requests -> 1 .. Depth] :
       Admissible(k) /\ \A i \in Requests : k[i] \in Ladder(i)}

(* A batch is only shortened where that pays.  Above the limit below which *)
(* none is, the chosen widths yield as many tokens per time as all drafts  *)
(* would; and where every request has all its drafts, going up the ladders *)
(* a step at a time finds as much as any widths with an admissible number  *)
(* of rows.                                                                *)
ShorteningPays ==
    chosen /\ Rows(drafts) >= MinRows =>
        /\ AtLeast(width, drafts)
        /\ mode = "perseq" /\ drafts = [i \in Requests |-> Depth]
             => \A k \in Batches : AtLeast(width, k)
=============================================================================
