---------------------------- MODULE PrefillSkip -----------------------------
(***************************************************************************)
(* The drafter's prefill skip, sly/radiance_dflash_skip.py.  A step in     *)
(* which every request prefills far from the end of its prompt writes none *)
(* of the drafter's context K/V: no draft made before the prompt's end is  *)
(* used, and those after it look back by a window only.  With prefix       *)
(* caching a request would inherit the blocks an earlier one left          *)
(* unwritten; the skip is off then.                                        *)
(***************************************************************************)
EXTENDS Naturals, Functions

CONSTANTS Reqs,
          Prompt,      \* tokens of each request's prompt; all are prefixes of one
          Span,        \* of the drafter's attention
          EnvMargin,   \* RADIANCE_DFLASH_PREFILL_WINDOW_SKIP_MARGIN
          BlockSize,   \* of the drafter's KV group
          Budget,      \* tokens of a step
          MaxTokens    \* bound on the tokens of a request

SkipSettings ==
    /\ Prompt \in [Reqs -> Nat] /\ Span \in Nat \ {0} /\ EnvMargin \in Nat
    /\ BlockSize \in Nat \ {0} /\ Budget \in Nat \ {0} /\ MaxTokens \in Nat

VARIABLES caching,    \* enable_prefix_caching
          computed,   \* tokens of each request so far
          written,    \* positions whose context K/V is written, per request
          cached,     \* prompt tokens of a finished request that are cached
          cache       \* which of their positions are written

skipVars == <<caching, computed, written, cached, cache>>

Positions == 0 .. MaxTokens - 1

SkipInit ==
    /\ caching \in BOOLEAN
    /\ computed = [r \in Reqs |-> 0]
    /\ written = [r \in Reqs |-> {}]
    /\ cached = 0 /\ cache = {}

\* Mutant: the drafter's block size is not looked at.
BugMargin == EnvMargin

Margin == IF EnvMargin > 2 * BlockSize THEN EnvMargin ELSE 2 * BlockSize

On == ~caching

Far == Span + Margin

AllFar(n) ==
    \A r \in Reqs : n[r] > 0 => computed[r] + n[r] + Far <= Prompt[r]

(* skip_context, for a step that schedules n[r] tokens of each request.    *)
Skips(n) ==
    /\ On
    /\ \E r \in Reqs : n[r] >= Far
    /\ AllFar(n)

(* A prefill stops at the end of the prompt; then tokens come one by one.  *)
Schedulable(r) ==
    {0} \cup IF computed[r] < Prompt[r] THEN 1 .. Prompt[r] - computed[r]
             ELSE {1} \cap 0 .. MaxTokens - computed[r]

Total(n) == FoldFunction(LAMBDA a, b : a + b, 0, n)

(* A step of the batch of requests that n gives tokens.                    *)
Step(n) ==
    /\ Total(n) \in 1 .. Budget
    /\ computed' = [r \in Reqs |-> computed[r] + n[r]]
    /\ written' =
         IF Skips(n) THEN written
         ELSE [r \in Reqs |-> written[r] \cup computed[r] .. computed'[r] - 1]
    /\ UNCHANGED <<caching, cached, cache>>

Fresh(r) ==
    /\ computed' = [computed EXCEPT ![r] = 0]
    /\ written' = [written EXCEPT ![r] = {}]

(* It loses its blocks, to start anew.                                     *)
Preempt(r) ==
    /\ computed[r] > 0
    /\ Fresh(r)
    /\ UNCHANGED <<caching, cached, cache>>

(* It ends, and another one takes its place.                               *)
Finish(r) ==
    /\ computed[r] > Prompt[r]
    /\ Fresh(r)
    /\ cached' = IF caching THEN Prompt[r] ELSE 0
    /\ cache' = IF caching THEN written[r] ELSE {}
    /\ UNCHANGED caching

(* A request starts behind the blocks that are cached of its prompt.       *)
Hit(r, h) ==
    /\ computed[r] = 0 /\ h <= cached
    /\ h % BlockSize = 0 /\ h < Prompt[r]
    /\ computed' = [computed EXCEPT ![r] = h]
    /\ written' = [written EXCEPT ![r] = cache \cap 0 .. h - 1]
    /\ UNCHANGED <<caching, cached, cache>>

SkipNext ==
    \/ \E n \in [Reqs -> 0 .. Budget] :
          (\A r \in Reqs : n[r] \in Schedulable(r)) /\ Step(n)
    \/ \E r \in Reqs : Preempt(r) \/ Finish(r)
    \/ \E r \in Reqs, h \in 1 .. MaxTokens : Hit(r, h)

SkipSpec == SkipInit /\ [][SkipNext]_skipVars

SkipTypeOK ==
    /\ caching \in BOOLEAN
    /\ computed \in [Reqs -> 0 .. MaxTokens]
    /\ written \in [Reqs -> SUBSET Positions]
    /\ cached \in 0 .. MaxTokens /\ cache \subseteq Positions

(* What a draft at the end of a request's tokens reads: whole blocks.      *)
Reads(r) ==
    LET low == IF computed[r] > Span THEN computed[r] - Span ELSE 0
    IN  low - (low % BlockSize) .. computed[r] - 1

(* A draft that is used, of a request past its prompt, reads only context  *)
(* K/V that was written, whatever was skipped before, by whom and in which *)
(* batches.                                                                *)
UsedReadsWritten ==
    \A r \in Reqs : computed[r] >= Prompt[r] => Reads(r) \subseteq written[r]
=============================================================================
