----------------------------- MODULE Retention ------------------------------
(***************************************************************************)
(* Checkpoint retention on the canonical grid.  A turn of a conversation   *)
(* can resume at a grid point if the attention blocks below it are cached, *)
(* the recurrent state at it, the drafter's window that ends at it and the *)
(* drafter's block after it, which a lookup peeks at and drops.  Of these  *)
(* the GPU cache (kv-cache/patch_vram_retention.py) and the offload tier   *)
(* (patch_tier_retention.py) keep states and drafter blocks only where     *)
(* they expect a turn to resume.                                           *)
(*                                                                         *)
(* Two systems see the same turns: "dense" keeps every checkpoint that is  *)
(* canonical, "thin" what the retention keeps.  Conversations begin with   *)
(* one system prompt and are only appended to; a block is identified by    *)
(* its number and by whose tokens it holds.                                *)
(***************************************************************************)
EXTENDS Integers, FiniteSets, FiniteSetsExt

CONSTANTS Convs,
          Shared,        \* whose tokens the system prompt's blocks hold
          SystemPrompt,  \* its length
          Block,         \* tokens in a block, and in a chunk of the tier
          Grid,          \* tokens in a canonical chunk
          Window,        \* blocks of the drafter's window
          KeepPrefix,    \* RADIANCE_VRAM_KEEP_PREFIX
          GeoK,          \* RADIANCE_TIER_GEO_K
          Receipts,      \* RADIANCE_CANON_RECEIPTS
          Tail,          \* RADIANCE_SWA_EAGLE_REPLAY_TAIL, 0 or 1
          MaxPrompt,     \* bound on a prompt
          MaxOutput,     \* bound on the tokens of an answer
          MaxTurns       \* bound on the turns

RetentionSettings ==
    /\ Shared \notin Convs
    /\ Block \in Nat \ {0} /\ Grid \in Nat \ {0} /\ Grid % Block = 0
    /\ Window \in Nat /\ KeepPrefix \in Nat /\ GeoK \in Nat
    /\ GeoK >= 2   \* max(2, int(...))
    /\ Receipts \in BOOLEAN /\ Tail \in {0, 1}
    /\ SystemPrompt \in Nat /\ MaxPrompt \in Nat /\ MaxOutput \in Nat /\ MaxTurns \in Nat

VARIABLES prompt,   \* the length of each conversation's last prompt, 0: none
          attn,     \* attention blocks in the GPU cache
          stored,   \* attention blocks in the tier
          gpu,      \* each system's states, drafter blocks and receipts
          tier,     \* each system's states and drafter blocks
          hit,      \* where the last turn could resume, from which, in each system
          turns

vars == <<prompt, attn, stored, gpu, tier, hit, turns>>

Systems == {"dense", "thin"}
GridPoints == {e \in 0 .. MaxPrompt : e % Grid = 0}
Tip(p) == p - (p % Grid)

(* Whose tokens the first n are.                                           *)
Whose(c, n) == IF n <= SystemPrompt THEN Shared ELSE c
State(c, e) == <<Whose(c, e), e>>
Numbered(c, i) == <<Whose(c, (i + 1) * Block), i>>
Numbers(c, I) == {Numbered(c, i) : i \in I}

Indices == 0 .. MaxPrompt \div Block
Before(e) == {i \in Indices : (i + 1) * Block <= e}
WindowOf(e) == {i \in Before(e) : (i + 1) * Block > e - Window * Block}
Peek(e) == e \div Block

Init ==
    /\ prompt = [c \in Convs |-> 0]
    /\ attn = {} /\ stored = {}
    /\ gpu = [s \in Systems |-> [state |-> {}, draft |-> {}, receipt |-> {}]]
    /\ tier = [s \in Systems |-> [state |-> {}, draft |-> {}]]
    /\ hit = [s \in Systems |-> [gpu |-> 0, tier |-> 0]]
    /\ turns = 0

-----------------------------------------------------------------------------
(* Where a turn can resume.                                                *)

GpuHits(g, blocks, c, p) ==
    {e \in GridPoints :
        e > 0 => /\ e + Block <= p - 1
                 /\ Numbers(c, Before(e)) \subseteq blocks
                 /\ State(c, e) \in g.state
                 /\ Numbers(c, WindowOf(e)) \subseteq g.draft
                 /\ Numbered(c, Peek(e)) \in g.draft \cup g.receipt}

TierHits(s, c, p) ==
    {e \in GridPoints :
        e > 0 => /\ e + Block <= p - 1
                 /\ Numbers(c, Before(e)) \subseteq stored
                 /\ State(c, e) \in tier[s].state
                 /\ Numbers(c, WindowOf(e) \cup {Peek(e)}) \subseteq tier[s].draft}

-----------------------------------------------------------------------------
(* What is kept.                                                           *)

\* The next turn resumes at the tip if the prompt ran a full block past it.
Resumable(p) ==
    IF p - Tip(p) >= Block /\ Receipts THEN Tip(p) ELSE Tip(p) - Grid

\* _radiance_vram_boundaries; junction is request.shared_prefix_boundary.
Boundaries(p, junction) ==
    {e \in GridPoints \ {0} :
        \/ e \in {Tip(p), Resumable(p), Tip(junction)}
        \/ e <= Tip(p) /\ e <= KeepPrefix}

\* reachable_block_mask: the window that ends at a boundary, and the peek.
Reachable(B) ==
    {i \in Indices :
        \E e \in B : i \in (Peek(e) - Window - Tail) .. Peek(e)}

\* The largest power of two that is at most d.
PowerBelow(d) == Max({q \in {2 ^ k : k \in 0 .. d} : q <= d})

\* Mutant: the power of two above the distance.
BugBackoff(t) == {d \in 0 .. t : d = 0 \/ (t - d) % (2 * PowerBelow(d)) = 0}

\* Distances from the tip: those at a multiple of the power of two below them.
Backoff(t) == {d \in 0 .. t : d = 0 \/ (t - d) % PowerBelow(d) = 0}

\* _radiance_tier_retained: grid chunks, counted from 0.
Retained(p, junction) ==
    LET t == p \div Grid - 1
        far == Backoff(t)
        geo == {t - d : d \in {e \in far : Cardinality({f \in far : f < e}) < GeoK}}
        prefix == {i \in 0 .. t : i < KeepPrefix \div Grid}
        j == Min({t, junction \div Grid - 1})
    IN  IF t < 0 THEN {} ELSE geo \cup prefix \cup {i \in {j} : i >= 0}

\* _radiance_tier_keep, for the chunks of a state and of the drafter.
TierKeepsState(R, e) == e \div Grid - 1 \in R

TierKeepsDraft(R, i) ==
    \E e \in GridPoints :
        /\ i \in WindowOf(e) \/ i = Peek(e)
        /\ e \div Grid - 1 \in R

-----------------------------------------------------------------------------
(* A turn resumes at h and computes up to its tip; what it registers is    *)
(* canonical, but for the drafter's receipt past the tip, which is there   *)
(* when that block fills up, in the prompt or in the answer.               *)

Computed(h, p) == Before(Tip(p)) \ Before(h)
Points(h, p) == {e \in GridPoints : h < e /\ e <= Tip(p)}

Registered(g, c, p, h, n, E, I) ==
    LET fresh == Numbers(c, Computed(h, p) \cap I)
        slip == Numbers(c, {i \in I \cap {Peek(Tip(p))} :
                              Receipts /\ Tip(p) > 0 /\ (i + 1) * Block <= n})
    IN  [state |-> g.state \cup {State(c, e) : e \in Points(h, p) \cap E},
         draft |-> g.draft \cup fresh,
         receipt |-> (g.receipt \ fresh) \cup slip]

Loaded(g, c, h) ==
    IF h = 0 THEN g
    ELSE [g EXCEPT !.state = @ \cup {State(c, h)},
                   !.draft = @ \cup Numbers(c, WindowOf(h))]

Stored(u, c, p, h, E, I) ==
    [state |-> u.state \cup {State(c, e) : e \in Points(h, p) \cap E},
     draft |-> u.draft \cup Numbers(c, Computed(h, p) \cap I)]

(* What the next prompt of c does not repeat of an answer, its receipts    *)
(* do not match.                                                           *)
Unlike(c) ==
    {Numbered(c, i) : i \in {j \in {Peek(Tip(prompt[c]))} :
                                Tip(prompt[c]) + Block > prompt[c]}}

Matching(g, c, repeats) ==
    IF repeats THEN g ELSE [g EXCEPT !.receipt = @ \ Unlike(c)]

(* A turn of c: its prompt has p tokens, and n with the answer.            *)
Turn(c, p, n, repeats, junction) ==
    /\ turns < MaxTurns /\ turns' = turns + 1
    /\ p > prompt[c] /\ (prompt[c] = 0 => p > SystemPrompt)
    /\ prompt' = [prompt EXCEPT ![c] = p]
    /\ attn' = attn \cup Numbers(c, Before(Tip(p)))
    /\ stored' = stored \cup Numbers(c, Before(Tip(p)))
    /\ \E B \in {Boundaries(p, junction)}, R \in {Retained(p, junction)},
          seen \in {[s \in Systems |-> Matching(gpu[s], c, repeats)]} :
       \E found \in {[s \in Systems |-> [gpu |-> Max(GpuHits(seen[s], attn, c, p)),
                                        tier |-> Max(TierHits(s, c, p))]]} :
         LET h == [s \in Systems |-> Max({found[s].gpu, found[s].tier})]
             points == [dense |-> GridPoints, thin |-> B]
             drafts == [dense |-> Indices, thin |-> Reachable(B)]
             tierPoints == [dense |-> GridPoints,
                            thin |-> {e \in GridPoints : TierKeepsState(R, e)}]
             tierDrafts == [dense |-> Indices,
                            thin |-> {i \in Indices : TierKeepsDraft(R, i)}]
         IN  /\ hit' = found
             /\ gpu' = [s \in Systems |->
                          Registered(Loaded(seen[s], c, h[s]),
                                     c, p, h[s], n, points[s], drafts[s])]
             /\ tier' = [s \in Systems |->
                           Stored(tier[s], c, p, h[s], tierPoints[s], tierDrafts[s])]

(* The GPU cache is lost: a restart, or other requests' blocks.            *)
Flush ==
    /\ attn # {}
    /\ attn' = {}
    /\ gpu' = [s \in Systems |-> [state |-> {}, draft |-> {}, receipt |-> {}]]
    /\ UNCHANGED <<prompt, stored, tier, hit, turns>>

Next ==
    \/ \E c \in Convs, p \in 1 .. MaxPrompt, a \in 0 .. MaxOutput,
          repeats \in BOOLEAN, j \in {0, SystemPrompt} : Turn(c, p, p + a, repeats, j)
    \/ Flush

Spec == Init /\ [][Next]_vars

(* What the retention leaves out is never missed: a turn of a conversation *)
(* resumes where it would if every checkpoint had been kept, whether it    *)
(* finds them on the GPU or in the tier, and so does the first turn of a   *)
(* conversation behind a system prompt that another has brought in.        *)
NoHitLost == hit["thin"] = hit["dense"]
=============================================================================
