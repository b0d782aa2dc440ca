-------------------------- MODULE CanonicalChunks ---------------------------
(***************************************************************************)
(* Canonical prefill chunks: the scheduler and KV-cache-manager patches    *)
(* that make a prefill which resumes from a prefix hit compute exactly     *)
(* what a cold prefill computes.  A block's KV depends on the chunk it was *)
(* computed in, so only blocks of full chunks [kS, (k+1)S) that ran alone  *)
(* (or beside speculative decodes only) may be cached, and only such       *)
(* blocks may be read back.                                                *)
(*                                                                         *)
(* Every request's prompt is a prefix of one token stream, so block i of   *)
(* one request has the hash of block i of every other.  One schedule()     *)
(* call is a pass: Begin, one action per request visited, Settle.  Blocks  *)
(* registered during a pass are in the cache when it ends: the Mamba       *)
(* manager keeps the same pass from hitting them.                          *)
(***************************************************************************)
EXTENDS Integers, FiniteSets

CONSTANTS
    Requests,    \* request slots; a slot is used again after Leave
    Prompt,      \* num_prompt_tokens of each slot's requests
    Block,       \* block_size, in tokens
    Budget,      \* max_num_scheduled_tokens
    Threshold,   \* long_prefill_token_threshold, 0 for none
    MaxDrafts,   \* most draft tokens of a decode
    Mixed,       \* RADIANCE_CANON_MIXED
    Receipts,    \* RADIANCE_CANON_RECEIPTS
    Wait,        \* RADIANCE_CANON_WAIT
    WaitMax,     \* RADIANCE_CANON_WAIT_MAX
    MaxOutput,   \* bound: tokens counted of a request's output
    LastBlock,   \* bound: the last block any request fills
    MaxFaults    \* bound: preemptions, evictions and failed loads

ASSUME RequestAssumption == IsFiniteSet(Requests) /\ Prompt \in [Requests -> Nat \ {0}]
ASSUME SizeAssumption ==
    /\ Block \in Nat \ {0} /\ Budget \in Nat /\ Threshold \in Nat
    /\ Budget >= Block /\ (Threshold > 0 => Threshold >= Block)
    /\ MaxDrafts \in Nat /\ WaitMax \in Nat /\ MaxOutput \in Nat /\ MaxFaults \in Nat
    /\ LastBlock \in Nat /\ \A r \in Requests : Prompt[r] + MaxOutput < (LastBlock + 2) * Block
ASSUME GateAssumption == Mixed \in BOOLEAN /\ Receipts \in BOOLEAN /\ Wait \in BOOLEAN

Least(a, b) == IF a <= b THEN a ELSE b
FloorTo(n, g) == (n \div g) * g

\* The chunk a cold prefill takes: _radiance_cold_grid_stop(0).
Grid == FloorTo(IF Threshold > 0 THEN Least(Budget, Threshold) ELSE Budget, Block)

\* With a budget above the grid a full chunk can share its step, so whether it
\* is canonical is settled at the end of the pass.
Defer == Budget > Grid

VARIABLES
    status,    \* "idle", "waiting", "loading", "ready" (loaded) or "running"
    ahead,     \* the requests ahead of each in the waiting queue
    length,    \* num_tokens: the prompt and the tokens generated so far
    computed,  \* num_computed_tokens
    canonEnd,  \* _radiance_canon_end, Unset before the first allocation
    pending,   \* _radiance_canon_pending: the deferred target, 0 for None
    waits,     \* _radiance_waits
    nMain,     \* num_cached_block of the target model's group
    nDraft,    \* num_cached_block of the drafter's (EAGLE) group
    exact,     \* history: tokens whose KV equals a cold prefill's
    phase,     \* "idle", or the queue schedule() is going through
    left,      \* token_budget
    plan,      \* num_scheduled_tokens, 0 for a request not scheduled
    drafts,    \* length of scheduled_spec_decode_tokens
    visited,   \* requests this pass has been through
    preempted, \* whether this pass preempted a request
    main,      \* cached blocks of the target group, with a history: are they exact
    draft,     \* the same for the drafter's group
    receipt,   \* the drafter group's receipt-only blocks
    tier,      \* blocks in the offload tiers, with the same history
    faults     \* environment faults so far

progress == <<status, ahead, length, computed, exact>>
canon == <<canonEnd, pending, waits, nMain, nDraft>>
pass == <<phase, left, plan, drafts, visited, preempted>>
cache == <<main, draft, receipt, tier>>
vars == <<progress, canon, pass, cache, faults>>

Unset == -1
Longest(r) == Prompt[r] + MaxOutput
Blocks == 0..LastBlock

TypeOK ==
    /\ status \in [Requests -> {"idle", "waiting", "loading", "ready", "running"}]
    /\ ahead \in [Requests -> SUBSET Requests]
    /\ length \in [Requests -> Nat] /\ computed \in [Requests -> Nat]
    /\ exact \in [Requests -> Nat]
    /\ canonEnd \in [Requests -> Nat \cup {Unset}] /\ pending \in [Requests -> Nat]
    /\ waits \in [Requests -> 0..WaitMax]
    /\ nMain \in [Requests -> Nat] /\ nDraft \in [Requests -> Nat]
    /\ phase \in {"idle", "running", "waiting", "settle"}
    /\ left \in 0..Budget
    /\ plan \in [Requests -> 0..Budget] /\ drafts \in [Requests -> 0..MaxDrafts]
    /\ visited \subseteq Requests /\ preempted \in BOOLEAN
    /\ main \subseteq Blocks \X BOOLEAN /\ draft \subseteq Blocks \X BOOLEAN
    /\ tier \subseteq Blocks \X BOOLEAN /\ receipt \subseteq Blocks
    /\ faults \in 0..MaxFaults

Zero == [r \in Requests |-> 0]

Init ==
    /\ status = [r \in Requests |-> "idle"]
    /\ ahead = [r \in Requests |-> {}]
    /\ length = Prompt /\ computed = Zero /\ exact = Zero
    /\ canonEnd = [r \in Requests |-> Unset] /\ pending = Zero /\ waits = Zero
    /\ nMain = Zero /\ nDraft = Zero
    /\ phase = "idle" /\ left = 0 /\ plan = Zero /\ drafts = Zero
    /\ visited = {} /\ preempted = FALSE
    /\ main = {} /\ draft = {} /\ receipt = {} /\ tier = {}
    /\ faults = 0

-----------------------------------------------------------------------------
(* How long a chunk is.                                                     *)

\* The stops _mamba_block_aligned_split ends a chunk at: the last cacheable
\* position (one block early, for the drafter), the prompt's last full block,
\* and the next end of the cold grid.
Stops(r, start) ==
    {FloorTo(length[r], Block) - Block, FloorTo(length[r], Block),
     (start \div Grid + 1) * Grid}

Offered(r, start) ==
    LET rest == Least(length[r] - start, left)
    IN  IF Threshold > 0 THEN Least(rest, Threshold) ELSE rest

\* Where the chunk that starts at start would end.
ChunkEnd(r, start) ==
    LET asked == start + Offered(r, start)
        end == IF asked < length[r] THEN FloorTo(asked, Block) ELSE asked
        inside == {s \in Stops(r, start) : start < s /\ s < end}
    IN  IF inside = {} THEN end ELSE CHOOSE s \in inside : \A t \in inside : s <= t

\* patch_canon_wait.py: the budget cuts a canonical chunk below a grid chunk.
CutShort(r, start) ==
    /\ Wait
    /\ Offered(r, start) < Grid
    /\ start < ChunkEnd(r, start)
    /\ start % Grid = 0
    /\ start + Grid <= Prompt[r]
    /\ canonEnd[r] \in {Unset, start}

\* Mutant: no cap on the waits.
BugWaits(r, start) == CutShort(r, start)

Waits(r, start) == CutShort(r, start) /\ waits[r] < WaitMax

\* The tokens the split hands out.
Chunk(r, start) ==
    IF Waits(r, start) \/ ChunkEnd(r, start) < start THEN 0 ELSE ChunkEnd(r, start) - start

\* Mutant: the count is reset on every call.
BugNextWaits(r, start) == 0

NextWaits(r, start) ==
    IF ~Wait THEN waits[r] ELSE IF Waits(r, start) THEN waits[r] + 1 ELSE 0

-----------------------------------------------------------------------------
(* allocate_slots: track the run of full grid chunks.                       *)

\* Mutant: a preempted request keeps its canonical end.
BugTracked(r, total) == IF canonEnd[r] = Unset THEN FloorTo(total, Grid) ELSE canonEnd[r]

\* A new request, or one set back below its canonical end, starts from where
\* it resumes.
Tracked(r, total) ==
    IF canonEnd[r] = Unset \/ total < canonEnd[r] THEN FloorTo(total, Grid) ELSE canonEnd[r]

FullChunk(r, total, n) ==
    /\ total = Tracked(r, total)
    /\ n = Grid
    /\ Tracked(r, total) + Grid <= Prompt[r]

AllocateSlots(r, total, n) ==
    IF FullChunk(r, total, n) /\ Defer
      THEN /\ canonEnd' = [canonEnd EXCEPT ![r] = Tracked(r, total)]
           /\ pending' = [pending EXCEPT ![r] = total + Grid]
      ELSE /\ canonEnd' = [canonEnd EXCEPT ![r] =
                             Tracked(r, total) + IF FullChunk(r, total, n) THEN Grid ELSE 0]
           /\ UNCHANGED pending

Take(r, n, d) ==
    /\ left' = left - n
    /\ plan' = [plan EXCEPT ![r] = n]
    /\ drafts' = [drafts EXCEPT ![r] = d]

-----------------------------------------------------------------------------
(* Prefix hits.                                                             *)

CachedIn(copies) == {c[1] : c \in copies}
InexactIn(copies) == {c[1] : c \in {d \in copies : ~d[2]}}
Upto(n) == {i \in Blocks : (i + 1) * Block <= n}

\* The lengths find_longest_cache_hit can return: the target group's blocks
\* are cached, and so are the drafter's, which needs one block more, the one
\* it drops.  A shorter answer stands for a missing Mamba state.
Findable(r) ==
    {0} \cup {h \in {i * Block : i \in Blocks} :
        /\ h + Block <= length[r] - 1
        /\ Upto(h) \subseteq CachedIn(main)
        /\ Upto(h + Block) \subseteq CachedIn(draft) \cup receipt}

\* Mutant: a receipt may be read as KV.
BugHitCap(h) == FloorTo(h, Grid)

\* _radiance_hit_cap: on the grid, and before any receipt read as KV.  A
\* canonical copy under the same hash is found first.
HitCap(h) ==
    LET read == (receipt \ CachedIn(draft)) \cap Upto(h)
        first == CHOOSE i \in read : \A k \in read : i <= k
    IN  FloorTo(IF read = {} THEN h ELSE first * Block, Grid)

\* What get_computed_blocks can return: it asks again below the cap until the
\* hit is within its cap.
Hits(r) == {h \in Findable(r) : HitCap(h) >= h}

\* The KV read by a hit is exact up to its end, or not at all.
HitExact(h) ==
    LET bad == InexactIn(main) \cup InexactIn(draft) \cup (receipt \ CachedIn(draft))
    IN  IF Upto(h) \cap bad = {} THEN h ELSE 0

\* The external hits that are not refused: they end on the grid.
External(r, h) ==
    {e \in {i * Block : i \in Blocks} :
        /\ e > 0 /\ h + e <= length[r] - 1
        /\ Upto(h + e) \ Upto(h) \subseteq CachedIn(tier)
        /\ (h + e) % Grid = 0}

LoadExact(h, e) ==
    IF HitExact(h) = h /\ (Upto(h + e) \ Upto(h)) \cap InexactIn(tier) = {} THEN h + e ELSE 0

-----------------------------------------------------------------------------
(* The waiting queue: first come, first served; a preempted request goes to *)
(* its front, and a request that is being loaded is passed over.            *)

Queued == {q \in Requests : status[q] \in {"waiting", "loading", "ready"}}
Dequeue(r) == ahead' = [q \in Requests |-> IF q = r THEN {} ELSE ahead[q] \ {r}]
PutBack(r) ==
    ahead' = [q \in Requests |-> IF q = r THEN {} ELSE IF q \in Queued THEN ahead[q] \cup {r} ELSE {}]

-----------------------------------------------------------------------------
(* One schedule() call.                                                     *)

Begin ==
    /\ phase = "idle"
    /\ phase' = "running" /\ left' = Budget
    /\ plan' = Zero /\ drafts' = Zero /\ visited' = {} /\ preempted' = FALSE
    /\ UNCHANGED <<progress, canon, cache, faults>>

Visit(r) == visited' = visited \cup {r}

RunningTurn(r) ==
    phase = "running" /\ left > 0 /\ status[r] = "running" /\ r \notin visited

\* A running prefill takes its chunk, or waits, or cannot be block-aligned.
Prefill(r) ==
    LET n == Chunk(r, computed[r])
    IN  /\ RunningTurn(r) /\ computed[r] < length[r]
        /\ Visit(r)
        /\ waits' = [waits EXCEPT ![r] = NextWaits(r, computed[r])]
        /\ IF n = 0 THEN UNCHANGED <<left, plan, drafts, canonEnd, pending>>
           ELSE AllocateSlots(r, computed[r], n) /\ Take(r, n, 0)
        /\ UNCHANGED <<progress, nMain, nDraft, phase, preempted, cache, faults>>

\* A running decode takes one token and its drafts, as far as the budget goes.
Decode(r) ==
    /\ RunningTurn(r) /\ computed[r] = length[r]
    /\ Visit(r)
    /\ \E d \in 0..MaxDrafts :
         LET n == Least(d + 1, left)
         IN  AllocateSlots(r, computed[r], n) /\ \E k \in {d, n - 1} : Take(r, n, k)
    /\ UNCHANGED <<progress, waits, nMain, nDraft, phase, preempted, cache, faults>>

\* allocate_slots found no block: a running request loses its blocks and its
\* place in this pass.
Preempt(r) ==
    /\ phase = "running" /\ left > 0 /\ status[r] = "running" /\ faults < MaxFaults
    /\ faults' = faults + 1
    /\ status' = [status EXCEPT ![r] = "waiting"]
    /\ computed' = [computed EXCEPT ![r] = 0]
    /\ exact' = [exact EXCEPT ![r] = 0]
    /\ nMain' = [nMain EXCEPT ![r] = 0] /\ nDraft' = [nDraft EXCEPT ![r] = 0]
    /\ left' = left + plan[r]
    /\ plan' = [plan EXCEPT ![r] = 0] /\ drafts' = [drafts EXCEPT ![r] = 0]
    /\ Visit(r) /\ PutBack(r) /\ preempted' = TRUE
    /\ UNCHANGED <<length, canonEnd, pending, waits, phase, cache>>

\* The waiting queue is served unless this pass preempted.
EndRunning ==
    /\ phase = "running"
    /\ left = 0 \/ \A r \in Requests : ~RunningTurn(r)
    /\ phase' = IF preempted THEN "settle" ELSE "waiting"
    /\ UNCHANGED <<progress, canon, left, plan, drafts, visited, preempted, cache, faults>>

WaitingTurn(r) ==
    /\ phase = "waiting" /\ left > 0
    /\ status[r] \in {"waiting", "ready"} /\ r \notin visited
    /\ \A q \in ahead[r] : q \in visited \/ status[q] = "loading"

\* Schedule a waiting request from start, or end the pass at the first chunk
\* that waits or cannot be block-aligned.
Schedule(r, start, good) ==
    LET n == Chunk(r, start)
    IN  /\ waits' = [waits EXCEPT ![r] = NextWaits(r, start)]
        /\ IF n = 0
             THEN /\ phase' = "settle"
                  /\ UNCHANGED <<progress, canonEnd, pending, nMain, nDraft,
                                 left, plan, drafts, visited>>
             ELSE /\ AllocateSlots(r, start, n) /\ Take(r, n, 0) /\ Visit(r) /\ Dequeue(r)
                  /\ status' = [status EXCEPT ![r] = "running"]
                  /\ computed' = [computed EXCEPT ![r] = start]
                  /\ exact' = [exact EXCEPT ![r] = good]
                  /\ nMain' = [nMain EXCEPT ![r] = start \div Block]
                  /\ nDraft' = [nDraft EXCEPT ![r] = start \div Block]
                  /\ UNCHANGED <<length, phase>>
        /\ UNCHANGED <<preempted, cache, faults>>

Admit(r) ==
    /\ WaitingTurn(r) /\ status[r] = "waiting"
    /\ \E h \in Hits(r) : Schedule(r, h, HitExact(h))

\* A loaded request is not looked up again.
AdmitLoaded(r) ==
    /\ WaitingTurn(r) /\ status[r] = "ready"
    /\ Schedule(r, computed[r], exact[r])

\* An external hit: blocks are allocated for it and loaded out of the pass.
StartLoad(r) ==
    /\ WaitingTurn(r) /\ status[r] = "waiting"
    /\ \E h \in Hits(r) : \E e \in External(r, h) :
         /\ AllocateSlots(r, h + e, 0)
         /\ computed' = [computed EXCEPT ![r] = h + e]
         /\ exact' = [exact EXCEPT ![r] = LoadExact(h, e)]
         /\ nMain' = [nMain EXCEPT ![r] = h \div Block]
         /\ nDraft' = [nDraft EXCEPT ![r] = h \div Block]
    /\ status' = [status EXCEPT ![r] = "loading"]
    /\ Visit(r)
    /\ UNCHANGED <<ahead, length, waits, phase, left, plan, drafts, preempted, cache, faults>>

\* The queue or the budget is used up, or allocate_slots finds no block.
EndWaiting ==
    /\ phase = "waiting"
    /\ \/ UNCHANGED faults
          /\ \A r \in Requests : ~WaitingTurn(r)
       \/ faults < MaxFaults /\ faults' = faults + 1
    /\ phase' = "settle"
    /\ UNCHANGED <<progress, canon, left, plan, drafts, visited, preempted, cache>>

-----------------------------------------------------------------------------
(* The end of the pass.                                                     *)

Scheduled == {r \in Requests : plan[r] > 0}
SpecDecode(q) == drafts[q] > 0 /\ plan[q] = drafts[q] + 1

\* Mutant: any decode is company a canonical chunk may keep.
BugAccepted(r) ==
    Scheduled = {r} \/ (Mixed /\ \A q \in Scheduled \ {r} : computed[q] = length[q])

\* What _radiance_settle_canon accepts.
Accepted(r) ==
    Scheduled = {r} \/ (Mixed /\ \A q \in Scheduled \ {r} : SpecDecode(q))

Settled(r) ==
    IF /\ pending[r] > 0 /\ plan[r] = Grid
       /\ Accepted(r) /\ canonEnd[r] = pending[r] - Grid
      THEN pending[r] ELSE canonEnd[r]

\* The definition the code is measured against: a chunk computes what a cold
\* prefill computes if it is a grid chunk over exact KV, alone or beside
\* speculative decodes only.
ExactAfter(r) ==
    IF /\ computed[r] < length[r] /\ exact[r] = computed[r]
       /\ computed[r] % Grid = 0 /\ plan[r] = Grid
       /\ \A q \in Scheduled \ {r} : SpecDecode(q)
      THEN computed[r] + Grid ELSE exact[r]

\* The blocks r registers: full blocks up to its canonical end that it has not
\* registered yet, and one receipt of the drafter past it.
NewBlocks(r, n, ce, upto) == Upto(Least(upto, ce)) \ Upto(n * Block)
Copies(r, n, ce, upto, ex) ==
    {<<i, (i + 1) * Block <= ex>> : i \in NewBlocks(r, n, ce, upto)}
NewReceipts(r, ce, upto) ==
    IF Receipts /\ ce > 0
      THEN Upto(Least(upto, ce + Block)) \ (Upto(ce) \cup Upto(nDraft[r] * Block))
      ELSE {}

ReceiptRoom(ce) == IF Receipts /\ ce > 0 THEN Block ELSE 0

\* A decode yields one token and the drafts that are accepted.  Past MaxOutput
\* it goes on, but its tokens are not counted.
Decoded(r, made) ==
    IF computed[r] < length[r] \/ r \notin Scheduled THEN made = 0
    ELSE \E k \in 1..plan[r] : made = Least(k, Longest(r) - length[r])

Bigger(a, b) == IF a >= b THEN a ELSE b

Settle ==
    LET upto(r) == Least(computed[r] + plan[r], length[r])
        fresh == UNION {Copies(r, nMain[r], Settled(r), upto(r), ExactAfter(r)) : r \in Scheduled}
        freshD == UNION {Copies(r, nDraft[r], Settled(r), upto(r), ExactAfter(r)) : r \in Scheduled}
        slips == UNION {NewReceipts(r, Settled(r), upto(r)) : r \in Scheduled}
        had(r, n, extra) == IF r \in Scheduled
                              THEN Bigger(n, Least(upto(r), Settled(r) + extra) \div Block)
                              ELSE n
    IN  /\ phase = "settle"
        /\ phase' = "idle"
        /\ canonEnd' = [r \in Requests |-> Settled(r)]
        /\ pending' = Zero
        /\ main' = main \cup fresh
        /\ draft' = draft \cup freshD
        /\ receipt' = (receipt \ CachedIn(freshD)) \cup slips
        /\ nMain' = [r \in Requests |-> had(r, nMain[r], 0)]
        /\ nDraft' = [r \in Requests |->
                        had(r, nDraft[r], ReceiptRoom(Settled(r)))]
        /\ exact' = [r \in Requests |-> ExactAfter(r)]
        /\ \E made \in [Requests -> 0..MaxDrafts + 1] :
             /\ \A r \in Requests : Decoded(r, made[r])
             /\ length' = [r \in Requests |-> length[r] + made[r]]
             /\ computed' = [r \in Requests |->
                  IF computed[r] = length[r] THEN computed[r] + made[r]
                  ELSE computed[r] + plan[r]]
        /\ plan' = Zero /\ drafts' = Zero /\ visited' = {} /\ left' = 0 /\ preempted' = FALSE
        /\ UNCHANGED <<status, ahead, waits, tier, faults>>

-----------------------------------------------------------------------------
(* Between passes.                                                          *)

Between == phase = "idle" /\ UNCHANGED <<pass, waits, pending>>

Arrive(r) ==
    /\ Between /\ status[r] = "idle"
    /\ status' = [status EXCEPT ![r] = "waiting"]
    /\ ahead' = [ahead EXCEPT ![r] = Queued]
    /\ UNCHANGED <<length, computed, exact, canonEnd, nMain, nDraft, cache, faults>>

\* The request finishes or is aborted; the slot's next request is a new one.
Leave(r) ==
    /\ phase = "idle" /\ status[r] \in {"running", "waiting"}
    /\ status' = [status EXCEPT ![r] = "idle"] /\ Dequeue(r)
    /\ length' = [length EXCEPT ![r] = Prompt[r]]
    /\ computed' = [computed EXCEPT ![r] = 0] /\ exact' = [exact EXCEPT ![r] = 0]
    /\ canonEnd' = [canonEnd EXCEPT ![r] = Unset] /\ waits' = [waits EXCEPT ![r] = 0]
    /\ nMain' = [nMain EXCEPT ![r] = 0] /\ nDraft' = [nDraft EXCEPT ![r] = 0]
    /\ UNCHANGED <<pending, pass, cache, faults>>

\* The worker reports a load; keep tokens of it are valid.  cache_blocks
\* registers them, up to the canonical end, and the receipt after it: a
\* resumed request may load past a canonical end it reached before.
LoadEnds(r, keep) ==
    /\ Between /\ status[r] = "loading"
    /\ computed' = [computed EXCEPT ![r] = keep]
    /\ exact' = [exact EXCEPT ![r] = Least(@, keep)]
    /\ LET fresh(n) == Copies(r, n, canonEnd[r], keep, exact[r])
       IN  /\ main' = main \cup fresh(nMain[r])
           /\ draft' = draft \cup fresh(nDraft[r])
           /\ receipt' = (receipt \ CachedIn(fresh(nDraft[r]))) \cup NewReceipts(r, canonEnd[r], keep)
    /\ LET had(n, extra) == Bigger(n, Least(keep, canonEnd[r] + extra) \div Block)
       IN  /\ nMain' = [nMain EXCEPT ![r] = had(@, 0)]
           /\ nDraft' = [nDraft EXCEPT ![r] = had(@, ReceiptRoom(canonEnd[r]))]
    /\ status' = [status EXCEPT ![r] = IF keep = 0 THEN "waiting" ELSE "ready"]
    /\ UNCHANGED <<ahead, length, canonEnd, tier>>

FinishLoad(r) == LoadEnds(r, computed[r]) /\ UNCHANGED faults

\* A failed load keeps the blocks before the first invalid one.
FailLoad(r) ==
    /\ faults < MaxFaults /\ faults' = faults + 1
    /\ \E i \in Blocks : i * Block < computed[r] /\ LoadEnds(r, i * Block)

\* _calc_num_offloadable_tokens.
Offloadable(r) == Upto(Least(computed[r], canonEnd[r]))

Store(r) ==
    /\ Between /\ status[r] = "running"
    /\ \E i \in Offloadable(r) : tier' = tier \cup {<<i, (i + 1) * Block <= exact[r]>>}
    /\ UNCHANGED <<progress, canonEnd, nMain, nDraft, main, draft, receipt, faults>>

\* The block pool takes a cached block for something else, or a tier drops one.
Evict ==
    /\ Between /\ faults < MaxFaults /\ faults' = faults + 1
    /\ \/ \E c \in main : main' = main \ {c} /\ UNCHANGED <<draft, receipt, tier>>
       \/ \E c \in draft : draft' = draft \ {c} /\ UNCHANGED <<main, receipt, tier>>
       \/ \E i \in receipt : receipt' = receipt \ {i} /\ UNCHANGED <<main, draft, tier>>
       \/ \E c \in tier : tier' = tier \ {c} /\ UNCHANGED <<main, draft, receipt>>
    /\ UNCHANGED <<progress, canonEnd, nMain, nDraft>>

-----------------------------------------------------------------------------
Turn(r) == Prefill(r) \/ Decode(r) \/ Admit(r) \/ AdmitLoaded(r) \/ StartLoad(r)
Engine == Begin \/ (\E r \in Requests : Turn(r)) \/ EndRunning \/ EndWaiting \/ Settle
Request(r) == Arrive(r) \/ Leave(r) \/ FinishLoad(r) \/ FailLoad(r) \/ Store(r)

Next == Engine \/ Evict \/ \E r \in Requests : Preempt(r) \/ Request(r)

\* The engine core runs passes as long as a request is unfinished; between two
\* passes it takes in the loads that ended, and every load ends.
Fairness == WF_vars(Engine) /\ \A r \in Requests : SF_vars(FinishLoad(r))

Spec == Init /\ [][Next]_vars
FairSpec == Spec /\ Fairness

-----------------------------------------------------------------------------
(* Properties.                                                              *)

\* Every block a later request can read as KV, from the GPU prefix cache or
\* from a tier, equals a cold prefill's, however its writer was batched,
\* preempted, resumed or loaded (patch_sched_canonical_chunks.py: cached ==
\* uncached).
OnlyExactCached == InexactIn(main) \cup InexactIn(draft) \cup InexactIn(tier) = {}

\* A request resumes from KV that is exact up to where it resumes: it reads no
\* receipt, and no block of an earlier turn's tail (patch_canon_receipts.py).
\* Unless a load failed, it resumes on the cold grid.
ResumesExact ==
    [][\A r \in Requests :
          status[r] \in {"waiting", "ready"} /\ status'[r] \in {"loading", "running"}
              => /\ exact'[r] = computed'[r]
                 /\ status[r] = "waiting" => computed'[r] % Grid = 0]_vars

\* Between passes the canonical end of a request with blocks is on the grid
\* and covers only KV that is exact.
CanonEndExact ==
    \A r \in Requests :
        phase = "idle" /\ status[r] \in {"loading", "ready", "running"}
            => /\ canonEnd[r] >= 0 /\ canonEnd[r] % Grid = 0
               /\ Least(canonEnd[r], computed[r]) <= exact[r]

\* A prefill of a grid chunk or more completes or its client leaves, however
\* often its chunk is cut short by other requests (patch_canon_wait.py: a wait
\* only delays work).  A shorter one never waits.
PrefillCompletes ==
    \A r \in {q \in Requests : Prompt[q] >= Grid} :
        status[r] = "waiting" ~> (status[r] = "idle" \/ computed[r] >= Prompt[r])
=============================================================================
