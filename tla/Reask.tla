------------------------------- MODULE Reask -------------------------------
(***************************************************************************)
(* A request waits in the queue of a hybrid model's scheduler, and each    *)
(* step looks up how much of its prompt is cached: in attention blocks and *)
(* in recurrent states on the GPU, and in the offload tier.  Where the GPU *)
(* has the longer attention prefix but no state along it, the stock        *)
(* scheduler falls back to the boundary both agree on;                     *)
(* kv-cache/patch_reconcile_reask.py then asks the tier again from there,  *)
(* and lets the request wait a bounded time for a store that is landing.   *)
(*                                                                         *)
(* The rest of the world is one action: the GPU's and the tier's contents  *)
(* change between two steps in any way, a bounded number of times.         *)
(***************************************************************************)
EXTENDS Naturals

CONSTANTS Prompt,        \* tokens of the prompt
          BlockSize,
          MinDrop,       \* RADIANCE_REASK_MIN_DROP_BLOCKS
          MaxDefer,      \* RADIANCE_REASK_MAX_DEFER_S, in ticks
          MaxChanges,    \* bound on the changes of the caches and on refusals
          None           \* no clock runs

ReaskSettings ==
    /\ Prompt \in Nat /\ BlockSize \in Nat \ {0} /\ MinDrop \in Nat
    /\ MaxDefer \in Nat /\ MaxChanges \in Nat /\ None \notin Nat

VARIABLES st,        \* of the request: waiting, running or done
          t0,        \* _radiance_rr_defer_t0, as the ticks since then
          gaveUp,    \* _radiance_rr_gave_up
          attn,      \* tokens the GPU has attention blocks for
          state,     \* the boundary every group on the GPU agrees on
          beyond,    \* what the tier has from attn on
          below,     \* what the tier has from state on
          parked,    \* ticks since it was first deferred, in this wait
          waited,    \* whether a wait of it has used up the budget
          changes

request == <<st, t0, gaveUp>>
caches == <<attn, state, beyond, below, changes>>
vars == <<request, caches, parked, waited>>

Tier == {"absent", "landing", "stored"}

(* A count of ticks that stops when it is past the budget.                 *)
Elapsed == 0 .. MaxDefer + 1 \cup {None}
Later(t) == IF t = None \/ t > MaxDefer THEN t ELSE t + 1

Init ==
    /\ st = "waiting"
    /\ t0 = None /\ gaveUp = FALSE
    /\ attn \in {n \in 0 .. Prompt : n % BlockSize = 0}
    /\ state \in 0 .. attn
    /\ beyond \in Tier /\ below \in Tier
    /\ parked = None /\ waited = FALSE
    /\ changes = 0

(* It is given its blocks, or there are none and it goes on waiting.       *)
Admit ==
    /\ parked' = None
    /\ UNCHANGED caches
    /\ st' = "running"

Refuse ==
    /\ changes < MaxChanges /\ changes' = changes + 1
    /\ parked' = None
    /\ UNCHANGED <<st, attn, state, beyond, below>>

Allocate == Admit \/ Refuse

-----------------------------------------------------------------------------
(* One look at the waiting request, by what the lookups say.               *)

(* The tier has more of the prompt, or every group has as much.            *)
Straight ==
    /\ st = "waiting"
    /\ beyond = "stored" \/ (beyond = "absent" /\ state = attn)
    /\ Allocate
    /\ UNCHANGED <<t0, gaveUp, waited>>

Fallback == st = "waiting" /\ beyond = "absent" /\ state < attn

Asks == attn - state >= MinDrop * BlockSize /\ state % BlockSize = 0

(* The drop is the normal one of a turn, or ends in a block.               *)
StockFallback ==
    /\ Fallback /\ ~Asks
    /\ Allocate
    /\ UNCHANGED <<t0, gaveUp, waited>>

Spent == gaveUp \/ (t0 # None /\ t0 > MaxDefer)

(* It recomputes, and will not wait again.                                 *)
GiveUp ==
    /\ Fallback /\ Asks /\ Spent
    /\ Allocate
    /\ gaveUp' = TRUE /\ t0' = None
    /\ UNCHANGED waited

(* The tier has it, or it has not.                                         *)
Answered ==
    /\ Fallback /\ Asks /\ ~Spent
    /\ below # "landing"
    /\ Allocate
    /\ t0' = None
    /\ UNCHANGED <<gaveUp, waited>>

\* Mutant: every deferral starts the clock.
BugStarted == 0

Started == IF t0 = None THEN 0 ELSE t0

(* A store is landing: not in this step.                                   *)
Defer ==
    /\ Fallback /\ Asks /\ ~Spent
    /\ below = "landing"
    /\ t0' = Started
    /\ parked' = IF parked = None THEN 0 ELSE parked
    /\ UNCHANGED <<st, gaveUp, caches, waited>>

(* The connector raises; the stock behaviour.                              *)
Raises ==
    /\ Fallback /\ Asks /\ ~Spent
    /\ Allocate
    /\ UNCHANGED <<t0, gaveUp, waited>>

Look == Straight \/ StockFallback \/ GiveUp \/ Answered \/ Defer

-----------------------------------------------------------------------------
(* It loses its blocks and is looked up again.                             *)
Preempt ==
    /\ st = "running"
    /\ st' = "waiting"
    /\ UNCHANGED <<t0, gaveUp, caches, parked, waited>>

Finish ==
    /\ st = "running"
    /\ st' = "done"
    /\ UNCHANGED <<t0, gaveUp, caches, parked, waited>>

Tick ==
    /\ t0' = Later(t0) /\ parked' = Later(parked)
    /\ waited' = (waited \/ (parked' # None /\ parked' > MaxDefer))
    /\ UNCHANGED <<st, gaveUp, caches>>

(* Other requests compute, evict, store; stores land or fail.              *)
Change ==
    /\ changes < MaxChanges
    /\ changes' = changes + 1
    /\ attn' \in {n \in 0 .. Prompt : n % BlockSize = 0}
    /\ state' \in 0 .. attn'
    /\ beyond' \in Tier /\ below' \in Tier
    /\ UNCHANGED <<request, parked, waited>>

(* What the stock scheduler waits for lands.                               *)
Land ==
    /\ beyond = "landing"
    /\ beyond' \in {"absent", "stored"}
    /\ UNCHANGED <<request, attn, state, below, changes, parked, waited>>

Next == Look \/ Raises \/ Preempt \/ Finish \/ Tick \/ Change \/ Land

Spec == Init /\ [][Next]_vars

(* Steps go on, time passes, and a store that the stock scheduler waits    *)
(* for lands.  Nothing says so of the one that the re-ask waits for, and   *)
(* no step need raise.                                                     *)
FairSpec == Spec /\ WF_vars(Look) /\ WF_vars(Tick) /\ WF_vars(Land)

TypeOK ==
    /\ st \in {"waiting", "running", "done"}
    /\ t0 \in Elapsed /\ parked \in Elapsed
    /\ gaveUp \in BOOLEAN /\ waited \in BOOLEAN
    /\ attn \in 0 .. Prompt /\ state \in 0 .. attn
    /\ beyond \in Tier /\ below \in Tier
    /\ changes \in 0 .. MaxChanges

(* A pending store can never park a request.                               *)
NeverParked == (st = "waiting") ~> (st # "waiting")

(* A request that never waits on the tier again has waited out the budget  *)
(* once (patch_reconcile_reask.py:145).                                    *)
GaveUpHasWaited == gaveUp => waited
=============================================================================
