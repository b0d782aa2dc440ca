------------------------------- MODULE KvReap -------------------------------
(***************************************************************************)
(* Eviction for the disk tier of the KV cache: kvcache-reap.sh, run from a *)
(* timer, against the engine that stores block files.  A block is          *)
(* abstracted to its age in ticks of MIN_AGE_MIN's unit, which stops at    *)
(* Ancient; the volume holds nothing but blocks, one unit each.            *)
(***************************************************************************)
EXTENDS Integers, FiniteSets

CONSTANTS
    Blocks,        \* block files the engine may store
    Target,        \* TARGET_PCT, in blocks
    Emergency,     \* EMERGENCY_PCT, in blocks (0 = never)
    MinAge,        \* MIN_AGE_MIN
    SpareAge,      \* EMERGENCY_MIN_AGE_MIN
    MaxAge,        \* MAX_AGE_HOURS, in the same unit (0 = age rule off)
    MaxDelete,     \* MAX_DELETE
    Batch,         \* deletions between two reads of df (200)
    Ancient,       \* ages are not told apart from here on
    Stores,        \* bound: blocks the engine stores
    Damages        \* bound: files the engine finds bad and deletes

\* What the settings are, in every run and in every theorem.
ReapSettings ==
    /\ Target \in Nat /\ Emergency \in Nat /\ MaxAge \in Nat /\ MaxDelete \in Nat
    /\ MinAge \in Nat /\ SpareAge \in Nat /\ Batch \in Nat \ {0}
    /\ Ancient \in Nat /\ Ancient > MinAge /\ Ancient > SpareAge /\ Ancient > MaxAge
    /\ Stores \in Nat /\ Damages \in Nat
    /\ MaxAge > 0 => MinAge < MaxAge      \* it refuses to run otherwise

VARIABLES
    present,   \* the block files on the volume
    age,       \* how long ago each was stored
    stage,     \* where the run is
    list,      \* the blocks the stage's find has listed and the loop has not taken
    order,     \* their ages when they were listed
    removed,   \* deletions of the run
    aged,      \* those of Stage A
    stored,    \* blocks stored
    damaged    \* bad files deleted by the engine

run == <<stage, list, order, removed, aged>>
reapVars == <<present, age, run, stored, damaged>>

Ages == 0..Ancient

ReapTypeOK ==
    /\ present \in SUBSET Blocks
    /\ age \in [Blocks -> Ages]
    /\ stage \in {"off", "A", "B", "C", "end"}
    /\ list \in SUBSET Blocks
    /\ order \in [Blocks -> Ages]
    /\ removed \in 0..MaxDelete
    /\ aged \in 0..MaxDelete
    /\ stored \in 0..Stores
    /\ damaged \in 0..Damages

ReapInit ==
    /\ present = {}
    /\ age = [b \in Blocks |-> 0]
    /\ stage = "off"
    /\ list = {}
    /\ order = [b \in Blocks |-> 0]
    /\ removed = 0 /\ aged = 0
    /\ stored = 0 /\ damaged = 0

-----------------------------------------------------------------------------
Used == Cardinality(present)

\* find -mmin +a
Older(a) == {b \in present : age[b] > a}

\* Mutant: the listing is not sorted.
BugFirst(b) == TRUE

\* Stages B and C take the oldest listed block first; Stage A takes any.
First(b) == stage = "A" \/ \A c \in list : order[c] <= order[b]

\* Mutant: the capacity stage lists every block.
BugListed(s) ==
    CASE s = "A" -> Older(MaxAge) [] s = "B" -> present [] s = "C" -> Older(SpareAge) [] OTHER -> {}

\* What find lists, for a stage that has something to do.
Listed(s) ==
    CASE s = "A" -> Older(MaxAge) [] s = "B" -> Older(MinAge) [] s = "C" -> Older(SpareAge) [] OTHER -> {}

Enter(s) ==
    /\ stage' = s
    /\ list' = Listed(s)
    /\ order' = age

\* Mutant: Stage C is reached whenever Stage B has not met the target.
BugUrgent == Used > Target

Urgent == Emergency > 0 /\ Used > Emergency

\* Mutant: the capacity stage only tops up the age rule.
BugAfterA == IF Used > Target /\ removed > 0 THEN "B" ELSE IF Urgent THEN "C" ELSE "end"

\* The stage the run goes on to: capacity, then emergency, unless it is capped.
AfterA == IF Used > Target THEN "B" ELSE IF Urgent THEN "C" ELSE "end"
AfterB == IF Urgent THEN "C" ELSE "end"

\* The timer starts a run.
Start ==
    /\ stage = "off"
    /\ removed' = 0 /\ aged' = 0
    /\ Enter(IF MaxAge > 0 THEN "A" ELSE AfterA)
    /\ UNCHANGED <<present, age, stored, damaged>>

AtCap == removed >= MaxDelete

\* Mutant: df is not read again within a stage.
BugReached(n, used) == FALSE

\* After every Batch deletions df is read again: Stage B counts its own.
Reached(n, used) ==
    /\ stage # "A"
    /\ (IF stage = "B" THEN n - aged ELSE n) % Batch = 0
    /\ used <= Target

\* The loop takes a block: gone already, or deleted.
Take(b) ==
    /\ stage \in {"A", "B", "C"} /\ ~AtCap
    /\ b \in list /\ First(b)
    /\ present' = present \ {b}
    /\ removed' = removed + (IF b \in present THEN 1 ELSE 0)
    /\ list' = IF b \in present /\ Reached(removed', Used') THEN {} ELSE list \ {b}
    /\ UNCHANGED <<age, stage, order, aged, stored, damaged>>

\* The loop has met the cap with a block in hand: no later stage runs.
Cap ==
    /\ stage \in {"A", "B", "C"} /\ AtCap /\ list # {}
    /\ aged' = IF stage = "A" THEN removed ELSE aged
    /\ Enter("end")
    /\ UNCHANGED <<present, age, removed, stored, damaged>>

EndA ==
    /\ stage = "A" /\ list = {}
    /\ aged' = removed
    /\ Enter(AfterA)
    /\ UNCHANGED <<present, age, removed, stored, damaged>>

EndB ==
    /\ stage = "B" /\ list = {}
    /\ Enter(AfterB)
    /\ UNCHANGED <<present, age, removed, aged, stored, damaged>>

EndC ==
    /\ stage = "C" /\ list = {}
    /\ Enter("end")
    /\ UNCHANGED <<present, age, removed, aged, stored, damaged>>

\* The run ends; what it prints is left out.
End ==
    /\ stage = "end"
    /\ stage' = "off"
    /\ UNCHANGED <<present, age, list, order, removed, aged, stored, damaged>>

Reaper == Start \/ Cap \/ EndA \/ EndB \/ EndC \/ End \/ \E b \in list : Take(b)

\* The engine stores a block it does not have, under a fresh mtime.
Store(b) ==
    /\ b \notin present /\ stored < Stores
    /\ present' = present \cup {b}
    /\ age' = [age EXCEPT ![b] = 0]
    /\ stored' = stored + 1
    /\ UNCHANGED <<run, damaged>>

\* It finds a file bad, and deletes it.
Damage(b) ==
    /\ b \in present /\ damaged < Damages
    /\ present' = present \ {b}
    /\ damaged' = damaged + 1
    /\ UNCHANGED <<age, run, stored>>

Tick ==
    /\ age' = [b \in Blocks |-> IF age[b] < Ancient THEN age[b] + 1 ELSE age[b]]
    /\ UNCHANGED <<present, run, stored, damaged>>

ReapNext == Reaper \/ Tick \/ \E b \in Blocks : Store(b) \/ Damage(b)

ReapSpec == ReapInit /\ [][ReapNext]_reapVars

\* The timer fires again and again, and its runs end.
ReapFairSpec == ReapSpec /\ WF_reapVars(Reaper)

-----------------------------------------------------------------------------
(* Properties.                                                              *)

\* The reaper deletes a block, and the engine has not deleted any itself: one
\* that it deletes and stores again while it is listed is taken as old.
Reaped(b) == b \in present /\ b \notin present' /\ removed' > removed /\ damaged = 0

\* Outside the emergency stage no block younger than MIN_AGE_MIN is deleted,
\* and in it none of the last EMERGENCY_MIN_AGE_MIN (Stage B's comment).
FloorHeld ==
    [][\A b \in Blocks : Reaped(b) =>
         age[b] > (IF stage = "C" THEN SpareAge ELSE MinAge)]_reapVars

\* The capacity stages evict in the order the blocks were stored: none is
\* deleted while an older one is on the volume, across listings and stores.
OldestEvictedFirst ==
    [][\A b \in Blocks : Reaped(b) /\ stage # "A" =>
         \A c \in present : age[c] <= age[b]]_reapVars

\* The capacity stages evict no more than it takes: they delete less than a
\* batch past the target, and a block under the floor only while the volume
\* is, or was in this run before these deletions, past the emergency mark.
EvictsOnlyAsNeeded ==
    [][\A b \in Blocks : Reaped(b) =>
         /\ stage # "A" => Used >= Target + 2 - Batch
         /\ age[b] <= MinAge => Used + removed > Emergency]_reapVars

\* Once the engine stops storing, the runs bring the volume to its target for
\* good, or to blocks under the floor alone, though each run is capped.
TargetKept == <>[](Used <= Target \/ Older(MinAge) = {})
=============================================================================
