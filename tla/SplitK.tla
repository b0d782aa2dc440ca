------------------------------- MODULE SplitK -------------------------------
(***************************************************************************)
(* The split-K tail of the MXFP4 decode kernel: the blocks that share an   *)
(* n-range each store their partials, draw a ticket, and the last to draw  *)
(* sums the partials of all.  A store reaches the other CUs some time      *)
(* after its thread has made it, at the latest at that thread's fence or   *)
(* at the end of the kernel.  The partials and the counter outlive the     *)
(* launch; launches on a stream follow each other.                         *)
(***************************************************************************)
EXTENDS Integers, FiniteSets

CONSTANTS Leader,       \* thread 0 of a block
          Others,       \* its other threads
          Splits,       \* the degrees split_k_for chooses
          MaxLaunches   \* bound on the launches

VARIABLES launch,    \* the launch that runs
          split,     \* DKS, its number of blocks
          at,        \* where a thread of a block is
          stored,    \* the launch whose partial a thread stored last
          slab,      \* the launch whose partial the other CUs see there
          cnt,       \* the counter of the n-range
          ticket,    \* what s_last says in a block, once it has drawn
          out        \* the launch whose partials a thread summed, 0: a mix

vars == <<launch, split, at, stored, slab, cnt, ticket, out>>

Threads == {Leader} \cup Others
Degrees == Splits \cap (Nat \ {0})
Points == {"store", "fence", "barrier", "reset", "done"}
AllBlocks == UNION {1 .. k : k \in Degrees}
Blocks == 1 .. split
Drawn == {b \in Blocks : ticket[b] # "none"}

Init ==
    /\ launch = 1
    /\ split \in Degrees
    /\ at = [b \in AllBlocks |-> [t \in Threads |-> "store"]]
    /\ stored = [b \in AllBlocks |-> [t \in Threads |-> 0]]
    /\ slab = [b \in AllBlocks |-> [t \in Threads |-> 0]]
    /\ cnt = 0
    /\ ticket = [b \in AllBlocks |-> "none"]
    /\ out = [t \in Threads |-> 0]

(* A thread stores its partial.                                            *)
Store(b, t) ==
    /\ at[b][t] = "store"
    /\ at' = [at EXCEPT ![b][t] = "fence"]
    /\ stored' = [stored EXCEPT ![b][t] = launch]
    /\ UNCHANGED <<launch, split, slab, cnt, ticket, out>>

(* A store reaches the other CUs by itself.                                *)
Drain(b, t) ==
    /\ slab[b][t] # stored[b][t]
    /\ slab' = [slab EXCEPT ![b][t] = stored[b][t]]
    /\ UNCHANGED <<launch, split, at, stored, cnt, ticket, out>>

(* Mutant: the fence of thread 0 alone.                                    *)
BugFence(b, t) ==
    /\ at[b][t] = "fence"
    /\ at' = [at EXCEPT ![b][t] = "barrier"]
    /\ slab' = IF t = Leader THEN [slab EXCEPT ![b][t] = stored[b][t]] ELSE slab
    /\ UNCHANGED <<launch, split, stored, cnt, ticket, out>>

(* __threadfence: every thread's own store is out before it goes on.       *)
Fence(b, t) ==
    /\ at[b][t] = "fence"
    /\ at' = [at EXCEPT ![b][t] = "barrier"]
    /\ slab' = [slab EXCEPT ![b][t] = stored[b][t]]
    /\ UNCHANGED <<launch, split, stored, cnt, ticket, out>>

(* Behind the barrier, thread 0 draws the ticket and all threads learn     *)
(* whether it was the last.                                                *)
Draw(b) ==
    /\ ticket[b] = "none"
    /\ \A t \in Threads : at[b][t] = "barrier"
    /\ ticket' = [ticket EXCEPT ![b] = IF cnt = split - 1 THEN "last" ELSE "early"]
    /\ cnt' = cnt + 1
    /\ UNCHANGED <<launch, split, at, stored, slab, out>>

(* Mutant: the counter stays as it is.                                     *)
BugReset(b) ==
    /\ ticket[b] = "last" /\ at[b][Leader] = "barrier"
    /\ at' = [at EXCEPT ![b][Leader] = "reset"]
    /\ UNCHANGED <<launch, split, stored, slab, cnt, ticket, out>>

(* Thread 0 of the last block leaves the counter at zero.                  *)
Reset(b) ==
    /\ ticket[b] = "last" /\ at[b][Leader] = "barrier"
    /\ at' = [at EXCEPT ![b][Leader] = "reset"]
    /\ cnt' = 0
    /\ UNCHANGED <<launch, split, stored, slab, ticket, out>>

(* What a thread that sums the partials gets.                              *)
Summed == IF \A b \in Blocks, t \in Threads : slab[b][t] = launch THEN launch ELSE 0

(* A thread of the last block sums the partials of its columns.            *)
Reduce(b, t) ==
    /\ ticket[b] = "last"
    /\ at[b][t] = IF t = Leader THEN "reset" ELSE "barrier"
    /\ at' = [at EXCEPT ![b][t] = "done"]
    /\ out' = [out EXCEPT ![t] = Summed]
    /\ UNCHANGED <<launch, split, stored, slab, cnt, ticket>>

(* The launch ends when each block has returned, early or with its sums;   *)
(* what was stored is then out, and the next launch may split otherwise.   *)
Relaunch(k) ==
    /\ launch < MaxLaunches
    /\ \A b \in Blocks :
          \/ ticket[b] = "early"
          \/ ticket[b] = "last" /\ \A t \in Threads : at[b][t] = "done"
    /\ launch' = launch + 1
    /\ split' = k
    /\ at' = [b \in AllBlocks |-> [t \in Threads |-> "store"]]
    /\ ticket' = [b \in AllBlocks |-> "none"]
    /\ slab' = stored
    /\ UNCHANGED <<stored, cnt, out>>

Next ==
    \/ \E b \in Blocks : Draw(b) \/ Reset(b)
    \/ \E b \in Blocks, t \in Threads :
          Store(b, t) \/ Drain(b, t) \/ Fence(b, t) \/ Reduce(b, t)
    \/ \E k \in Degrees : Relaunch(k)

Spec == Init /\ [][Next]_vars

-----------------------------------------------------------------------------
TypeOK ==
    /\ launch \in Nat \ {0} /\ split \in Degrees
    /\ at \in [AllBlocks -> [Threads -> Points]]
    /\ stored \in [AllBlocks -> [Threads -> Nat]]
    /\ slab \in [AllBlocks -> [Threads -> Nat]]
    /\ cnt \in 0 .. split
    /\ ticket \in [AllBlocks -> {"none", "early", "last"}]
    /\ out \in [Threads -> Nat]

(* A fence has put the partial of its thread out; before it nothing of     *)
(* this launch may be counted on.                                          *)
FencedIsOut ==
    \A b \in Blocks, t \in Threads :
        /\ at[b][t] # "store" => stored[b][t] = launch
        /\ at[b][t] \notin {"store", "fence"} => slab[b][t] = launch

(* A block that has drawn is past its fences.                              *)
DrawnIsFenced ==
    \A b \in Drawn, t \in Threads : at[b][t] \notin {"store", "fence"}

(* The counter counts the tickets until the last is drawn; thread 0 of the *)
(* block that drew it resets it.                                           *)
Counted ==
    IF \E b \in Blocks : ticket[b] = "last"
    THEN /\ Drawn = Blocks
         /\ \A b \in Blocks : ticket[b] = "last" /\ at[b][Leader] # "barrier" => cnt = 0
    ELSE cnt = Cardinality(Drawn) /\ cnt < split

(* A thread gets past its barrier in the last block alone, and is done     *)
(* with a whole sum.                                                       *)
DoneIsWhole ==
    \A b \in Blocks, t \in Threads :
        /\ at[b][t] \in {"reset", "done"} => ticket[b] = "last"
        /\ at[b][t] = "done" => out[t] = launch

(* Each launch gives every column the sum of its own partials, however the *)
(* blocks and their stores interleave and whatever earlier launches left.  *)
S == INSTANCE SplitSum
Implements == S!Spec
=============================================================================
