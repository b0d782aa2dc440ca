-------------------------- MODULE OneShotAllReduce --------------------------
(***************************************************************************)
(* The one-shot push all-reduce (r4d_ar_oneshot_3rank_exact and the fused  *)
(* 2-rank r4d_ar_oneshot_2rank_exact_nq): every rank writes its input into *)
(* its peers' scratch, raises a flag in each, spins on its own flags and   *)
(* reduces what it finds.  Scratch has two slots, used by turns, and each  *)
(* block of a kernel keeps its own sequence number, slot and flags.        *)
(*                                                                         *)
(* The ranks issue the same calls in the same order (SPMD).  Data is       *)
(* abstracted to the call it belongs to.                                   *)
(***************************************************************************)
EXTENDS Integers, FiniteSets

CONSTANTS
    Ranks,          \* the ranks of the group
    Messages,       \* the calls to choose from: a kernel and a length in 16-byte words
    RowWords,       \* words of a row (K / 8), the chunk of a block of the fused kernel
    WordsPerBlock,  \* words_per_block
    MinBlocks,      \* min_nb
    MaxBlocks,      \* max_nb
    SeqMod,         \* sequence numbers and flags are 32-bit: 2^32
    Calls,          \* bound: length of the stream of calls
    SpinOuts        \* bound: spins a rank gives up after R4D_AR_SPIN_MAX polls

ASSUME CountAssumption ==
    /\ WordsPerBlock \in Nat \ {0} /\ RowWords \in Nat \ {0}
    /\ MinBlocks \in Nat \ {0} /\ MaxBlocks \in Nat \ {0}
    /\ SeqMod \in Nat \ {0} /\ SeqMod % 2 = 0
    /\ Calls \in Nat /\ SpinOuts \in Nat
ASSUME MessageAssumption ==
    /\ IsFiniteSet(Messages)
    /\ \A m \in Messages : m.kernel \in {"exact", "nq"} /\ m.words \in Nat \ {0}
    /\ \A m \in Messages : m.kernel = "nq" => m.words % RowWords = 0

Least(a, b) == IF a <= b THEN a ELSE b
Greatest(a, b) == IF a >= b THEN a ELSE b

\* _nblocks: blocks scale with the message.
NBlocks(n16) ==
    LET nb == Least(Greatest(n16 \div WordsPerBlock, MinBlocks), MaxBlocks)
    IN  IF nb > n16 THEN Greatest(1, n16) ELSE nb

\* The grid of a call, and how many words each of its blocks owns.
Grid(m) == IF m.kernel = "nq" THEN m.words \div RowWords ELSE NBlocks(m.words)
Width(m) == IF m.kernel = "nq" THEN RowWords ELSE (m.words + Grid(m) - 1) \div Grid(m)
Chunk(m, b) == {k \in b * Width(m)..(b + 1) * Width(m) - 1 : k < m.words}

WordIds == UNION {0..m.words - 1 : m \in Messages}
BlockIds == 0..MaxBlocks - 1 \cup WordIds

VARIABLES
    stream,   \* the calls the ranks issue, chosen at the start
    call,     \* the call each rank is in
    seq,      \* seq_ctrs, per block
    stage,    \* where each block of the call's kernel is
    words,    \* (word, peer) pairs a block has still to push, or to read
    peers,    \* peers a block has still to flag, or to see the flag of
    scratch,  \* receive regions: the call each word was written by, per slot
    flags,    \* the sequence number each peer raised, per block
    read,     \* the calls whose inputs the current call has read
    result,   \* history: the calls whose inputs went into each result
    spins     \* spins each rank has given up

kernel == <<call, seq, stage, words, peers>>
vars == <<stream, kernel, scratch, flags, read, result, spins>>

Peers(r) == Ranks \ {r}
Stages == {"idle", "push", "spin", "reduce"}
Running(r) == call[r] <= Calls
Blocks(r) == {b \in BlockIds : b < Grid(stream[call[r]])}
Slot(r, b) == seq[r][b] % 2

TypeOK ==
    /\ stream \in [1..Calls -> Messages]
    /\ call \in [Ranks -> 1..Calls + 1]
    /\ seq \in [Ranks -> [BlockIds -> 0..SeqMod - 1]]
    /\ stage \in [Ranks -> [BlockIds -> Stages]]
    /\ words \in [Ranks -> [BlockIds -> SUBSET (WordIds \X Ranks)]]
    /\ peers \in [Ranks -> [BlockIds -> SUBSET Ranks]]
    /\ scratch \in [Ranks -> [Ranks -> [{0, 1} -> [WordIds -> 0..Calls]]]]
    /\ flags \in [Ranks -> [Ranks -> [BlockIds -> 0..SeqMod - 1]]]
    /\ read \in [Ranks -> SUBSET (0..Calls)]
    /\ result \in [Ranks -> [1..Calls -> SUBSET (0..Calls)]]
    /\ spins \in [Ranks -> 0..SpinOuts]

Init ==
    /\ stream \in [1..Calls -> Messages]
    /\ call = [r \in Ranks |-> 1]
    /\ seq = [r \in Ranks |-> [b \in BlockIds |-> 0]]
    /\ stage = [r \in Ranks |-> [b \in BlockIds |-> "idle"]]
    /\ words = [r \in Ranks |-> [b \in BlockIds |-> {}]]
    /\ peers = [r \in Ranks |-> [b \in BlockIds |-> {}]]
    /\ scratch = [r \in Ranks |-> [p \in Ranks |-> [s \in {0, 1} |-> [k \in WordIds |-> 0]]]]
    /\ flags = [r \in Ranks |-> [p \in Ranks |-> [b \in BlockIds |-> 0]]]
    /\ read = [r \in Ranks |-> {}]
    /\ result = [r \in Ranks |-> [c \in 1..Calls |-> {}]]
    /\ spins = [r \in Ranks |-> 0]

-----------------------------------------------------------------------------
\* Mutant: the flag is raised without waiting for the stores to drain.
BugDrained(r, b) == TRUE

\* s_wait_storecnt: the flags are raised once every word is pushed.
Drained(r, b) == words[r][b] = {}

\* Mutant: scratch has one slot.
BugSeqNext(s) == (s + 2) % SeqMod

SeqNext(s) == (s + 1) % SeqMod

\* A block of the kernel starts: it takes its sequence number, and so its slot.
Start(r, b) ==
    /\ Running(r) /\ b \in Blocks(r) /\ stage[r][b] = "idle"
    /\ seq' = [seq EXCEPT ![r][b] = SeqNext(@)]
    /\ stage' = [stage EXCEPT ![r][b] = "push"]
    /\ words' = [words EXCEPT ![r][b] = Chunk(stream[call[r]], b) \X Peers(r)]
    /\ peers' = [peers EXCEPT ![r][b] = Peers(r)]
    /\ UNCHANGED <<stream, call, scratch, flags, read, result, spins>>

\* It writes a word of its chunk into a peer's scratch.
Push(r, b, k, p) ==
    /\ stage[r][b] = "push" /\ <<k, p>> \in words[r][b]
    /\ scratch' = [scratch EXCEPT ![p][r][Slot(r, b)][k] = call[r]]
    /\ words' = [words EXCEPT ![r][b] = @ \ {<<k, p>>}]
    /\ UNCHANGED <<stream, call, seq, stage, peers, flags, read, result, spins>>

\* It raises its flag in a peer; after the last one it spins on its own.
Release(r, b, p) ==
    /\ stage[r][b] = "push" /\ Drained(r, b) /\ p \in peers[r][b]
    /\ flags' = [flags EXCEPT ![p][r][b] = seq[r][b]]
    /\ IF peers[r][b] = {p}
         THEN /\ stage' = [stage EXCEPT ![r][b] = "spin"]
              /\ peers' = [peers EXCEPT ![r][b] = Peers(r)]
         ELSE /\ peers' = [peers EXCEPT ![r][b] = @ \ {p}]
              /\ UNCHANGED stage
    /\ UNCHANGED <<stream, call, seq, words, scratch, read, result, spins>>

Reduce(r, b) ==
    /\ stage' = [stage EXCEPT ![r][b] = "reduce"]
    /\ words' = [words EXCEPT ![r][b] = Chunk(stream[call[r]], b) \X Peers(r)]

\* Mutant: a flag counts only while it equals the block's own number.
BugEqual(r, b, p) == flags[r][p][b] = seq[r][b]

Raised(r, b, p) == flags[r][p][b] >= seq[r][b]

\* It sees a peer's flag; after the last one it reduces.
See(r, b, p) ==
    /\ stage[r][b] = "spin" /\ p \in peers[r][b] /\ Raised(r, b, p)
    /\ peers' = [peers EXCEPT ![r][b] = @ \ {p}]
    /\ IF peers[r][b] = {p} THEN Reduce(r, b) ELSE UNCHANGED <<stage, words>>
    /\ UNCHANGED <<stream, call, seq, scratch, flags, read, result, spins>>

GivesUp(r, b) == stage[r][b] = "spin" /\ spins[r] < SpinOuts

\* The spin limit: the block goes on without the flags it has not seen.
SpinOut(r, b) ==
    /\ GivesUp(r, b)
    /\ Reduce(r, b)
    /\ peers' = [peers EXCEPT ![r][b] = {}]
    /\ spins' = [spins EXCEPT ![r] = @ + 1]
    /\ UNCHANGED <<stream, call, seq, scratch, flags, read, result>>

\* It reads a word a peer wrote in its slot.
Read(r, b, k, p) ==
    /\ stage[r][b] = "reduce" /\ <<k, p>> \in words[r][b]
    /\ read' = [read EXCEPT ![r] = @ \cup {scratch[r][p][Slot(r, b)][k]}]
    /\ words' = [words EXCEPT ![r][b] = @ \ {<<k, p>>}]
    /\ UNCHANGED <<stream, call, seq, stage, peers, scratch, flags, result, spins>>

\* The kernel has ended on this rank, and its stream goes on to the next call.
EndCall(r) ==
    /\ Running(r)
    /\ \A b \in Blocks(r) : stage[r][b] = "reduce" /\ words[r][b] = {}
    /\ call' = [call EXCEPT ![r] = @ + 1]
    /\ stage' = [stage EXCEPT ![r] = [b \in BlockIds |-> "idle"]]
    /\ result' = [result EXCEPT ![r][call[r]] = read[r] \cup {call[r]}]
    /\ read' = [read EXCEPT ![r] = {}]
    /\ UNCHANGED <<stream, seq, words, peers, scratch, flags, spins>>

Block(r, b) ==
    \/ Start(r, b) \/ SpinOut(r, b)
    \/ \E p \in peers[r][b] : Release(r, b, p) \/ See(r, b, p)
    \/ \E w \in words[r][b] : Push(r, b, w[1], w[2]) \/ Read(r, b, w[1], w[2])

Rank(r) == EndCall(r) \/ \E b \in BlockIds : Block(r, b)

Next == \E r \in Ranks : Rank(r)

Spec == Init /\ [][Next]_vars

\* The GPUs keep running their kernels.
FairSpec == Spec /\ \A r \in Ranks : WF_vars(Rank(r))

-----------------------------------------------------------------------------
(* Properties.                                                              *)

\* What a block is still to read from a peer is what that peer pushed for the
\* same call: nobody has written over it for a later one (the slot-reuse
\* argument of r4d_ar_oneshot_3rank_exact.hip).
DataIntact ==
    \A r \in Ranks : \A b \in BlockIds : stage[r][b] = "reduce" =>
        \A w \in words[r][b] : scratch[r][w[2]][Slot(r, b)][w[1]] = call[r]

\* The kernel is an all-reduce, so the ranks hold the same result of every call
\* they have ended (the replicated-state invariant of the kernel's REDUCE comment).
Begun == [r \in Ranks |-> IF \E b \in BlockIds : stage[r][b] # "idle" THEN call[r] ELSE call[r] - 1]
Ended == [r \in Ranks |-> call[r] - 1]
Abstract == INSTANCE AllReduce WITH begun <- Begun, ended <- Ended
Implements == Abstract!Spec

\* No call hangs: whatever a fast peer has already raised for its next call,
\* every rank sees its flags and ends every call, with no spin given up.
EveryCallEnds == <>(\A r \in Ranks : call[r] > Calls)

\* A rank whose GPU keeps running ends its calls even when its peers stop: a
\* spin is given up after R4D_AR_SPIN_MAX polls.
LoneRankEnds(r) == <>(call[r] > Calls)
=============================================================================
