----------------------- MODULE OneShotAllReduceProofs -----------------------
(***************************************************************************)
(* Proofs about OneShotAllReduce for any ranks, messages and stream of     *)
(* calls, as long as no spin is given up, no sequence number wraps and a   *)
(* word is always of the same block's chunk.  What makes two slots enough  *)
(* is that a rank is at most one call ahead of a peer, that the sequence   *)
(* numbers of their blocks then differ by that call, and that what a rank  *)
(* has pushed for the call a peer is still in lies in the other slot.      *)
(***************************************************************************)
EXTENDS OneShotAllReduce, TLAPS

\* A word is of one block's chunk, in whatever calls it is.
Owned ==
    \A m, n \in Messages : \A b, c \in BlockIds :
        \A k \in WordIds : k \in Chunk(m, b) /\ k \in Chunk(n, c) => b = c

\* No spin is given up, and the sequence numbers do not wrap.
Undisturbed == SpinOuts = 0 /\ Calls < SeqMod

(* The inductive invariant.                                                 *)

Started(r, b) == IF stage[r][b] = "idle" THEN 0 ELSE 1

\* The sequence number a block came to the call with.
Base(r, b) == seq[r][b] - Started(r, b)

\* Whether the call of a rank uses a block.
Uses(r, b) == IF b \in Blocks(r) THEN 1 ELSE 0

\* Whether block b of p has still to raise its flag in r.
Pending(p, b, r) == IF stage[p][b] = "push" /\ r \in peers[p][b] THEN 1 ELSE 0

Local ==
    \A r \in Ranks : \A b \in BlockIds :
        /\ stage[r][b] # "idle" => Running(r) /\ b \in Blocks(r)
        /\ Base(r, b) \in Nat /\ Base(r, b) < call[r]
        /\ peers[r][b] \subseteq Peers(r)
        /\ stage[r][b] \in {"idle", "spin"} => words[r][b] = {}
        /\ stage[r][b] \in {"push", "reduce"} =>
              words[r][b] \subseteq Chunk(stream[call[r]], b) \X Peers(r)
        /\ stage[r][b] = "push" /\ peers[r][b] # Peers(r) => words[r][b] = {}

\* A rank is at most one call ahead, and its blocks' numbers by that call.
InStep ==
    \A r \in Ranks : \A p \in Peers(r) :
        /\ call[r] <= call[p] + 1
        /\ \A b \in BlockIds :
             /\ call[r] = call[p] => Base(r, b) = Base(p, b)
             /\ call[r] = call[p] + 1 => Base(r, b) = Base(p, b) + Uses(p, b)

\* A flag is the number of the block that raises it, once it has.
FlagsOK ==
    \A r \in Ranks : \A p \in Peers(r) : \A b \in BlockIds :
        flags[r][p][b] + Pending(p, b, r) = seq[p][b]

\* A flag that was seen was raised for the call, and those of calls ended too.
SeenOK ==
    \A r \in Ranks : \A p \in Peers(r) : \A b \in BlockIds :
        /\ stage[r][b] = "reduce" \/ (stage[r][b] = "spin" /\ p \notin peers[r][b])
              => flags[r][p][b] >= seq[r][b]
        /\ call[r] = call[p] + 1 => flags[r][p][b] >= Base(r, b)

\* What p has pushed to r for the call it is in.
PushedOK ==
    \A r \in Ranks : \A p \in Peers(r) : \A b \in BlockIds :
        stage[p][b] # "idle" =>
            \A k \in Chunk(stream[call[p]], b) :
                (stage[p][b] = "push" => <<k, r>> \notin words[p][b])
                    => scratch[r][p][Slot(p, b)][k] = call[p]

\* What p, one call ahead, has pushed to r for the call r is in.
KeptOK ==
    \A r \in Ranks : \A p \in Peers(r) :
        call[p] = call[r] + 1 =>
            \A b \in Blocks(r) : \A k \in Chunk(stream[call[r]], b) :
                scratch[r][p][Base(p, b) % 2][k] = call[r]

InputsOK == \A r \in Ranks : read[r] \subseteq {call[r]}

IInv ==
    /\ TypeOK /\ Local /\ InStep /\ FlagsOK /\ SeenOK
    /\ PushedOK /\ KeptOK /\ InputsOK

USE DEF Peers

-----------------------------------------------------------------------------
\* Every call has a block.
LEMMA GridPositive == ASSUME NEW m \in Messages PROVE Grid(m) \in Nat /\ Grid(m) >= 1
<1>1. m.words \in Nat \ {0} /\ m.kernel \in {"exact", "nq"}
  BY MessageAssumption
<1>2. CASE m.kernel = "nq"
  <2>1. m.words % RowWords = 0 /\ RowWords \in Nat \ {0}
    BY <1>2, MessageAssumption, CountAssumption
  <2>2. m.words \div RowWords \in Nat /\ m.words \div RowWords >= 1
    BY <1>1, <2>1, Z3
  <2> QED
    BY <1>2, <2>2 DEF Grid
<1>3. CASE m.kernel # "nq"
  <2>1. NBlocks(m.words) \in Nat /\ NBlocks(m.words) >= 1
    BY <1>1, CountAssumption DEF NBlocks, Least, Greatest
  <2> QED
    BY <1>3, <2>1 DEF Grid
<1> QED
  BY <1>2, <1>3

LEMMA ZeroIsBlock == 0 \in BlockIds
  BY CountAssumption DEF BlockIds

LEMMA WidthIsNat == ASSUME NEW m \in Messages PROVE Width(m) \in Nat
<1>1. m.words \in Nat /\ RowWords \in Nat /\ Grid(m) \in Nat /\ Grid(m) >= 1
  BY MessageAssumption, CountAssumption, GridPositive
<1>2. (m.words + Grid(m) - 1) \div Grid(m) \in Nat
  BY <1>1
<1> QED
  BY <1>1, <1>2 DEF Width

LEMMA WordIsNat == BlockIds \subseteq Nat /\ WordIds \subseteq Nat
  BY MessageAssumption, CountAssumption DEF BlockIds, WordIds

LEMMA ChunkIsWords ==
    ASSUME NEW m \in Messages, NEW b \in BlockIds
    PROVE  Chunk(m, b) \subseteq 0..m.words - 1 /\ Chunk(m, b) \subseteq WordIds
<1>1. m.words \in Nat /\ Width(m) \in Nat /\ b \in Nat
  BY MessageAssumption, WidthIsNat, WordIsNat
<1>2. b * Width(m) \in Nat /\ (b + 1) * Width(m) \in Nat
  BY <1>1
<1>3. \A k \in b * Width(m)..(b + 1) * Width(m) - 1 : k \in Nat
  BY <1>2
<1> QED
  BY <1>1, <1>3 DEF Chunk, WordIds

LEMMA InitIInv == ASSUME Init PROVE IInv
<1>1. TypeOK
  BY CountAssumption DEF Init, TypeOK, Stages
<1>2. Local /\ InStep /\ FlagsOK /\ SeenOK /\ PushedOK /\ KeptOK /\ InputsOK
  BY CountAssumption DEF Init, Local, InStep, FlagsOK, SeenOK, PushedOK, KeptOK, InputsOK,
     Base, Started, Pending
<1> QED
  BY <1>1, <1>2 DEF IInv

-----------------------------------------------------------------------------
LEMMA StartOK ==
    ASSUME IInv, Undisturbed, NEW r \in Ranks, NEW b \in BlockIds, Start(r, b)
    PROVE  IInv'
<1> USE DEF IInv
<1>0. /\ Running(r) /\ b \in Blocks(r) /\ stage[r][b] = "idle"
      /\ seq[r][b] \in Nat /\ seq[r][b] < call[r] /\ call[r] \in Nat /\ Calls \in Nat
      /\ stream[call[r]] \in Messages
  BY CountAssumption DEF Start, Local, Base, Started, TypeOK, Running
<1>1. SeqNext(seq[r][b]) = seq[r][b] + 1 /\ seq[r][b] + 1 \in 0..SeqMod - 1
  BY <1>0, CountAssumption DEF SeqNext, Running, Undisturbed
<1>2. /\ seq' = [seq EXCEPT ![r][b] = @ + 1]
      /\ stage' = [stage EXCEPT ![r][b] = "push"]
      /\ words' = [words EXCEPT ![r][b] = Chunk(stream[call[r]], b) \X Peers(r)]
      /\ peers' = [peers EXCEPT ![r][b] = Peers(r)]
      /\ UNCHANGED <<stream, call, scratch, flags, read, result, spins>>
  BY <1>1 DEF Start, TypeOK
<1>3. TypeOK'
  BY <1>0, <1>1, <1>2, ChunkIsWords DEF TypeOK, Stages
<1>4. \A q \in Ranks : \A c \in BlockIds :
        /\ seq'[q][c] = IF q = r /\ c = b THEN seq[r][b] + 1 ELSE seq[q][c]
        /\ stage'[q][c] = IF q = r /\ c = b THEN "push" ELSE stage[q][c]
        /\ words'[q][c] = IF q = r /\ c = b THEN Chunk(stream[call[r]], b) \X Peers(r)
                                             ELSE words[q][c]
        /\ peers'[q][c] = IF q = r /\ c = b THEN Peers(r) ELSE peers[q][c]
  BY <1>2 DEF TypeOK
<1>5. \A q \in Ranks : \A c \in BlockIds : Base(q, c)' = Base(q, c) /\ Uses(q, c)' = Uses(q, c)
  <2>1. \A q \in Ranks : Blocks(q)' = Blocks(q)
    BY <1>2 DEF Blocks
  <2>2. ASSUME NEW q \in Ranks, NEW c \in BlockIds PROVE Base(q, c)' = Base(q, c)
    <3>1. seq[q][c] \in Nat
      BY CountAssumption DEF TypeOK
    <3> QED
      BY <1>0, <1>4, <3>1 DEF Base, Started
  <2> QED
    BY <2>1, <2>2 DEF Uses
<1>6. Local'
  BY <1>0, <1>2, <1>4, <1>5 DEF Local, Running, Blocks
<1>7. InStep'
  BY <1>2, <1>5 DEF InStep
<1>8. FlagsOK'
  <2> SUFFICES ASSUME NEW q \in Ranks, NEW p \in Peers(q), NEW c \in BlockIds
               PROVE  flags[q][p][c] + Pending(p, c, q)' = seq'[p][c]
    BY <1>2 DEF FlagsOK
  <2>1. flags[q][p][c] \in Nat /\ flags[q][p][c] + Pending(p, c, q) = seq[p][c]
    BY CountAssumption DEF FlagsOK, TypeOK
  <2> QED
    BY <1>0, <1>4, <2>1 DEF Pending
<1>9. SeenOK'
  BY <1>0, <1>2, <1>4, <1>5 DEF SeenOK
<1>10. PushedOK'
  <2> SUFFICES ASSUME NEW q \in Ranks, NEW o \in Peers(q), NEW c \in BlockIds,
                      stage'[o][c] # "idle", NEW j \in Chunk(stream[call[o]], c),
                      stage'[o][c] = "push" => <<j, q>> \notin words'[o][c]
               PROVE  scratch[q][o][Slot(o, c)'][j] = call[o]
    BY <1>2 DEF PushedOK
  <2>1. o \in Ranks /\ q \in Peers(o)
    BY DEF Peers
  <2>2. ~(o = r /\ c = b)
    BY <1>4, <2>1
  <2>3. stage[o][c] = stage'[o][c] /\ words[o][c] = words'[o][c] /\ Slot(o, c)' = Slot(o, c)
    BY <1>4, <2>1, <2>2 DEF Slot
  <2> QED
    BY <2>3 DEF PushedOK
<1>11. KeptOK'
  BY <1>2, <1>5 DEF KeptOK, Blocks
<1>12. InputsOK'
  BY <1>2 DEF InputsOK
<1> QED
  BY <1>3, <1>6, <1>7, <1>8, <1>9, <1>10, <1>11, <1>12

\* Steps that change neither the calls nor the numbers keep what is said of them.
LEMMA BaseSame ==
    ASSUME UNCHANGED <<stream, call, seq>>,
           \A q \in Ranks : \A c \in BlockIds : stage'[q][c] = "idle" <=> stage[q][c] = "idle"
    PROVE  /\ \A q \in Ranks : Blocks(q)' = Blocks(q)
           /\ \A q \in Ranks : \A c \in BlockIds : Base(q, c)' = Base(q, c)
           /\ InStep => InStep'
<1>1. \A q \in Ranks : Blocks(q)' = Blocks(q)
  BY DEF Blocks
<1>2. \A q \in Ranks : \A c \in BlockIds : Base(q, c)' = Base(q, c)
  BY DEF Base, Started
<1> QED
  BY <1>1, <1>2 DEF InStep, Uses

LEMMA Parity == ASSUME NEW n \in Nat PROVE n % 2 \in {0, 1} /\ (n + 1) % 2 # n % 2
  OBVIOUS

LEMMA SlotOK == ASSUME TypeOK, NEW r \in Ranks, NEW b \in BlockIds
                PROVE  seq[r][b] \in Nat /\ Slot(r, b) \in {0, 1}
<1>1. seq[r][b] \in Nat
  BY CountAssumption DEF TypeOK
<1> QED
  BY <1>1, Parity DEF Slot

\* What one word that is pushed does to scratch.
Scratches == [Ranks -> [Ranks -> [{0, 1} -> [WordIds -> 0..Calls]]]]

LEMMA PushedWord ==
    ASSUME TypeOK, NEW r \in Ranks, NEW b \in BlockIds, NEW k \in WordIds, NEW p \in Ranks,
           call[r] \in 0..Calls, Push(r, b, k, p)
    PROVE  /\ scratch' \in Scratches
           /\ \A q, o \in Ranks : \A t \in {0, 1} : \A j \in WordIds :
                scratch'[q][o][t][j] = IF q = p /\ o = r /\ t = Slot(r, b) /\ j = k
                                         THEN call[r] ELSE scratch[q][o][t][j]
<1> DEFINE Slots == [{0, 1} -> [WordIds -> 0..Calls]]
           old == scratch[p][r]
           new == [old EXCEPT ![Slot(r, b)][k] = call[r]]
<1>1. scratch \in [Ranks -> [Ranks -> Slots]]
  BY DEF TypeOK
<1>2. old \in Slots
  <2> HIDE DEF Slots
  <2> QED
    BY <1>1
<1>3. scratch' = [scratch EXCEPT ![p][r] = new]
  BY DEF Push
<1>4. /\ new \in Slots
      /\ \A t \in {0, 1} : \A j \in WordIds :
            new[t][j] = IF t = Slot(r, b) /\ j = k THEN call[r] ELSE old[t][j]
  <2> HIDE DEF old
  <2> QED
    BY <1>2, SlotOK
<1> HIDE DEF Slots, new
<1>5. /\ scratch' \in [Ranks -> [Ranks -> Slots]]
      /\ \A q, o \in Ranks : scratch'[q][o] = IF q = p /\ o = r THEN new ELSE scratch[q][o]
  BY <1>1, <1>3, <1>4
<1>6. scratch' \in Scratches
  BY <1>5 DEF Scratches, Slots
<1> QED
  BY <1>4, <1>5, <1>6

LEMMA PushOK ==
    ASSUME IInv, Owned, NEW r \in Ranks, NEW b \in BlockIds, NEW k, NEW p, Push(r, b, k, p)
    PROVE  IInv'
<1> USE DEF IInv
<1>0. /\ stage[r][b] = "push" /\ <<k, p>> \in words[r][b]
      /\ p \in Peers(r) /\ k \in Chunk(stream[call[r]], b) /\ k \in WordIds
      /\ call[r] \in 1..Calls /\ stream[call[r]] \in Messages /\ b \in Blocks(r)
  <2>1. stage[r][b] = "push" /\ <<k, p>> \in words[r][b]
    BY DEF Push
  <2>2. Running(r) /\ b \in Blocks(r) /\ words[r][b] \subseteq Chunk(stream[call[r]], b) \X Peers(r)
    BY <2>1 DEF Local
  <2>3. call[r] \in 1..Calls
    BY <2>2, CountAssumption DEF Running, TypeOK
  <2> QED
    BY <2>1, <2>2, <2>3, ChunkIsWords DEF TypeOK
<1>1. /\ scratch' = [scratch EXCEPT ![p][r][Slot(r, b)][k] = call[r]]
      /\ words' = [words EXCEPT ![r][b] = @ \ {<<k, p>>}]
      /\ UNCHANGED <<stream, call, seq, stage, peers, flags, read, result, spins>>
  BY DEF Push
<1>2. Slot(r, b) \in {0, 1} /\ seq[r][b] \in Nat
  BY SlotOK DEF TypeOK
<1>a. /\ scratch' \in Scratches
      /\ \A q, o \in Ranks : \A t \in {0, 1} : \A j \in WordIds :
            scratch'[q][o][t][j] = IF q = p /\ o = r /\ t = Slot(r, b) /\ j = k
                                     THEN call[r] ELSE scratch[q][o][t][j]
  <2>1. p \in Ranks /\ k \in WordIds /\ call[r] \in 0..Calls
    BY <1>0, CountAssumption
  <2> QED
    BY <2>1, PushedWord
<1>3. TypeOK'
  <2>1. PICK W : W = SUBSET (WordIds \X Ranks)
    OBVIOUS
  <2>2. words \in [Ranks -> [BlockIds -> W]]
    BY <2>1, Zenon DEF TypeOK
  <2>3. words[r][b] \ {<<k, p>>} \in W
    <3>1. words[r][b] \in W
      BY <2>2
    <3> QED
      BY <2>1, <3>1, Zenon
  <2>4. words' \in [Ranks -> [BlockIds -> W]]
    BY <1>1, <2>2, <2>3
  <2>5. words' \in [Ranks -> [BlockIds -> SUBSET (WordIds \X Ranks)]]
    BY <2>1, <2>4, Zenon
  <2> QED
    BY <1>1, <1>a, <2>5 DEF TypeOK, Scratches
<1>4. \A q \in Ranks : \A c \in BlockIds :
        words'[q][c] = IF q = r /\ c = b THEN words[r][b] \ {<<k, p>>} ELSE words[q][c]
  <2>1. words \in [Ranks -> [BlockIds -> SUBSET (WordIds \X Ranks)]]
    BY DEF TypeOK
  <2> QED
    BY <1>1, <2>1
<1>5. /\ \A q \in Ranks : Blocks(q)' = Blocks(q)
      /\ \A q \in Ranks : \A c \in BlockIds : Base(q, c)' = Base(q, c)
      /\ InStep'
  BY <1>1, BaseSame
<1>6. Local'
  BY <1>1, <1>4, <1>5 DEF Local, Running
<1>7. FlagsOK' /\ SeenOK' /\ InputsOK'
  BY <1>1, <1>5 DEF FlagsOK, Pending, SeenOK, InputsOK
<1>8. PushedOK'
  <2> SUFFICES ASSUME NEW q \in Ranks, NEW o \in Peers(q), NEW c \in BlockIds,
                      stage'[o][c] # "idle", NEW j \in Chunk(stream[call[o]], c)',
                      stage'[o][c] = "push" => <<j, q>> \notin words'[o][c]
               PROVE  (scratch[q][o][Slot(o, c)][j] = call[o])'
    BY DEF PushedOK
  <2>0. /\ stage[o][c] # "idle" /\ j \in Chunk(stream[call[o]], c)
        /\ stage[o][c] = "push" => <<j, q>> \notin words'[o][c]
        /\ call'[o] = call[o] /\ Slot(o, c)' = Slot(o, c)
    BY <1>1 DEF Slot
  <2> SUFFICES scratch'[q][o][Slot(o, c)][j] = call[o]
    BY <2>0
  <2>1. j \in WordIds /\ Slot(o, c) \in {0, 1}
    <3>1. call[o] \in 1..Calls
      BY <2>0, CountAssumption DEF Local, Running, TypeOK
    <3>2. stream[call[o]] \in Messages
      BY <3>1 DEF TypeOK
    <3> QED
      BY <2>0, <3>2, ChunkIsWords, SlotOK DEF TypeOK
  <2>2. CASE stage[o][c] = "push" => <<j, q>> \notin words[o][c]
    BY <1>a, <2>0, <2>1, <2>2 DEF PushedOK
  <2>3. CASE stage[o][c] = "push" /\ <<j, q>> \in words[o][c]
    BY <1>0, <1>a, <1>4, <2>0, <2>1, <2>3
  <2> QED
    BY <2>2, <2>3
<1>9. KeptOK'
  <2> SUFFICES ASSUME NEW q \in Ranks, NEW o \in Peers(q), call[o] = call[q] + 1,
                      NEW c \in Blocks(q), NEW j \in Chunk(stream[call[q]], c)
               PROVE  scratch'[q][o][Base(o, c) % 2][j] = call[q]
    BY <1>1, <1>5 DEF KeptOK, Blocks
  <2>1. /\ call[q] \in 1..Calls /\ stream[call[q]] \in Messages /\ c \in BlockIds
        /\ Base(o, c) \in Nat /\ Base(o, c) % 2 \in {0, 1}
    <3>1. call[q] \in 1..Calls + 1 /\ call[o] \in 1..Calls + 1
      BY DEF TypeOK
    <3>2. call[q] \in 1..Calls
      BY <3>1, CountAssumption
    <3>3. c \in BlockIds /\ Base(o, c) \in Nat
      BY DEF Blocks, Local
    <3> QED
      BY <3>2, <3>3, Parity DEF TypeOK
  <2>2. j \in WordIds
    BY <2>1, ChunkIsWords
  <2>3. scratch[q][o][Base(o, c) % 2][j] = call[q]
    BY DEF KeptOK
  <2>4. ~(q = p /\ o = r /\ Base(o, c) % 2 = Slot(r, b) /\ j = k)
    <3> SUFFICES ASSUME o = r, j = k PROVE Base(o, c) % 2 # Slot(r, b)
      OBVIOUS
    <3>1. c = b
      BY <1>0, <2>1, <2>2 DEF Owned
    <3>2. seq[r][b] = Base(o, c) + 1
      BY <1>0, <1>2, <3>1 DEF Base, Started
    <3> QED
      BY <2>1, <3>2 DEF Slot
  <2> QED
    BY <1>a, <2>1, <2>2, <2>3, <2>4
<1> QED
  BY <1>3, <1>5, <1>6, <1>7, <1>8, <1>9

LEMMA ReleaseOK ==
    ASSUME IInv, NEW r \in Ranks, NEW b \in BlockIds, NEW p \in peers[r][b], Release(r, b, p)
    PROVE  IInv'
<1> USE DEF IInv
<1>0. /\ stage[r][b] = "push" /\ words[r][b] = {} /\ p \in Peers(r) /\ peers[r][b] \subseteq Peers(r)
      /\ seq[r][b] \in 0..SeqMod - 1
  BY DEF Release, Drained, Local, TypeOK
<1>1. /\ flags' = [flags EXCEPT ![p][r][b] = seq[r][b]]
      /\ UNCHANGED <<stream, call, seq, words, scratch, read, result, spins>>
  BY DEF Release
<1>2. /\ \A q \in Ranks : \A c \in BlockIds :
            /\ peers'[q][c] = IF q = r /\ c = b
                                THEN IF peers[r][b] = {p} THEN Peers(r) ELSE peers[r][b] \ {p}
                                ELSE peers[q][c]
            /\ stage'[q][c] = IF q = r /\ c = b /\ peers[r][b] = {p} THEN "spin" ELSE stage[q][c]
      /\ stage' \in [Ranks -> [BlockIds -> Stages]] /\ peers' \in [Ranks -> [BlockIds -> SUBSET Ranks]]
  <2>1. /\ stage \in [Ranks -> [BlockIds -> Stages]] /\ peers \in [Ranks -> [BlockIds -> SUBSET Ranks]]
    BY DEF TypeOK
  <2>2. CASE peers[r][b] = {p}
    <3>1. stage' = [stage EXCEPT ![r][b] = "spin"] /\ "spin" \in Stages
      BY <2>2 DEF Release, Stages
    <3>2. peers' = [peers EXCEPT ![r][b] = Peers(r)]
      BY <2>2 DEF Release
    <3>3. /\ stage' \in [Ranks -> [BlockIds -> Stages]]
          /\ \A q \in Ranks : \A c \in BlockIds :
                stage'[q][c] = IF q = r /\ c = b THEN "spin" ELSE stage[q][c]
      BY <2>1, <3>1
    <3>4. /\ peers' \in [Ranks -> [BlockIds -> SUBSET Ranks]]
          /\ \A q \in Ranks : \A c \in BlockIds :
                peers'[q][c] = IF q = r /\ c = b THEN Peers(r) ELSE peers[q][c]
      BY <2>1, <3>2
    <3> QED
      BY <2>2, <3>3, <3>4
  <2>3. CASE peers[r][b] # {p}
    <3>1. stage' = stage
      BY <2>3 DEF Release
    <3>2. peers' = [peers EXCEPT ![r][b] = @ \ {p}]
      BY <2>3 DEF Release
    <3>3. /\ peers' \in [Ranks -> [BlockIds -> SUBSET Ranks]]
          /\ \A q \in Ranks : \A c \in BlockIds :
                peers'[q][c] = IF q = r /\ c = b THEN peers[r][b] \ {p} ELSE peers[q][c]
      BY <2>1, <3>2
    <3> QED
      BY <2>1, <2>3, <3>1, <3>3
  <2> QED
    BY <2>2, <2>3
<1>b. \A q, o \in Ranks : \A c \in BlockIds :
        flags'[q][o][c] = IF q = p /\ o = r /\ c = b THEN seq[r][b] ELSE flags[q][o][c]
  <2>1. flags \in [Ranks -> [Ranks -> [BlockIds -> 0..SeqMod - 1]]] /\ p \in Ranks
    BY <1>0 DEF TypeOK
  <2> QED
    BY <1>1, <2>1
<1>3. TypeOK'
  <2>1. flags' \in [Ranks -> [Ranks -> [BlockIds -> 0..SeqMod - 1]]]
    BY <1>0, <1>1 DEF TypeOK
  <2> QED
    BY <1>1, <1>2, <2>1 DEF TypeOK
<1>4. /\ \A q \in Ranks : Blocks(q)' = Blocks(q)
      /\ \A q \in Ranks : \A c \in BlockIds : Base(q, c)' = Base(q, c)
      /\ InStep'
  <2>1. \A q \in Ranks : \A c \in BlockIds : stage'[q][c] = "idle" <=> stage[q][c] = "idle"
    BY <1>0, <1>2
  <2> QED
    BY <1>1, <2>1, BaseSame
<1>5. Local'
  <2> SUFFICES ASSUME NEW q \in Ranks, NEW c \in BlockIds
               PROVE  /\ stage'[q][c] # "idle" => call[q] <= Calls /\ c \in Blocks(q)
                      /\ Base(q, c) \in Nat /\ Base(q, c) < call[q]
                      /\ peers'[q][c] \subseteq Peers(q)
                      /\ stage'[q][c] \in {"idle", "spin"} => words[q][c] = {}
                      /\ stage'[q][c] \in {"push", "reduce"} =>
                            words[q][c] \subseteq Chunk(stream[call[q]], c) \X Peers(q)
                      /\ stage'[q][c] = "push" /\ peers'[q][c] # Peers(q) => words[q][c] = {}
    BY <1>1, <1>4 DEF Local, Running
  <2>1. CASE q = r /\ c = b
    BY <1>0, <1>2, <2>1 DEF Local, Running
  <2>2. CASE ~(q = r /\ c = b)
    <3>1. stage'[q][c] = stage[q][c] /\ peers'[q][c] = peers[q][c]
      BY <1>2, <2>2
    <3> QED
      BY <3>1 DEF Local, Running
  <2> QED
    BY <2>1, <2>2
<1>6. \A q, o \in Ranks : \A c \in BlockIds :
        /\ flags[q][o][c] \in Nat /\ flags'[q][o][c] \in Nat /\ seq[o][c] \in Nat
  BY <1>3, CountAssumption DEF TypeOK
<1>7. FlagsOK'
  <2> SUFFICES ASSUME NEW q \in Ranks, NEW o \in Peers(q), NEW c \in BlockIds
               PROVE  flags'[q][o][c] + Pending(o, c, q)' = seq[o][c]
    BY <1>1 DEF FlagsOK
  <2>1. flags[q][o][c] + Pending(o, c, q) = seq[o][c]
    BY DEF FlagsOK
  <2>2. CASE o = r /\ c = b /\ q = p
    BY <1>0, <1>2, <1>b, <1>6, <2>2 DEF Pending
  <2>3. CASE ~(o = r /\ c = b /\ q = p)
    BY <1>0, <1>2, <1>b, <2>1, <2>3 DEF Pending
  <2> QED
    BY <2>2, <2>3
<1>8. SeenOK'
  <2>1. \A q \in Ranks : \A o \in Peers(q) : \A c \in BlockIds : flags'[q][o][c] >= flags[q][o][c]
    <3> SUFFICES ASSUME NEW q \in Ranks, NEW o \in Peers(q), NEW c \in BlockIds
                 PROVE  flags'[q][o][c] >= flags[q][o][c]
      OBVIOUS
    <3>1. flags[q][o][c] + Pending(o, c, q) = seq[o][c]
      BY DEF FlagsOK
    <3> QED
      BY <1>b, <1>6, <3>1 DEF Pending
  <2>2. \A q \in Ranks : \A c \in BlockIds : Base(q, c) \in Nat
    BY DEF Local
  <2> SUFFICES ASSUME NEW q \in Ranks, NEW o \in Peers(q), NEW c \in BlockIds
               PROVE  /\ stage'[q][c] = "reduce" \/ (stage'[q][c] = "spin" /\ o \notin peers'[q][c])
                            => flags'[q][o][c] >= seq[q][c]
                      /\ call[q] = call[o] + 1 => flags'[q][o][c] >= Base(q, c)
    BY <1>1, <1>4 DEF SeenOK
  <2>3. stage'[q][c] = "reduce" \/ (stage'[q][c] = "spin" /\ o \notin peers'[q][c])
          => flags[q][o][c] >= seq[q][c]
    <3>1. CASE q = r /\ c = b
      BY <1>0, <1>2, <3>1
    <3>2. CASE ~(q = r /\ c = b)
      <4>1. stage'[q][c] = stage[q][c] /\ peers'[q][c] = peers[q][c]
        BY <1>2, <3>2
      <4>2. stage[q][c] = "reduce" \/ (stage[q][c] = "spin" /\ o \notin peers[q][c])
              => flags[q][o][c] >= seq[q][c]
        BY DEF SeenOK
      <4> QED
        BY <4>1, <4>2
    <3> QED
      BY <3>1, <3>2
  <2>4. call[q] = call[o] + 1 => flags[q][o][c] >= Base(q, c)
    BY DEF SeenOK
  <2>5. PICK f \in Nat, g \in Nat, x \in Nat, y \in Nat :
          f = flags[q][o][c] /\ g = flags'[q][o][c] /\ x = seq[q][c] /\ y = Base(q, c)
    BY <1>6, <2>2
  <2>6. g >= f
    BY <2>1, <2>5
  <2>7. stage'[q][c] = "reduce" \/ (stage'[q][c] = "spin" /\ o \notin peers'[q][c]) => g >= x
    BY <2>3, <2>5, <2>6
  <2>8. call[q] = call[o] + 1 => g >= y
    BY <2>4, <2>5, <2>6
  <2> QED
    BY <2>5, <2>7, <2>8
<1>9. PushedOK'
  <2> SUFFICES ASSUME NEW q \in Ranks, NEW o \in Peers(q), NEW c \in BlockIds,
                      stage'[o][c] # "idle", NEW j \in Chunk(stream[call[o]], c)',
                      stage'[o][c] = "push" => <<j, q>> \notin words'[o][c]
               PROVE  (scratch[q][o][Slot(o, c)][j] = call[o])'
    BY DEF PushedOK
  <2> SUFFICES scratch[q][o][Slot(o, c)][j] = call[o]
    BY <1>1 DEF Slot
  <2>0. j \in Chunk(stream[call[o]], c)
    BY <1>1
  <2>1. stage[o][c] # "idle" /\ (stage[o][c] = "push" => <<j, q>> \notin words[o][c])
    BY <1>0, <1>1, <1>2
  <2>2. \A k \in Chunk(stream[call[o]], c) :
          (stage[o][c] = "push" => <<k, q>> \notin words[o][c])
             => scratch[q][o][Slot(o, c)][k] = call[o]
    BY <2>1 DEF PushedOK
  <2> QED
    BY <2>0, <2>1, <2>2
<1>10. KeptOK'
  BY <1>1, <1>4 DEF KeptOK, Blocks
<1>11. InputsOK'
  BY <1>1 DEF InputsOK
<1> QED
  BY <1>3, <1>4, <1>5, <1>7, <1>8, <1>9, <1>10, <1>11

\* A block that reduces has seen every peer: it is in the call, or in the next.
LEMMA PeerIsIn ==
    ASSUME IInv, NEW r \in Ranks, NEW p \in Peers(r), NEW b \in BlockIds,
           stage[r][b] = "reduce" \/ (stage[r][b] = "spin" /\ p \notin peers[r][b])
    PROVE  \/ call[p] = call[r] + 1
           \/ call[p] = call[r] /\ stage[p][b] # "idle" /\ Pending(p, b, r) = 0
<1> USE DEF IInv
<1>1. /\ flags[r][p][b] >= seq[r][b] /\ seq[r][b] = Base(r, b) + 1
      /\ flags[r][p][b] + Pending(p, b, r) = Base(p, b) + Started(p, b)
  <2>1. /\ flags[r][p][b] \in Nat /\ seq[r][b] \in Nat /\ seq[p][b] \in Nat
        /\ flags[r][p][b] >= seq[r][b] /\ flags[r][p][b] + Pending(p, b, r) = seq[p][b]
    BY SlotOK, CountAssumption DEF TypeOK, SeenOK, FlagsOK
  <2> QED
    BY <2>1 DEF Base, Started
<1>2. /\ call[r] \in Nat /\ call[p] \in Nat
      /\ Base(r, b) \in Nat /\ Base(p, b) \in Nat /\ flags[r][p][b] \in Nat
      /\ call[r] <= call[p] + 1 /\ call[p] <= call[r] + 1
  <2>1. p \in Ranks /\ r \in Peers(p)
    OBVIOUS
  <2>2. call[r] \in Nat /\ call[p] \in Nat
    <3>1. call \in [Ranks -> 1..Calls + 1]
      BY Zenon DEF TypeOK
    <3> QED
      BY <2>1, <3>1, CountAssumption
  <2>3. Base(r, b) \in Nat /\ Base(p, b) \in Nat
    BY <2>1, Zenon DEF Local
  <2>4. flags[r][p][b] \in Nat
    <3>1. flags \in [Ranks -> [Ranks -> [BlockIds -> 0..SeqMod - 1]]]
      BY Zenon DEF TypeOK
    <3> QED
      BY <2>1, <3>1, CountAssumption
  <2>5. call[r] <= call[p] + 1 /\ call[p] <= call[r] + 1
    BY <2>1, Zenon DEF InStep
  <2> QED
    BY <2>2, <2>3, <2>4, <2>5
<1>3. call[r] # call[p] + 1
  <2> SUFFICES ASSUME call[r] = call[p] + 1 PROVE FALSE
    OBVIOUS
  <2>1. Base(r, b) = Base(p, b) + Uses(p, b)
    BY DEF InStep
  <2>2. Started(p, b) = 1 /\ Uses(p, b) = 0
    BY <1>1, <1>2, <2>1 DEF Started, Uses, Pending
  <2> QED
    BY <2>2 DEF Started, Uses, Local
<1>4. call[p] = call[r] => Started(p, b) = 1 /\ Pending(p, b, r) = 0
  BY <1>1, <1>2 DEF InStep, Started, Pending
<1> QED
  BY <1>2, <1>3, <1>4 DEF Started

LEMMA IntactData == ASSUME IInv PROVE DataIntact
<1> USE DEF IInv
<1> SUFFICES ASSUME NEW r \in Ranks, NEW b \in BlockIds, stage[r][b] = "reduce", NEW w \in words[r][b]
             PROVE  scratch[r][w[2]][Slot(r, b)][w[1]] = call[r]
  BY DEF DataIntact
<1> DEFINE k == w[1]
           p == w[2]
<1>1. /\ p \in Peers(r) /\ k \in Chunk(stream[call[r]], b) /\ b \in Blocks(r)
      /\ seq[r][b] = Base(r, b) + 1
  <2>1. words[r][b] \subseteq Chunk(stream[call[r]], b) \X Peers(r) /\ b \in Blocks(r)
    BY DEF Local
  <2>2. seq[r][b] \in Nat
    BY SlotOK
  <2> QED
    BY <2>1, <2>2 DEF Base, Started
<1> HIDE DEF k, p
<1>2. CASE call[p] = call[r] + 1
  <2>1. Base(p, b) = Base(r, b) + 1
    BY <1>1, <1>2 DEF InStep, Uses
  <2>2. scratch[r][p][Base(p, b) % 2][k] = call[r]
    BY <1>1, <1>2 DEF KeptOK
  <2> QED
    BY <1>1, <2>1, <2>2 DEF Slot, k, p
<1>3. CASE call[p] = call[r] /\ stage[p][b] # "idle" /\ Pending(p, b, r) = 0
  <2>1. stage[p][b] = "push" => words[p][b] = {}
    BY <1>1, <1>3 DEF Pending, Local
  <2>2. scratch[r][p][Slot(p, b)][k] = call[r]
    <3>1. \A j \in Chunk(stream[call[p]], b) :
            (stage[p][b] = "push" => <<j, r>> \notin words[p][b])
               => scratch[r][p][Slot(p, b)][j] = call[p]
      BY <1>1, <1>3 DEF PushedOK
    <3>2. k \in Chunk(stream[call[p]], b) /\ (stage[p][b] = "push" => <<k, r>> \notin words[p][b])
      BY <1>1, <1>3, <2>1
    <3> QED
      BY <1>3, <3>1, <3>2
  <2>3. seq[p][b] = seq[r][b]
    <3>1. seq[p][b] \in Nat
      BY <1>1, SlotOK
    <3> QED
      BY <1>1, <1>3, <3>1 DEF InStep, Base, Started
  <2> QED
    BY <2>2, <2>3 DEF Slot, k, p
<1> QED
  BY <1>1, <1>2, <1>3, PeerIsIn

LEMMA SeeOK ==
    ASSUME IInv, NEW r \in Ranks, NEW b \in BlockIds, NEW p \in peers[r][b], See(r, b, p)
    PROVE  IInv'
<1> USE DEF IInv
<1>0. /\ stage[r][b] = "spin" /\ words[r][b] = {} /\ p \in Peers(r) /\ peers[r][b] \subseteq Peers(r)
      /\ Running(r) /\ b \in Blocks(r) /\ flags[r][p][b] >= seq[r][b]
      /\ call[r] \in 1..Calls /\ stream[call[r]] \in Messages
  <2>1. stage[r][b] = "spin" /\ p \in peers[r][b] /\ flags[r][p][b] >= seq[r][b]
    BY Zenon DEF See, Raised
  <2>2. stage[r][b] # "idle" /\ stage[r][b] \in {"idle", "spin"}
    BY <2>1
  <2>3. Running(r) /\ b \in Blocks(r) /\ peers[r][b] \subseteq Peers(r) /\ words[r][b] = {}
    BY <2>2, Zenon DEF Local
  <2>4. call \in [Ranks -> 1..Calls + 1] /\ stream \in [1..Calls -> Messages]
    BY Zenon DEF TypeOK
  <2>5. call[r] \in 1..Calls
    BY <2>3, <2>4, CountAssumption DEF Running
  <2> QED
    BY <2>1, <2>3, <2>4, <2>5
<1>1. /\ peers' = [peers EXCEPT ![r][b] = @ \ {p}]
      /\ UNCHANGED <<stream, call, seq, scratch, flags, read, result, spins>>
  BY DEF See
<1>2. /\ peers' \in [Ranks -> [BlockIds -> SUBSET Ranks]]
      /\ \A q \in Ranks : \A c \in BlockIds :
            peers'[q][c] = IF q = r /\ c = b THEN peers[r][b] \ {p} ELSE peers[q][c]
  <2>1. peers \in [Ranks -> [BlockIds -> SUBSET Ranks]]
    BY DEF TypeOK
  <2> QED
    BY <1>1, <2>1
<1>3. /\ stage' \in [Ranks -> [BlockIds -> Stages]]
      /\ words' \in [Ranks -> [BlockIds -> SUBSET (WordIds \X Ranks)]]
      /\ \A q \in Ranks : \A c \in BlockIds :
            /\ stage'[q][c] = IF q = r /\ c = b /\ peers[r][b] = {p} THEN "reduce" ELSE stage[q][c]
            /\ words'[q][c] = IF q = r /\ c = b /\ peers[r][b] = {p}
                                THEN Chunk(stream[call[r]], b) \X Peers(r) ELSE words[q][c]
  <2>1. stage \in [Ranks -> [BlockIds -> Stages]] /\ words \in [Ranks -> [BlockIds -> SUBSET (WordIds \X Ranks)]]
    BY DEF TypeOK
  <2>2. CASE peers[r][b] = {p}
    <3>1. stage' = [stage EXCEPT ![r][b] = "reduce"] /\ "reduce" \in Stages
      BY <2>2 DEF See, Reduce, Stages
    <3>2. /\ words' = [words EXCEPT ![r][b] = Chunk(stream[call[r]], b) \X Peers(r)]
          /\ Chunk(stream[call[r]], b) \X Peers(r) \subseteq WordIds \X Ranks
      BY <1>0, <2>2, ChunkIsWords DEF See, Reduce
    <3>3. /\ stage' \in [Ranks -> [BlockIds -> Stages]]
          /\ \A q \in Ranks : \A c \in BlockIds :
                stage'[q][c] = IF q = r /\ c = b THEN "reduce" ELSE stage[q][c]
      BY <2>1, <3>1
    <3>4. /\ words' \in [Ranks -> [BlockIds -> SUBSET (WordIds \X Ranks)]]
          /\ \A q \in Ranks : \A c \in BlockIds :
                words'[q][c] = IF q = r /\ c = b THEN Chunk(stream[call[r]], b) \X Peers(r)
                                                ELSE words[q][c]
      BY <2>1, <3>2
    <3> QED
      BY <2>2, <3>3, <3>4
  <2>3. CASE peers[r][b] # {p}
    BY <2>1, <2>3 DEF See
  <2> QED
    BY <2>2, <2>3
<1>4. TypeOK'
  BY <1>1, <1>2, <1>3 DEF TypeOK
<1>5. /\ \A q \in Ranks : Blocks(q)' = Blocks(q)
      /\ \A q \in Ranks : \A c \in BlockIds : Base(q, c)' = Base(q, c)
      /\ InStep'
  <2>1. \A q \in Ranks : \A c \in BlockIds : stage'[q][c] = "idle" <=> stage[q][c] = "idle"
    BY <1>0, <1>3
  <2> QED
    BY <1>1, <2>1, BaseSame
<1>6. Local'
  <2> SUFFICES ASSUME NEW q \in Ranks, NEW c \in BlockIds
               PROVE  /\ stage'[q][c] # "idle" => call[q] <= Calls /\ c \in Blocks(q)
                      /\ Base(q, c) \in Nat /\ Base(q, c) < call[q]
                      /\ peers'[q][c] \subseteq Peers(q)
                      /\ stage'[q][c] \in {"idle", "spin"} => words'[q][c] = {}
                      /\ stage'[q][c] \in {"push", "reduce"} =>
                            words'[q][c] \subseteq Chunk(stream[call[q]], c) \X Peers(q)
                      /\ stage'[q][c] = "push" /\ peers'[q][c] # Peers(q) => words'[q][c] = {}
    BY <1>1, <1>5 DEF Local, Running
  <2>1. CASE q = r /\ c = b
    <3>1. Base(r, b) \in Nat /\ Base(r, b) < call[r]
      BY DEF Local
    <3>2. CASE peers[r][b] = {p}
      <4>1. /\ stage'[r][b] = "reduce" /\ peers'[r][b] = {}
            /\ words'[r][b] = Chunk(stream[call[r]], b) \X Peers(r)
        BY <1>2, <1>3, <3>2
      <4> QED
        BY <1>0, <2>1, <3>1, <4>1 DEF Running
    <3>3. CASE peers[r][b] # {p}
      <4>1. /\ stage'[r][b] = "spin" /\ peers'[r][b] = peers[r][b] \ {p} /\ words'[r][b] = {}
        BY <1>0, <1>2, <1>3, <3>3
      <4> QED
        BY <1>0, <2>1, <3>1, <4>1 DEF Running
    <3> QED
      BY <3>2, <3>3
  <2>2. CASE ~(q = r /\ c = b)
    <3>1. stage'[q][c] = stage[q][c] /\ peers'[q][c] = peers[q][c] /\ words'[q][c] = words[q][c]
      BY <1>2, <1>3, <2>2
    <3> QED
      BY <3>1 DEF Local, Running
  <2> QED
    BY <2>1, <2>2
<1>7. FlagsOK'
  <2>1. ASSUME NEW q \in Ranks, NEW o \in Peers(q), NEW c \in BlockIds
        PROVE  Pending(o, c, q)' = Pending(o, c, q)
    <3>1. o \in Ranks
      OBVIOUS
    <3>2. CASE o = r /\ c = b
      <4>1. stage[o][c] # "push" /\ stage'[o][c] # "push"
        BY <1>0, <1>3, <3>1, <3>2
      <4> QED
        BY <4>1, Zenon DEF Pending
    <3>3. CASE ~(o = r /\ c = b)
      <4>1. stage'[o][c] = stage[o][c] /\ peers'[o][c] = peers[o][c]
        BY <1>2, <1>3, <3>1, <3>3
      <4> QED
        BY <4>1, Zenon DEF Pending
    <3> QED
      BY <3>2, <3>3
  <2> QED
    BY <1>1, <2>1 DEF FlagsOK
<1>8. SeenOK'
  <2> SUFFICES ASSUME NEW q \in Ranks, NEW o \in Peers(q), NEW c \in BlockIds
               PROVE  /\ stage'[q][c] = "reduce" \/ (stage'[q][c] = "spin" /\ o \notin peers'[q][c])
                            => flags[q][o][c] >= seq[q][c]
                      /\ call[q] = call[o] + 1 => flags[q][o][c] >= Base(q, c)
    BY <1>1, <1>5 DEF SeenOK
  <2>1. CASE q = r /\ c = b
    <3>1. call[q] = call[o] + 1 => flags[q][o][c] >= Base(q, c)
      BY DEF SeenOK
    <3>2. CASE o = p
      BY <1>0, <2>1, <3>1, <3>2
    <3>3. CASE o # p
      <4>1. o \in peers[r][b] => o \in peers'[r][b] /\ peers[r][b] # {p}
        BY <1>2, <3>3
      <4>2. o \notin peers[r][b] => flags[r][o][b] >= seq[r][b]
        BY <1>0, <2>1 DEF SeenOK
      <4>3. peers[r][b] # {p} => stage'[r][b] = "spin"
        BY <1>0, <1>3
      <4> QED
        BY <2>1, <3>1, <4>1, <4>2, <4>3
    <3> QED
      BY <3>2, <3>3
  <2>2. CASE ~(q = r /\ c = b)
    <3>1. stage'[q][c] = stage[q][c] /\ peers'[q][c] = peers[q][c]
      BY <1>2, <1>3, <2>2
    <3>2. /\ stage[q][c] = "reduce" \/ (stage[q][c] = "spin" /\ o \notin peers[q][c])
               => flags[q][o][c] >= seq[q][c]
          /\ call[q] = call[o] + 1 => flags[q][o][c] >= Base(q, c)
      BY DEF SeenOK
    <3> QED
      BY <3>1, <3>2
  <2> QED
    BY <2>1, <2>2
<1>9. PushedOK'
  <2> SUFFICES ASSUME NEW q \in Ranks, NEW o \in Peers(q), NEW c \in BlockIds,
                      stage'[o][c] # "idle", NEW j \in Chunk(stream[call[o]], c)',
                      stage'[o][c] = "push" => <<j, q>> \notin words'[o][c]
               PROVE  (scratch[q][o][Slot(o, c)][j] = call[o])'
    BY DEF PushedOK
  <2> SUFFICES scratch[q][o][Slot(o, c)][j] = call[o]
    BY <1>1 DEF Slot
  <2>0. j \in Chunk(stream[call[o]], c)
    BY <1>1
  <2>1. stage[o][c] # "idle" /\ (stage[o][c] = "push" => <<j, q>> \notin words[o][c])
    BY <1>0, <1>3
  <2>2. \A k \in Chunk(stream[call[o]], c) :
          (stage[o][c] = "push" => <<k, q>> \notin words[o][c])
             => scratch[q][o][Slot(o, c)][k] = call[o]
    BY <2>1 DEF PushedOK
  <2> QED
    BY <2>0, <2>1, <2>2
<1>10. KeptOK'
  BY <1>1, <1>5 DEF KeptOK, Blocks
<1>11. InputsOK'
  BY <1>1 DEF InputsOK
<1> QED
  BY <1>4, <1>5, <1>6, <1>7, <1>8, <1>9, <1>10, <1>11

LEMMA ReadOK ==
    ASSUME IInv, NEW r \in Ranks, NEW b \in BlockIds, NEW k, NEW p, Read(r, b, k, p)
    PROVE  IInv'
<1> USE DEF IInv
<1>0. /\ stage[r][b] = "reduce" /\ <<k, p>> \in words[r][b]
      /\ scratch[r][p][Slot(r, b)][k] = call[r] /\ call[r] \in 1..Calls
  <2>1. stage[r][b] = "reduce" /\ <<k, p>> \in words[r][b]
    BY DEF Read
  <2>2. scratch[r][p][Slot(r, b)][k] = call[r]
    BY <2>1, IntactData DEF DataIntact
  <2>3. Running(r) /\ call[r] \in 1..Calls + 1
    BY <2>1 DEF Local, TypeOK
  <2> QED
    BY <2>1, <2>2, <2>3, CountAssumption DEF Running
<1>1. /\ read' = [read EXCEPT ![r] = @ \cup {call[r]}]
      /\ words' = [words EXCEPT ![r][b] = @ \ {<<k, p>>}]
      /\ UNCHANGED <<stream, call, seq, stage, peers, scratch, flags, result, spins>>
  BY <1>0 DEF Read
<1>2. /\ words' \in [Ranks -> [BlockIds -> SUBSET (WordIds \X Ranks)]]
      /\ \A q \in Ranks : \A c \in BlockIds :
            words'[q][c] = IF q = r /\ c = b THEN words[r][b] \ {<<k, p>>} ELSE words[q][c]
  <2>1. words \in [Ranks -> [BlockIds -> SUBSET (WordIds \X Ranks)]]
    BY DEF TypeOK
  <2> QED
    BY <1>1, <2>1
<1>3. /\ read' \in [Ranks -> SUBSET (0..Calls)]
      /\ \A q \in Ranks : read'[q] = IF q = r THEN read[r] \cup {call[r]} ELSE read[q]
  <2>1. read \in [Ranks -> SUBSET (0..Calls)]
    BY DEF TypeOK
  <2>2. call[r] \in 0..Calls
    BY <1>0, CountAssumption
  <2> QED
    BY <1>1, <2>1, <2>2
<1>4. TypeOK'
  BY <1>1, <1>2, <1>3 DEF TypeOK
<1>5. /\ \A q \in Ranks : Blocks(q)' = Blocks(q)
      /\ \A q \in Ranks : \A c \in BlockIds : Base(q, c)' = Base(q, c)
      /\ InStep'
  BY <1>1, BaseSame
<1>6. Local'
  BY <1>1, <1>2, <1>5 DEF Local, Running
<1>7. FlagsOK' /\ SeenOK'
  BY <1>1, <1>5 DEF FlagsOK, Pending, SeenOK
<1>8. PushedOK'
  <2>1. \A q \in Ranks : \A c \in BlockIds : stage[q][c] = "push" => words'[q][c] = words[q][c]
    BY <1>0, <1>2
  <2> QED
    BY <1>1, <2>1 DEF PushedOK, Slot
<1>9. KeptOK'
  BY <1>1, <1>5 DEF KeptOK, Blocks
<1>10. InputsOK'
  BY <1>1, <1>3 DEF InputsOK
<1> QED
  BY <1>4, <1>5, <1>6, <1>7, <1>8, <1>9, <1>10

-----------------------------------------------------------------------------
\* A rank ends a call only when every peer is in it, or in the next.
LEMMA EndsIn ==
    ASSUME IInv, NEW r \in Ranks, EndCall(r)
    PROVE  /\ 0 \in Blocks(r) /\ stage[r][0] = "reduce"
           /\ call[r] \in 1..Calls /\ call[r] + 1 \in 1..Calls + 1
           /\ \A p \in Peers(r) :
                \/ call[p] = call[r] + 1
                \/ /\ call[p] = call[r]
                   /\ \A b \in Blocks(r) : stage[p][b] # "idle" /\ Pending(p, b, r) = 0
<1> USE DEF IInv
<1>1. Running(r) /\ \A b \in Blocks(r) : stage[r][b] = "reduce"
  BY DEF EndCall
<1>2. call[r] \in 1..Calls /\ call[r] + 1 \in 1..Calls + 1
  BY <1>1, CountAssumption DEF Running, TypeOK
<1>3. 0 \in Blocks(r)
  <2>1. stream[call[r]] \in Messages
    BY <1>2 DEF TypeOK
  <2> QED
    BY <2>1, GridPositive, ZeroIsBlock DEF Blocks
<1>4. \A p \in Peers(r) :
        \/ call[p] = call[r] + 1
        \/ /\ call[p] = call[r]
           /\ \A b \in Blocks(r) : stage[p][b] # "idle" /\ Pending(p, b, r) = 0
  <2> SUFFICES ASSUME NEW p \in Peers(r)
               PROVE  \/ call[p] = call[r] + 1
                      \/ /\ call[p] = call[r]
                         /\ \A b \in Blocks(r) : stage[p][b] # "idle" /\ Pending(p, b, r) = 0
    OBVIOUS
  <2>1. \A b \in Blocks(r) : \/ call[p] = call[r] + 1
                             \/ call[p] = call[r] /\ stage[p][b] # "idle" /\ Pending(p, b, r) = 0
    BY <1>1, PeerIsIn DEF Blocks
  <2>2. call[r] # call[r] + 1
    BY <1>2
  <2> QED
    BY <1>3, <2>1, <2>2
<1> QED
  BY <1>1, <1>2, <1>3, <1>4

LEMMA EndOK == ASSUME IInv, NEW r \in Ranks, EndCall(r) PROVE IInv'
<1> USE DEF IInv
<1>0. /\ 0 \in Blocks(r) /\ call[r] \in 1..Calls /\ call[r] + 1 \in 1..Calls + 1
      /\ \A b \in Blocks(r) : stage[r][b] = "reduce" /\ words[r][b] = {}
      /\ \A p \in Peers(r) :
           \/ call[p] = call[r] + 1
           \/ /\ call[p] = call[r]
              /\ \A b \in Blocks(r) : stage[p][b] # "idle" /\ Pending(p, b, r) = 0
  BY EndsIn DEF EndCall
<1>1. /\ call' = [call EXCEPT ![r] = @ + 1]
      /\ stage' = [stage EXCEPT ![r] = [b \in BlockIds |-> "idle"]]
      /\ result' = [result EXCEPT ![r][call[r]] = read[r] \cup {call[r]}]
      /\ read' = [read EXCEPT ![r] = {}]
      /\ UNCHANGED <<stream, seq, words, peers, scratch, flags, spins>>
  BY DEF EndCall
<1>2. /\ call' \in [Ranks -> 1..Calls + 1]
      /\ \A q \in Ranks : call'[q] = IF q = r THEN call[r] + 1 ELSE call[q]
  <2>1. call \in [Ranks -> 1..Calls + 1]
    BY DEF TypeOK
  <2> QED
    BY <1>0, <1>1, <2>1
<1>3. /\ stage' \in [Ranks -> [BlockIds -> Stages]]
      /\ \A q \in Ranks : \A c \in BlockIds : stage'[q][c] = IF q = r THEN "idle" ELSE stage[q][c]
  <2>1. stage \in [Ranks -> [BlockIds -> Stages]] /\ [b \in BlockIds |-> "idle"] \in [BlockIds -> Stages]
    BY DEF TypeOK, Stages
  <2>2. stage' \in [Ranks -> [BlockIds -> Stages]]
    BY <1>1, <2>1
  <2>3. \A q \in Ranks : stage'[q] = IF q = r THEN [b \in BlockIds |-> "idle"] ELSE stage[q]
    BY <1>1, <2>1
  <2> QED
    BY <2>2, <2>3
<1>4. /\ read' \in [Ranks -> SUBSET (0..Calls)]
      /\ \A q \in Ranks : read'[q] = IF q = r THEN {} ELSE read[q]
  <2>1. read \in [Ranks -> SUBSET (0..Calls)]
    BY DEF TypeOK
  <2> QED
    BY <1>1, <2>1
<1>5. result' \in [Ranks -> [1..Calls -> SUBSET (0..Calls)]]
  <2>1. result \in [Ranks -> [1..Calls -> SUBSET (0..Calls)]]
    BY DEF TypeOK
  <2>2. read[r] \cup {call[r]} \in SUBSET (0..Calls)
    BY <1>0, CountAssumption DEF TypeOK
  <2> QED
    BY <1>0, <1>1, <2>1, <2>2
<1>6. TypeOK'
  BY <1>1, <1>2, <1>3, <1>4, <1>5 DEF TypeOK
<1>7. \A q \in Ranks : \A c \in BlockIds :
        /\ seq[q][c] \in Nat /\ Base(q, c) \in Nat /\ Base(q, c) < call[q] /\ call[q] \in Nat
        /\ Base(q, c)' = IF q = r THEN seq[r][c] ELSE Base(q, c)
        /\ q = r => seq[r][c] = Base(r, c) + Uses(r, c)
  <2> SUFFICES ASSUME NEW q \in Ranks, NEW c \in BlockIds
               PROVE  /\ seq[q][c] \in Nat /\ Base(q, c) \in Nat /\ Base(q, c) < call[q]
                      /\ call[q] \in Nat
                      /\ Base(q, c)' = IF q = r THEN seq[r][c] ELSE Base(q, c)
                      /\ q = r => seq[r][c] = Base(r, c) + Uses(r, c)
    OBVIOUS
  <2>1. seq[q][c] \in Nat /\ call[q] \in Nat /\ Base(q, c) \in Nat /\ Base(q, c) < call[q]
    BY SlotOK, CountAssumption DEF TypeOK, Local
  <2>2. Base(q, c)' = IF q = r THEN seq[r][c] ELSE Base(q, c)
    BY <1>1, <1>3, <2>1 DEF Base, Started
  <2>3. stage[r][c] # "idle" <=> c \in Blocks(r)
    BY <1>0 DEF Local
  <2> QED
    BY <2>1, <2>2, <2>3 DEF Base, Started, Uses
<1>8. \A q \in Ranks \ {r} : Blocks(q)' = Blocks(q)
  BY <1>1, <1>2 DEF Blocks
<1>9. Local'
  <2> SUFFICES ASSUME NEW q \in Ranks, NEW c \in BlockIds
               PROVE  /\ stage'[q][c] # "idle" => call'[q] <= Calls /\ c \in Blocks(q)'
                      /\ Base(q, c)' \in Nat /\ Base(q, c)' < call'[q]
                      /\ peers[q][c] \subseteq Peers(q)
                      /\ stage'[q][c] \in {"idle", "spin"} => words[q][c] = {}
                      /\ stage'[q][c] \in {"push", "reduce"} =>
                            words[q][c] \subseteq Chunk(stream[call'[q]], c) \X Peers(q)
                      /\ stage'[q][c] = "push" /\ peers[q][c] # Peers(q) => words[q][c] = {}
    BY <1>1 DEF Local, Running
  <2>1. CASE q = r
    <3>1. words[r][c] = {}
      BY <1>0 DEF Local
    <3>2. peers[r][c] \subseteq Peers(r)
      BY DEF Local
    <3>3. seq[r][c] < call[r] + 1
      BY <1>7 DEF Uses
    <3> QED
      BY <1>2, <1>3, <1>7, <2>1, <3>1, <3>2, <3>3
  <2>2. CASE q # r
    BY <1>2, <1>3, <1>7, <1>8, <2>2 DEF Local, Running
  <2> QED
    BY <2>1, <2>2
<1>10. InStep'
  <2> SUFFICES ASSUME NEW q \in Ranks, NEW p \in Peers(q)
               PROVE  /\ call'[q] <= call'[p] + 1
                      /\ \A c \in BlockIds :
                           /\ call'[q] = call'[p] => Base(q, c)' = Base(p, c)'
                           /\ call'[q] = call'[p] + 1 => Base(q, c)' = Base(p, c)' + Uses(p, c)'
    BY DEF InStep
  <2>0. call[q] \in Nat /\ call[p] \in Nat
    BY <1>7, ZeroIsBlock
  <2>1. CASE q = r
    <3>1. call[p] \in {call[r], call[r] + 1} /\ call'[q] = call[r] + 1 /\ call'[p] = call[p]
      BY <1>0, <1>2, <2>1
    <3>2. ASSUME NEW c \in BlockIds
          PROVE  /\ call'[q] = call'[p] => Base(q, c)' = Base(p, c)'
                 /\ call'[q] = call'[p] + 1 => Base(q, c)' = Base(p, c)' + Uses(p, c)'
      <4>1. Base(q, c)' = Base(r, c) + Uses(r, c) /\ Base(p, c)' = Base(p, c)
        BY <1>7, <2>1
      <4>2. call[p] = call[r] + 1 => Base(p, c) = Base(r, c) + Uses(r, c)
        BY <2>1 DEF InStep
      <4>3. call[p] = call[r] => Base(p, c) = Base(r, c) /\ Uses(p, c)' = Uses(r, c)
        BY <1>8, <2>1 DEF InStep, Uses, Blocks
      <4> QED
        BY <2>0, <2>1, <3>1, <4>1, <4>2, <4>3
    <3> QED
      BY <2>0, <2>1, <3>1, <3>2
  <2>2. CASE p = r
    <3>1. call[q] \in {call[r], call[r] + 1} /\ call'[p] = call[r] + 1 /\ call'[q] = call[q]
      BY <1>0, <1>2, <2>2
    <3>2. ASSUME NEW c \in BlockIds, call[q] = call[r] + 1
          PROVE  Base(q, c)' = Base(p, c)'
      <4>1. Base(p, c)' = Base(r, c) + Uses(r, c) /\ Base(q, c)' = Base(q, c)
        BY <1>7, <2>2
      <4> QED
        BY <2>2, <3>2, <4>1 DEF InStep
    <3> QED
      BY <2>0, <2>2, <3>1, <3>2
  <2>3. CASE q # r /\ p # r
    BY <1>2, <1>7, <1>8, <2>3 DEF InStep, Uses
  <2> QED
    BY <2>1, <2>2, <2>3
<1>11. FlagsOK'
  <2> SUFFICES ASSUME NEW q \in Ranks, NEW o \in Peers(q), NEW c \in BlockIds
               PROVE  flags[q][o][c] + Pending(o, c, q)' = seq[o][c]
    BY <1>1 DEF FlagsOK
  <2>1. flags[q][o][c] + Pending(o, c, q) = seq[o][c]
    BY DEF FlagsOK
  <2>2. stage[r][c] # "push"
    BY <1>0 DEF Local
  <2>3. Pending(o, c, q)' = Pending(o, c, q)
    BY <1>1, <1>3, <2>2 DEF Pending
  <2> QED
    BY <2>1, <2>3
<1>12. SeenOK'
  <2> SUFFICES ASSUME NEW q \in Ranks, NEW p \in Peers(q), NEW c \in BlockIds
               PROVE  /\ stage'[q][c] = "reduce" \/ (stage'[q][c] = "spin" /\ p \notin peers[q][c])
                            => flags[q][p][c] >= seq[q][c]
                      /\ call'[q] = call'[p] + 1 => flags[q][p][c] >= Base(q, c)'
    BY <1>1 DEF SeenOK
  <2>0. /\ flags[q][p][c] \in Nat /\ flags[q][p][c] + Pending(p, c, q) = seq[p][c]
        /\ call[q] \in Nat /\ call[p] \in Nat
    BY <1>7, CountAssumption DEF TypeOK, FlagsOK
  <2>1. stage'[q][c] = "reduce" \/ (stage'[q][c] = "spin" /\ p \notin peers[q][c])
          => flags[q][p][c] >= seq[q][c]
    BY <1>3 DEF SeenOK
  <2>2. CASE q = r /\ call[p] = call[r]
    <3>1. Base(q, c)' = Base(r, c) + Uses(r, c) /\ Base(p, c) = Base(r, c)
      BY <1>7, <2>2 DEF InStep
    <3>2. CASE c \in Blocks(r)
      <4>1. flags[r][p][c] >= seq[r][c]
        BY <1>0, <2>2, <3>2 DEF SeenOK
      <4> QED
        BY <1>7, <2>1, <2>2, <4>1
    <3>3. CASE c \notin Blocks(r)
      <4>1. stage[p][c] = "idle"
        BY <2>2, <3>3 DEF Local, Blocks
      <4>2. flags[r][p][c] = seq[p][c] /\ seq[p][c] = Base(p, c)
        BY <1>7, <2>0, <2>2, <4>1 DEF Base, Started, Pending
      <4> QED
        BY <1>7, <2>1, <2>2, <3>1, <3>3, <4>2 DEF Uses
    <3> QED
      BY <3>2, <3>3
  <2>3. CASE ~(q = r /\ call[p] = call[r])
    <3>1. call'[q] = call'[p] + 1 => call[q] = call[p] + 1 /\ q # r
      <4>1. CASE q = r
        BY <1>0, <1>2, <2>0, <2>3, <4>1
      <4>2. CASE q # r
        <5>1. p = r => call[q] \in {call[r], call[r] + 1}
          BY <1>0, <4>2
        <5> QED
          BY <1>2, <2>0, <4>2, <5>1
      <4> QED
        BY <4>1, <4>2
    <3> QED
      BY <1>7, <2>1, <3>1 DEF SeenOK
  <2> QED
    BY <2>2, <2>3
<1>13. PushedOK'
  <2>1. \A q \in Ranks : \A c \in BlockIds :
          stage'[q][c] # "idle" => q # r /\ stage'[q][c] = stage[q][c] /\ call'[q] = call[q]
    BY <1>2, <1>3
  <2> QED
    BY <1>1, <2>1 DEF PushedOK, Slot
<1>14. KeptOK'
  <2> SUFFICES ASSUME NEW q \in Ranks, NEW p \in Peers(q), call'[p] = call'[q] + 1,
                      NEW c \in Blocks(q)', NEW k \in Chunk(stream[call'[q]], c)
               PROVE  scratch[q][p][Base(p, c)' % 2][k] = call'[q]
    BY <1>1 DEF KeptOK
  <2>0. call[q] \in Nat /\ call[p] \in Nat /\ c \in BlockIds
    BY <1>7, ZeroIsBlock DEF Blocks
  <2>1. q # r
    <3> SUFFICES ASSUME q = r PROVE FALSE
      OBVIOUS
    <3> QED
      BY <1>0, <1>2, <2>0
  <2>2. call'[q] = call[q] /\ c \in Blocks(q)
    BY <1>2, <1>8, <2>1
  <2>3. CASE p = r
    <3>1. call[q] = call[r]
      BY <1>2, <2>0, <2>2, <2>3
    <3>2. c \in Blocks(r)
      BY <2>2, <3>1 DEF Blocks
    <3>3. scratch[q][r][Slot(r, c)][k] = call[r]
      <4>1. stage[r][c] = "reduce" /\ k \in Chunk(stream[call[r]], c) /\ r \in Peers(q)
        BY <1>0, <2>1, <2>2, <3>1, <3>2
      <4> QED
        BY <2>0, <4>1 DEF PushedOK
    <3> QED
      BY <1>7, <2>0, <2>2, <2>3, <3>1, <3>3 DEF Slot
  <2>4. CASE p # r
    BY <1>2, <1>7, <2>0, <2>2, <2>4 DEF KeptOK
  <2> QED
    BY <2>3, <2>4
<1>15. InputsOK'
  BY <1>1, <1>2, <1>4 DEF InputsOK
<1> QED
  BY <1>6, <1>9, <1>10, <1>11, <1>12, <1>13, <1>14, <1>15

-----------------------------------------------------------------------------
\* With no spin given up there is no such step.
LEMMA NoSpinOut ==
    ASSUME TypeOK, Undisturbed, NEW r \in Ranks, NEW b \in BlockIds
    PROVE  ~SpinOut(r, b)
<1>1. spins[r] = 0
  BY DEF TypeOK, Undisturbed
<1> QED
  BY <1>1 DEF SpinOut, GivesUp, Undisturbed

LEMMA NextIInv == ASSUME IInv, Owned, Undisturbed, [Next]_vars PROVE IInv'
<1>1. CASE UNCHANGED vars
  <2>1. UNCHANGED <<stream, call, seq, stage, words, peers, scratch, flags, read, result, spins>>
    BY <1>1 DEF vars, kernel
  <2>2. /\ \A q \in Ranks : Blocks(q)' = Blocks(q)
        /\ \A q \in Ranks : \A c \in BlockIds : Base(q, c)' = Base(q, c)
        /\ InStep'
    BY <2>1, BaseSame DEF IInv
  <2>3. TypeOK' /\ FlagsOK' /\ InputsOK'
    BY <2>1 DEF IInv, TypeOK, FlagsOK, Pending, InputsOK
  <2>4. Local' /\ SeenOK'
    BY <2>1, <2>2 DEF IInv, Local, Running, SeenOK
  <2>5. PushedOK' /\ KeptOK'
    BY <2>1, <2>2 DEF IInv, PushedOK, Slot, KeptOK, Blocks
  <2> QED
    BY <2>2, <2>3, <2>4, <2>5 DEF IInv
<1>2. CASE Next
  <2>1. PICK r \in Ranks : Rank(r)
    BY <1>2 DEF Next
  <2>2. CASE EndCall(r)
    BY <2>2, EndOK
  <2>3. ASSUME NEW b \in BlockIds, Block(r, b) PROVE IInv'
    <3>1. CASE Start(r, b)
      BY <3>1, StartOK
    <3>2. CASE SpinOut(r, b)
      BY <3>2, NoSpinOut DEF IInv
    <3>3. ASSUME NEW p \in peers[r][b], Release(r, b, p) PROVE IInv'
      BY <3>3, ReleaseOK
    <3>4. ASSUME NEW p \in peers[r][b], See(r, b, p) PROVE IInv'
      BY <3>4, SeeOK
    <3>5. ASSUME NEW w \in words[r][b], Push(r, b, w[1], w[2]) PROVE IInv'
      BY <3>5, PushOK
    <3>6. ASSUME NEW w \in words[r][b], Read(r, b, w[1], w[2]) PROVE IInv'
      BY <3>6, ReadOK
    <3> QED
      BY <2>3, <3>1, <3>2, <3>3, <3>4, <3>5, <3>6 DEF Block
  <2> QED
    BY <2>1, <2>2, <2>3 DEF Rank
<1> QED
  BY <1>1, <1>2

\* The invariant holds in every reachable state.
LEMMA SpecIInv == Owned /\ Undisturbed => (Spec => []IInv)
<1> SUFFICES ASSUME Owned, Undisturbed PROVE Spec => []IInv
  OBVIOUS
<1>1. Init => IInv
  BY InitIInv
<1>2. IInv /\ [Next]_vars => IInv'
  BY NextIInv
<1> QED
  BY <1>1, <1>2, PTL DEF Spec

\* What a block reads of a peer is what that peer pushed for the same call: two
\* slots are enough for any number of ranks and any stream of calls.
THEOREM SlotReuse == Owned /\ Undisturbed => (Spec => []DataIntact)
<1> SUFFICES ASSUME Owned, Undisturbed PROVE Spec => []DataIntact
  OBVIOUS
<1>1. IInv => DataIntact
  BY IntactData
<1> QED
  BY <1>1, SpecIInv, PTL

-----------------------------------------------------------------------------
(* The kernel implements AllReduce.                                         *)

\* A rank has begun its call once a block of it has started.
LEMMA BegunIs ==
    ASSUME NEW r \in Ranks
    PROVE  Begun[r] = IF \E b \in BlockIds : stage[r][b] # "idle" THEN call[r] ELSE call[r] - 1
  BY DEF Begun

LEMMA InitMaps == ASSUME Init PROVE Abstract!Init
<1>1. Begun = [r \in Ranks |-> 0] /\ Ended = [r \in Ranks |-> 0]
  BY DEF Init, Begun, Ended
<1> QED
  BY <1>1 DEF Init, Abstract!Init

\* The first block to start begins the call, and the other ones find it begun.
LEMMA StartMaps ==
    ASSUME IInv, NEW r \in Ranks, NEW b \in BlockIds, Start(r, b)
    PROVE  Abstract!Begin(r) \/ UNCHANGED Abstract!vars
<1>1. /\ stage[r][b] = "idle" /\ call[r] <= Calls /\ call[r] \in Nat /\ Calls \in Nat
      /\ stage' = [stage EXCEPT ![r][b] = "push"] /\ stage \in [Ranks -> [BlockIds -> Stages]]
      /\ UNCHANGED <<call, result>>
  BY CountAssumption DEF Start, Running, IInv, TypeOK
<1>2. Ended' = Ended /\ Ended[r] = call[r] - 1
  BY <1>1 DEF Ended
<1>3. /\ \A q \in Ranks \ {r} : stage'[q] = stage[q]
      /\ stage'[r][b] # "idle" /\ \A c \in BlockIds \ {b} : stage'[r][c] = stage[r][c]
  BY <1>1
<1>4. CASE \E c \in BlockIds : stage[r][c] # "idle"
  <2>1. \A q \in Ranks : (\E c \in BlockIds : stage'[q][c] # "idle")
                            <=> (\E c \in BlockIds : stage[q][c] # "idle")
    BY <1>3, <1>4
  <2>2. Begun' = Begun
    BY <1>1, <2>1 DEF Begun
  <2> QED
    BY <1>1, <1>2, <2>2 DEF Abstract!vars
<1>5. CASE \A c \in BlockIds : stage[r][c] = "idle"
  <2>1. Begun[r] = call[r] - 1
    BY <1>5, BegunIs
  <2>2. Begun' = [Begun EXCEPT ![r] = call[r]]
    BY <1>1, <1>3 DEF Begun
  <2>3. Begun' = [Begun EXCEPT ![r] = @ + 1]
    <3>1. call[r] = Begun[r] + 1
      BY <1>1, <2>1
    <3> HIDE DEF Begun
    <3> QED
      BY <2>2, <3>1
  <2>4. Begun[r] = Ended[r] /\ Begun[r] < Calls
    BY <1>1, <1>2, <2>1
  <2> QED
    BY <1>1, <1>2, <2>3, <2>4 DEF Abstract!Begin
<1> QED
  BY <1>4, <1>5

\* A call ends when every rank has begun it, and with its own inputs alone.
LEMMA EndMaps == ASSUME IInv, NEW r \in Ranks, EndCall(r) PROVE Abstract!End(r)
<1>1. /\ 0 \in BlockIds /\ stage[r][0] = "reduce" /\ call[r] \in Nat
      /\ \A q \in Ranks : call[q] \in Nat
  <2>1. \A q \in Ranks : call[q] \in Nat
    BY CountAssumption DEF IInv, TypeOK
  <2> QED
    BY <2>1, EndsIn, ZeroIsBlock
<1>2. Begun[r] = call[r] /\ Ended[r] = call[r] - 1
  BY <1>1, BegunIs DEF Ended
<1>3. \A p \in Ranks : Begun[p] >= Begun[r]
  <2> SUFFICES ASSUME NEW p \in Ranks PROVE Begun[p] >= call[r]
    BY <1>2
  <2>1. CASE p = r
    BY <1>1, <1>2, <2>1
  <2>2. CASE p # r /\ call[p] = call[r] + 1
    BY <1>1, <2>2, BegunIs
  <2>3. CASE p # r /\ call[p] = call[r] /\ stage[p][0] # "idle"
    BY <1>1, <2>3, BegunIs
  <2> QED
    BY <2>1, <2>2, <2>3, EndsIn
<1>4. /\ call' = [call EXCEPT ![r] = @ + 1] /\ call \in [Ranks -> 1..Calls + 1]
      /\ stage' = [stage EXCEPT ![r] = [b \in BlockIds |-> "idle"]]
      /\ stage \in [Ranks -> [BlockIds -> Stages]]
      /\ result' = [result EXCEPT ![r][call[r]] = read[r] \cup {call[r]}]
  BY DEF EndCall, IInv, TypeOK
<1>5. Ended' = [Ended EXCEPT ![r] = @ + 1]
  <2>1. \A q \in Ranks : call'[q] - 1 = IF q = r THEN call[r] ELSE call[q] - 1
    BY <1>1, <1>4
  <2>2. Ended' = [q \in Ranks |-> IF q = r THEN call[r] ELSE call[q] - 1]
    BY <2>1 DEF Ended
  <2>3. Ended' = [Ended EXCEPT ![r] = call[r]]
    BY <2>2 DEF Ended
  <2>4. call[r] = Ended[r] + 1
    BY <1>1, <1>2
  <2> QED
    BY <2>3, <2>4
<1>6. Begun' = Begun
  <2>1. call'[r] - 1 = call[r] /\ \A b \in BlockIds : stage'[r][b] = "idle"
    BY <1>1, <1>4
  <2>2. Begun'[r] = Begun[r]
    BY <1>2, <2>1 DEF Begun
  <2>3. \A q \in Ranks \ {r} : call'[q] = call[q] /\ stage'[q] = stage[q]
    BY <1>4
  <2>4. \A q \in Ranks \ {r} : Begun'[q] = Begun[q]
    BY <2>3 DEF Begun
  <2> QED
    BY <2>2, <2>4 DEF Begun
<1>7. result' = [result EXCEPT ![r][Begun[r]] = {Begun[r]}]
  <2>1. read[r] \cup {call[r]} = {call[r]}
    BY DEF IInv, InputsOK
  <2> QED
    BY <1>2, <1>4, <2>1
<1>8. Begun[r] = Ended[r] + 1
  BY <1>1, <1>2
<1> QED
  BY <1>3, <1>5, <1>6, <1>7, <1>8 DEF Abstract!End

\* The other steps are the block's own.
LEMMA QuietMaps ==
    ASSUME UNCHANGED <<call, result>>,
           \A q \in Ranks : \A c \in BlockIds : stage'[q][c] = "idle" <=> stage[q][c] = "idle"
    PROVE  UNCHANGED Abstract!vars
<1>1. Begun' = Begun /\ Ended' = Ended
  BY DEF Begun, Ended
<1> QED
  BY <1>1 DEF Abstract!vars

LEMMA StageSet ==
    ASSUME TypeOK, NEW r \in Ranks, NEW b \in BlockIds, stage[r][b] # "idle",
           NEW t \in Stages \ {"idle"}, stage' = [stage EXCEPT ![r][b] = t] \/ stage' = stage
    PROVE  \A q \in Ranks : \A c \in BlockIds : stage'[q][c] = "idle" <=> stage[q][c] = "idle"
<1>1. stage \in [Ranks -> [BlockIds -> Stages]]
  BY DEF TypeOK
<1> QED
  BY <1>1

LEMMA NextMaps ==
    ASSUME IInv, Undisturbed, [Next]_vars PROVE [Abstract!Next]_Abstract!vars
<1>1. CASE UNCHANGED vars
  BY <1>1, QuietMaps DEF vars, kernel
<1>2. CASE Next
  <2>1. PICK r \in Ranks : Rank(r)
    BY <1>2 DEF Next
  <2>2. CASE EndCall(r)
    BY <2>2, EndMaps DEF Abstract!Next
  <2>3. ASSUME NEW b \in BlockIds, Block(r, b) PROVE [Abstract!Next]_Abstract!vars
    <3>1. CASE Start(r, b)
      BY <3>1, StartMaps DEF Abstract!Next
    <3>2. CASE SpinOut(r, b)
      BY <3>2, NoSpinOut DEF IInv
    <3>3. ASSUME NEW p, Release(r, b, p) PROVE UNCHANGED Abstract!vars
      <4>1. /\ stage[r][b] # "idle" /\ UNCHANGED <<call, result>>
            /\ stage' = [stage EXCEPT ![r][b] = "spin"] \/ stage' = stage
        BY <3>3 DEF Release
      <4> QED
        BY <4>1, StageSet, QuietMaps DEF IInv, Stages
    <3>4. ASSUME NEW p, See(r, b, p) PROVE UNCHANGED Abstract!vars
      <4>1. /\ stage[r][b] # "idle" /\ UNCHANGED <<call, result>>
            /\ stage' = [stage EXCEPT ![r][b] = "reduce"] \/ stage' = stage
        BY <3>4 DEF See, Reduce
      <4> QED
        BY <4>1, StageSet, QuietMaps DEF IInv, Stages
    <3>5. ASSUME NEW k, NEW p, Push(r, b, k, p) \/ Read(r, b, k, p)
          PROVE  UNCHANGED Abstract!vars
      BY <3>5, QuietMaps DEF Push, Read
    <3> QED
      BY <2>3, <3>1, <3>2, <3>3, <3>4, <3>5 DEF Block
  <2> QED
    BY <2>1, <2>2, <2>3 DEF Rank
<1> QED
  BY <1>1, <1>2

\* The kernel is an all-reduce: a call ends on a rank once every rank has begun
\* it, with the inputs of that call and no other.
THEOREM KernelImplements == Owned /\ Undisturbed => (Spec => Implements)
<1> SUFFICES ASSUME Owned, Undisturbed PROVE Spec => Implements
  OBVIOUS
<1>1. Init => Abstract!Init
  BY InitMaps
<1>2. IInv /\ [Next]_vars => [Abstract!Next]_Abstract!vars
  BY NextMaps
<1> QED
  BY <1>1, <1>2, SpecIInv, PTL DEF Spec, Implements, Abstract!Spec

-----------------------------------------------------------------------------
\* Chunks of one width tile the words: messages of one length, or any lengths
\* through the fused kernel alone, keep every word with its block.
THEOREM OneWidth ==
    (\A m, n \in Messages : Width(m) = Width(n)) => Owned
<1> SUFFICES ASSUME \A m, n \in Messages : Width(m) = Width(n),
                    NEW m \in Messages, NEW n \in Messages,
                    NEW b \in BlockIds, NEW c \in BlockIds, NEW k \in WordIds,
                    k \in Chunk(m, b), k \in Chunk(n, c)
             PROVE  b = c
  BY DEF Owned
<1> DEFINE w == Width(m)
<1>1. w \in Nat /\ b \in Nat /\ c \in Nat /\ k \in Nat
  BY WidthIsNat, WordIsNat
<1>2. b * w <= k /\ k <= (b + 1) * w - 1 /\ c * w <= k /\ k <= (c + 1) * w - 1
  BY DEF Chunk
<1> HIDE DEF w
<1>3. b * w < (c + 1) * w /\ c * w < (b + 1) * w
  BY <1>1, <1>2
<1>4. b < c + 1 /\ c < b + 1
  BY <1>1, <1>3
<1> QED
  BY <1>1, <1>4
=============================================================================
