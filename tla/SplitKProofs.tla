---------------------------- MODULE SplitKProofs ----------------------------
(***************************************************************************)
(* SplitK implements SplitSum, for every number of threads and all degrees *)
(* of the split.                                                           *)
(*                                                                         *)
(* Whoever sums is in a block whose ticket was the last.  The counter says *)
(* how many blocks have drawn (Counted), so all of them have; who has      *)
(* drawn is past its fences (DrawnIsFenced); and what a fence is behind is *)
(* out (FencedIsOut).  The counter is the one thing that crosses from one  *)
(* launch to the next: that it is zero there is Counted again, with the    *)
(* sums that the last block's threads have finished (DoneIsWhole).         *)
(***************************************************************************)
EXTENDS SplitK, FiniteSetTheorems, TLAPS

Inv == TypeOK /\ FencedIsOut /\ DrawnIsFenced /\ Counted /\ DoneIsWhole

(* The blocks of a launch are finite in number.                            *)
LEMMA BlocksFinite ==
    ASSUME TypeOK
    PROVE  /\ IsFiniteSet(Blocks) /\ Cardinality(Blocks) = split
           /\ split \in Nat /\ split > 0 /\ Blocks \subseteq AllBlocks
           /\ Drawn \subseteq Blocks /\ IsFiniteSet(Drawn)
           /\ Cardinality(Drawn) \in Nat
  <1>1. split \in Nat /\ split > 0 /\ Blocks \subseteq AllBlocks
    BY SMT DEF TypeOK, Blocks, Degrees, AllBlocks
  <1>2. IsFiniteSet(Blocks) /\ Cardinality(Blocks) = split
    BY <1>1, FS_Interval, SMT DEF Blocks
  <1>3. Drawn \subseteq Blocks
    BY DEF Drawn
  <1>4. IsFiniteSet(Drawn) /\ Cardinality(Drawn) \in Nat
    BY <1>2, <1>3, FS_Subset, FS_CardinalityType
  <1>5. QED
    BY <1>1, <1>2, <1>3, <1>4

(* The last ticket is drawn when every block has drawn: the partials a     *)
(* thread sums are all out, and all of this launch.                        *)
LEMMA LastSeesAll ==
    ASSUME Inv, NEW b \in Blocks, ticket[b] = "last"
    PROVE  Drawn = Blocks /\ Summed = launch
  <1>1. Drawn = Blocks
    BY DEF Inv, Counted
  <1>2. \A c \in Blocks, t \in Threads : slab[c][t] = launch
    BY <1>1 DEF Inv, DrawnIsFenced, FencedIsOut
  <1>3. QED
    BY <1>1, <1>2 DEF Summed

(* A launch that ends has had a last block, with all its sums done and the *)
(* counter reset.                                                          *)
LEMMA EndedIsWhole ==
    ASSUME Inv,
           \A b \in Blocks :
              \/ ticket[b] = "early"
              \/ ticket[b] = "last" /\ \A t \in Threads : at[b][t] = "done"
    PROVE  cnt = 0 /\ \A t \in Threads : out[t] = launch
  <1>1. \E b \in Blocks : ticket[b] = "last"
    <2>1. SUFFICES ASSUME ~ \E b \in Blocks : ticket[b] = "last"
                   PROVE  FALSE
      OBVIOUS
    <2>2. Drawn = Blocks
      BY <2>1 DEF Drawn
    <2>3. cnt = Cardinality(Drawn) /\ cnt < split
      BY <2>1 DEF Inv, Counted
    <2>4. Cardinality(Blocks) = split /\ split \in Nat
      BY BlocksFinite DEF Inv
    <2>5. QED
      BY <2>2, <2>3, <2>4, SMT
  <1>2. PICK b \in Blocks : ticket[b] = "last"
    BY <1>1
  <1>3. \A t \in Threads : at[b][t] = "done"
    BY <1>2
  <1>4. Leader \in Threads
    BY DEF Threads
  <1>5. cnt = 0
    BY <1>1, <1>2, <1>3, <1>4 DEF Inv, Counted
  <1>6. QED
    BY <1>3, <1>5 DEF Inv, DoneIsWhole

LEMMA InitInv == Init => Inv
  <1>1. SUFFICES ASSUME Init PROVE Inv
    OBVIOUS
  <1>2. TypeOK
    <2>1. split \in Degrees /\ split \in Nat
      BY <1>1 DEF Init, Degrees
    <2>2. cnt \in 0 .. split
      BY <1>1, <2>1, SMT DEF Init
    <2>3. QED
      BY <1>1, <2>1, <2>2, SMT DEF Init, TypeOK, Points
  <1>3. Blocks \subseteq AllBlocks
    BY <1>2, BlocksFinite
  <1>5. Drawn = {} /\ ~ \E b \in Blocks : ticket[b] = "last"
    BY <1>1, <1>3 DEF Init, Drawn
  <1>6. \A b \in Blocks, t \in Threads : at[b][t] = "store"
    BY <1>1, <1>3 DEF Init
  <1>7. Counted
    <2>1. cnt = Cardinality(Drawn)
      BY <1>1, <1>5, FS_EmptySet DEF Init
    <2>2. cnt < split
      BY <1>1, <1>2, BlocksFinite, SMT DEF Init
    <2>3. QED
      BY <1>5, <2>1, <2>2 DEF Counted
  <1>8. QED
    BY <1>2, <1>5, <1>6, <1>7 DEF Inv, FencedIsOut, DrawnIsFenced, DoneIsWhole

(* The steps of one thread before its barrier: no ticket is drawn.         *)
LEMMA ThreadStepInv ==
    ASSUME Inv, NEW b \in Blocks, NEW t \in Threads,
           Store(b, t) \/ Drain(b, t) \/ Fence(b, t)
    PROVE  Inv'
  <1>1. UNCHANGED <<launch, split, cnt, ticket, out>> /\ Blocks' = Blocks /\ Drawn' = Drawn
    BY DEF Store, Drain, Fence, Blocks, Drawn
  <1>2. b \in AllBlocks /\ Blocks \subseteq AllBlocks
    BY BlocksFinite DEF Inv
  <1>3. /\ at \in [AllBlocks -> [Threads -> Points]]
        /\ stored \in [AllBlocks -> [Threads -> Nat]]
        /\ slab \in [AllBlocks -> [Threads -> Nat]]
    BY DEF Inv, TypeOK
  <1>4. TypeOK'
    <2>1. launch \in Nat /\ stored[b][t] \in Nat /\ {"fence", "barrier"} \subseteq Points
      BY <1>2, <1>3 DEF Inv, TypeOK, Points
    <2>2. at' \in [AllBlocks -> [Threads -> Points]]
      <3>1. \A x \in Points : [at EXCEPT ![b][t] = x] \in [AllBlocks -> [Threads -> Points]]
        BY <1>2, <1>3, SMT
      <3>2. at' = at \/ \E x \in Points : at' = [at EXCEPT ![b][t] = x]
        <4>1. Drain(b, t) => at' = at
          BY DEF Drain
        <4>2. Store(b, t) => at' = [at EXCEPT ![b][t] = "fence"]
          BY DEF Store
        <4>3. Fence(b, t) => at' = [at EXCEPT ![b][t] = "barrier"]
          BY DEF Fence
        <4>4. QED
          BY <2>1, <4>1, <4>2, <4>3
      <3>3. QED
        BY <1>3, <3>1, <3>2
    <2>3. stored' \in [AllBlocks -> [Threads -> Nat]]
      <3>1. [stored EXCEPT ![b][t] = launch] \in [AllBlocks -> [Threads -> Nat]]
        BY <1>2, <1>3, <2>1
      <3>2. stored' = stored \/ stored' = [stored EXCEPT ![b][t] = launch]
        BY DEF Store, Drain, Fence
      <3>3. QED
        BY <1>3, <3>1, <3>2
    <2>4. slab' \in [AllBlocks -> [Threads -> Nat]]
      <3>1. [slab EXCEPT ![b][t] = stored[b][t]] \in [AllBlocks -> [Threads -> Nat]]
        BY <1>2, <1>3, <2>1
      <3>2. slab' = slab \/ slab' = [slab EXCEPT ![b][t] = stored[b][t]]
        BY DEF Store, Drain, Fence
      <3>3. QED
        BY <1>3, <3>1, <3>2
    <2>5. QED
      BY <1>1, <2>2, <2>3, <2>4 DEF Inv, TypeOK
  <1>5. \A c \in Blocks, u \in Threads :
          /\ Store(b, t) =>
               /\ at'[c][u] = IF c = b /\ u = t THEN "fence" ELSE at[c][u]
               /\ stored'[c][u] = IF c = b /\ u = t THEN launch ELSE stored[c][u]
          /\ Fence(b, t) =>
               /\ at'[c][u] = IF c = b /\ u = t THEN "barrier" ELSE at[c][u]
               /\ slab'[c][u] = IF c = b /\ u = t THEN stored[b][t]
                                    ELSE slab[c][u]
          /\ Drain(b, t) =>
               slab'[c][u] = IF c = b /\ u = t THEN stored[b][t]
                                 ELSE slab[c][u]
    BY <1>2, <1>3, SMT DEF Store, Drain, Fence
  <1>6. FencedIsOut'
    <2>1. CASE Store(b, t)
      BY <1>1, <1>5, <2>1 DEF Inv, FencedIsOut, Store
    <2>2. CASE Drain(b, t)
      BY <1>1, <1>5, <2>2 DEF Inv, FencedIsOut, Drain
    <2>3. CASE Fence(b, t)
      BY <1>1, <1>5, <2>3 DEF Inv, FencedIsOut, Fence
    <2>4. QED
      BY <2>1, <2>2, <2>3
  <1>7. \A c \in Blocks, u \in Threads :
          \/ at'[c][u] = at[c][u]
          \/ at[c][u] = "store" /\ at'[c][u] = "fence"
          \/ at[c][u] = "fence" /\ at'[c][u] = "barrier"
    BY <1>5 DEF Store, Drain, Fence
  <1>8. DrawnIsFenced'
    BY <1>1, <1>7 DEF Inv, DrawnIsFenced, Drawn
  <1>9. Counted'
    <2>1. CASE \E c \in Blocks : ticket[c] = "last"
      <3>1. Drawn = Blocks
        BY <2>1 DEF Inv, Counted
      <3>2. \A c \in Blocks : at[c][Leader] \notin {"store", "fence"}
        BY <3>1 DEF Inv, DrawnIsFenced, Threads
      <3>3. \A c \in Blocks : at'[c][Leader] = at[c][Leader]
        BY <1>7, <3>2 DEF Threads
      <3>4. QED
        BY <1>1, <2>1, <3>1, <3>3 DEF Inv, Counted
    <2>2. CASE ~ \E c \in Blocks : ticket[c] = "last"
      BY <1>1, <2>2 DEF Inv, Counted
    <2>3. QED
      BY <2>1, <2>2
  <1>10. DoneIsWhole'
    BY <1>1, <1>7 DEF Inv, DoneIsWhole
  <1>11. QED
    BY <1>4, <1>6, <1>8, <1>9, <1>10 DEF Inv

(* A block draws its ticket.                                               *)
LEMMA DrawInv ==
    ASSUME Inv, NEW b \in Blocks, Draw(b)
    PROVE  Inv'
  <1>1. UNCHANGED <<launch, split, at, stored, slab, out>> /\ Blocks' = Blocks
    BY DEF Draw, Blocks
  <1>2. b \in AllBlocks /\ Blocks \subseteq AllBlocks
    BY BlocksFinite DEF Inv
  <1>3. ticket \in [AllBlocks -> {"none", "early", "last"}]
    BY DEF Inv, TypeOK
  <1>4. b \notin Drawn /\ ~ \E c \in Blocks : ticket[c] = "last"
    BY DEF Inv, Counted, Draw, Drawn
  <1>5. cnt = Cardinality(Drawn) /\ cnt < split /\ cnt \in Nat /\ split \in Nat
    BY <1>4, BlocksFinite DEF Inv, Counted
  <1>6. Drawn' = Drawn \cup {b}
    BY <1>1, <1>2, <1>3 DEF Draw, Drawn
  <1>7. Cardinality(Drawn') = cnt + 1
    BY <1>4, <1>5, <1>6, BlocksFinite, FS_AddElement DEF Inv
  <1>8. cnt' = cnt + 1 /\ cnt' \in Nat /\ cnt' <= split
    BY <1>5, SMT DEF Draw
  <1>9. TypeOK'
    <2>1. ticket' \in [AllBlocks -> {"none", "early", "last"}]
      BY <1>3 DEF Draw
    <2>2. cnt' \in 0 .. split
      BY <1>5, <1>8, SMT
    <2>3. QED
      BY <1>1, <2>1, <2>2 DEF Inv, TypeOK
  <1>10. FencedIsOut'
    BY <1>1 DEF Inv, FencedIsOut
  <1>11. DrawnIsFenced'
    BY <1>1, <1>6 DEF Inv, DrawnIsFenced, Draw
  <1>12. DoneIsWhole'
    <2>1. \A c \in Blocks : ticket[c] = "last" => ticket'[c] = "last"
      BY <1>4
    <2>2. QED
      BY <1>1, <2>1 DEF Inv, DoneIsWhole
  <1>13. Counted'
    <2>1. CASE cnt = split - 1
      <3>1. ticket'[b] = "last" /\ \A c \in Blocks : ticket'[c] = "last" => c = b
        BY <1>2, <1>3, <1>4, <2>1 DEF Draw
      <3>2. Cardinality(Drawn') = Cardinality(Blocks)
        BY <1>5, <1>7, <2>1, BlocksFinite, SMT DEF Inv
      <3>3. Drawn' = Blocks
        BY <1>6, <3>2, BlocksFinite, FS_Subset DEF Inv
      <3>4. at'[b][Leader] = "barrier"
        BY <1>1 DEF Draw, Threads
      <3>5. QED
        BY <1>1, <3>1, <3>3, <3>4 DEF Counted
    <2>2. CASE cnt # split - 1
      <3>1. ~ \E c \in Blocks : ticket'[c] = "last"
        BY <1>2, <1>3, <1>4, <2>2 DEF Draw
      <3>2. cnt' < split
        BY <1>5, <1>8, <2>2, SMT
      <3>3. QED
        BY <1>1, <1>7, <1>8, <3>1, <3>2 DEF Counted
    <2>3. QED
      BY <2>1, <2>2
  <1>14. QED
    BY <1>9, <1>10, <1>11, <1>12, <1>13 DEF Inv

(* Thread 0 of the last block resets the counter.                          *)
LEMMA ResetInv ==
    ASSUME Inv, NEW b \in Blocks, Reset(b)
    PROVE  Inv'
  <1>1. UNCHANGED <<launch, split, stored, slab, ticket, out>>
        /\ Blocks' = Blocks /\ Drawn' = Drawn /\ cnt' = 0
    BY DEF Reset, Blocks, Drawn
  <1>2. b \in AllBlocks /\ Blocks \subseteq AllBlocks /\ split \in Nat
    BY BlocksFinite DEF Inv
  <1>3. at \in [AllBlocks -> [Threads -> Points]] /\ Leader \in Threads
    BY DEF Inv, TypeOK, Threads
  <1>4. \A c \in Blocks, u \in Threads :
          at'[c][u] = IF c = b /\ u = Leader THEN "reset" ELSE at[c][u]
    BY <1>2, <1>3, SMT DEF Reset
  <1>5. TypeOK'
    <2>1. at' \in [AllBlocks -> [Threads -> Points]]
      BY <1>2, <1>3, SMT DEF Reset, Points
    <2>2. cnt' \in 0 .. split
      BY <1>1, <1>2, SMT
    <2>3. QED
      BY <1>1, <2>1, <2>2 DEF Inv, TypeOK
  <1>6. FencedIsOut'
    BY <1>1, <1>4 DEF Inv, FencedIsOut, Reset
  <1>7. DrawnIsFenced'
    BY <1>1, <1>4 DEF Inv, DrawnIsFenced, Drawn
  <1>8. DoneIsWhole'
    BY <1>1, <1>4 DEF Inv, DoneIsWhole, Reset
  <1>9. Counted'
    BY <1>1 DEF Inv, Counted, Reset
  <1>10. QED
    BY <1>5, <1>6, <1>7, <1>8, <1>9 DEF Inv

(* A thread of the last block sums.                                        *)
LEMMA ReduceInv ==
    ASSUME Inv, NEW b \in Blocks, NEW t \in Threads, Reduce(b, t)
    PROVE  Inv' /\ out' = [out EXCEPT ![t] = launch] /\ UNCHANGED launch
  <1>1. UNCHANGED <<launch, split, stored, slab, cnt, ticket>>
        /\ Blocks' = Blocks /\ Drawn' = Drawn
    BY DEF Reduce, Blocks, Drawn
  <1>2. b \in AllBlocks /\ Blocks \subseteq AllBlocks
    BY BlocksFinite DEF Inv
  <1>3. /\ at \in [AllBlocks -> [Threads -> Points]] /\ out \in [Threads -> Nat]
        /\ launch \in Nat
    BY DEF Inv, TypeOK
  <1>4. out' = [out EXCEPT ![t] = launch]
    BY LastSeesAll DEF Reduce
  <1>5. \A c \in Blocks, u \in Threads :
          at'[c][u] = IF c = b /\ u = t THEN "done" ELSE at[c][u]
    BY <1>2, <1>3, SMT DEF Reduce
  <1>6. TypeOK'
    <2>1. at' \in [AllBlocks -> [Threads -> Points]]
      BY <1>2, <1>3, SMT DEF Reduce, Points
    <2>2. out' \in [Threads -> Nat]
      BY <1>3, <1>4
    <2>3. QED
      BY <1>1, <2>1, <2>2 DEF Inv, TypeOK
  <1>7. at[b][t] \notin {"store", "fence"}
    BY DEF Reduce
  <1>8. FencedIsOut'
    BY <1>1, <1>5, <1>7 DEF Inv, FencedIsOut
  <1>9. DrawnIsFenced'
    BY <1>1, <1>5 DEF Inv, DrawnIsFenced, Drawn
  <1>10. DoneIsWhole'
    <2>1. \A u \in Threads : out'[u] = IF u = t THEN launch ELSE out[u]
      BY <1>3, <1>4
    <2>2. ticket[b] = "last"
      BY DEF Reduce
    <2>3. QED
      BY <1>1, <1>5, <2>1, <2>2 DEF Inv, DoneIsWhole
  <1>11. Counted'
    <2>1. at'[b][Leader] # "barrier" => cnt = 0
      <3>1. CASE t = Leader
        BY <3>1 DEF Inv, Counted, Reduce
      <3>2. CASE t # Leader
        BY <1>5, <3>2 DEF Inv, Counted, Reduce, Threads
      <3>3. QED
        BY <3>1, <3>2
    <2>2. \A c \in Blocks : c # b => at'[c][Leader] = at[c][Leader]
      BY <1>5 DEF Threads
    <2>3. QED
      BY <1>1, <2>1, <2>2 DEF Inv, Counted, Reduce
  <1>12. QED
    BY <1>1, <1>4, <1>6, <1>8, <1>9, <1>10, <1>11 DEF Inv

(* The next launch starts with the counter at zero.                        *)
LEMMA RelaunchInv ==
    ASSUME Inv, NEW k \in Degrees, Relaunch(k)
    PROVE  Inv' /\ S!Relaunch
  <1>1. cnt = 0 /\ \A t \in Threads : out[t] = launch
    BY EndedIsWhole DEF Relaunch
  <1>2. split' = k /\ k \in Nat /\ k > 0 /\ launch' = launch + 1
    BY SMT DEF Relaunch, Degrees
  <1>3. /\ at' = [b \in AllBlocks |-> [t \in Threads |-> "store"]]
        /\ ticket' = [b \in AllBlocks |-> "none"]
        /\ slab' = stored
        /\ UNCHANGED <<stored, cnt, out>>
    BY DEF Relaunch
  <1>4. TypeOK'
    <2>1. launch' \in Nat \ {0}
      BY <1>2, SMT DEF Inv, TypeOK
    <2>2. cnt' \in 0 .. split'
      BY <1>1, <1>2, <1>3, SMT
    <2>3. at' \in [AllBlocks -> [Threads -> Points]]
      BY <1>3, SMT DEF Points
    <2>4. ticket' \in [AllBlocks -> {"none", "early", "last"}]
      BY <1>3
    <2>5. QED
      BY <1>2, <1>3, <2>1, <2>2, <2>3, <2>4 DEF Inv, TypeOK
  <1>5. Blocks' \subseteq AllBlocks
    BY <1>2, SMT DEF Blocks, AllBlocks
  <1>6. Drawn' = {} /\ \A b \in Blocks' : ticket'[b] = "none"
    BY <1>3, <1>5 DEF Drawn
  <1>7. \A b \in Blocks', t \in Threads : at'[b][t] = "store"
    BY <1>3, <1>5
  <1>8. FencedIsOut' /\ DrawnIsFenced' /\ DoneIsWhole'
    BY <1>6, <1>7 DEF FencedIsOut, DrawnIsFenced, DoneIsWhole
  <1>9. Counted'
    <2>1. cnt' = Cardinality(Drawn')
      BY <1>1, <1>3, <1>6, FS_EmptySet
    <2>2. cnt' < split'
      BY <1>1, <1>2, <1>3, SMT
    <2>3. QED
      BY <1>6, <2>1, <2>2 DEF Counted
  <1>10. QED
    BY <1>1, <1>2, <1>3, <1>4, <1>8, <1>9 DEF Inv, S!Relaunch

LEMMA NextInv ==
    ASSUME Inv, [Next]_vars
    PROVE  Inv' /\ (S!Next \/ UNCHANGED S!vars)
  <1>1. CASE UNCHANGED vars
    BY <1>1 DEF vars, Inv, TypeOK, FencedIsOut, DrawnIsFenced, Counted, DoneIsWhole,
                Drawn, Blocks, S!vars
  <1>2. CASE \E b \in Blocks : Draw(b) \/ Reset(b)
    BY <1>2, DrawInv, ResetInv DEF Draw, Reset, S!vars
  <1>3. CASE \E b \in Blocks, t \in Threads : Store(b, t) \/ Drain(b, t) \/ Fence(b, t)
    BY <1>3, ThreadStepInv DEF Store, Drain, Fence, S!vars
  <1>4. CASE \E b \in Blocks, t \in Threads : Reduce(b, t)
    BY <1>4, ReduceInv DEF S!Next, S!Sum
  <1>5. CASE \E k \in Degrees : Relaunch(k)
    BY <1>5, RelaunchInv DEF S!Next
  <1>6. QED
    BY <1>1, <1>2, <1>3, <1>4, <1>5 DEF Next

(* The model's types hold, the counter's range among them.                 *)
THEOREM SplitTypeCorrect == Spec => []TypeOK
  <1>1. Inv => TypeOK
    BY DEF Inv
  <1>2. QED
    BY <1>1, InitInv, NextInv, PTL DEF Spec

(* Each launch gives every column the sum of its own partials: the tail is *)
(* an implementation of SplitSum.                                          *)
THEOREM SumsAreWhole == Spec => S!Spec
  <1>1. Init => S!Init
    BY DEF Init, S!Init
  <1>2. Inv /\ [Next]_vars => Inv' /\ [S!Next]_(S!vars)
    BY NextInv
  <1>3. QED
    BY <1>1, <1>2, InitInv, PTL DEF Spec, S!Spec

=============================================================================
