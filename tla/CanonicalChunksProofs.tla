------------------------ MODULE CanonicalChunksProofs ------------------------
(***************************************************************************)
(* Proofs about CanonicalChunks for any requests, prompts, block size,     *)
(* budget and gates: the types, with what a pass hands out of its budget,  *)
(* and that what is cached is exact, whether the decision about a chunk is *)
(* deferred to the end of its pass or made as the chunk is taken.          *)
(***************************************************************************)
EXTENDS CanonicalChunks, WellFoundedInduction, TLAPS

(* Arithmetic of the grid.                                                  *)

LEMMA FloorProps ==
    ASSUME NEW n \in Nat, NEW g \in Nat \ {0}
    PROVE  FloorTo(n, g) \in Nat /\ FloorTo(n, g) <= n /\ FloorTo(n, g) % g = 0
<1> DEFINE q == n \div g
<1>1. q \in Nat /\ n = g * q + (n % g) /\ n % g \in 0..(g - 1)
  OBVIOUS
<1>2. FloorTo(n, g) = q * g
  BY DEF FloorTo
<1> HIDE DEF q
<1>3. q * g \in Nat /\ q * g = g * q
  BY <1>1
<1>4. (q * g) % g = 0
  BY <1>1
<1> QED
  BY <1>1, <1>2, <1>3, <1>4

LEMMA GridPositive == Grid \in Nat \ {0}
<1> DEFINE n == IF Threshold > 0 THEN Least(Budget, Threshold) ELSE Budget
           q == n \div Block
<1>1. n \in Nat /\ n >= Block /\ Block \in Nat \ {0}
  BY SizeAssumption DEF Least
<1>2. Grid = q * Block
  BY DEF Grid, FloorTo
<1> HIDE DEF n
<1>3. q \in Nat /\ n = Block * q + (n % Block) /\ n % Block \in 0..(Block - 1)
  BY <1>1
<1> HIDE DEF q
<1>4. q # 0
  BY <1>1, <1>3
<1>5. q * Block >= Block
  BY <1>1, <1>3, <1>4
<1> QED
  BY <1>1, <1>2, <1>3, <1>5

LEMMA NextGridPoint ==
    ASSUME NEW n \in Nat, n % Grid = 0
    PROVE  (n + Grid) % Grid = 0
<1> DEFINE q == n \div Grid
<1>1. Grid \in Nat \ {0}
  BY GridPositive
<1>2. q \in Nat /\ n = Grid * q
  BY <1>1
<1> HIDE DEF q
<1>3. n + Grid = (q + 1) * Grid
  BY <1>1, <1>2
<1>4. \A k \in Nat, g \in Nat \ {0} : (k * g) % g = 0
  OBVIOUS
<1>5. ((q + 1) * Grid) % Grid = 0
  BY <1>1, <1>2, <1>4
<1> QED
  BY <1>3, <1>5

LEMMA HasMinimum ==
    ASSUME NEW S \in SUBSET Nat, S # {}
    PROVE  \E i \in S : \A k \in S : i <= k
<1>1. PICK i \in S : \A k \in S : ~(<<k, i>> \in OpToRel(<, Nat))
  BY NatLessThanWellFounded, WFMin
<1>2. \A k \in S : ~(k < i)
  BY <1>1 DEF OpToRel
<1> QED
  BY <1>2

-----------------------------------------------------------------------------
(* The operators the actions are built from.                                *)

Types ==
    /\ status \in [Requests -> {"idle", "waiting", "loading", "ready", "running"}]
    /\ length \in [Requests -> Nat] /\ computed \in [Requests -> Nat]
    /\ exact \in [Requests -> Nat]
    /\ canonEnd \in [Requests -> Nat \cup {Unset}] /\ pending \in [Requests -> Nat]
    /\ phase \in {"idle", "running", "waiting", "settle"}
    /\ left \in Int /\ plan \in [Requests -> Nat]
    /\ drafts \in [Requests -> Int] /\ visited \subseteq Requests
    /\ main \subseteq Blocks \X BOOLEAN /\ draft \subseteq Blocks \X BOOLEAN
    /\ tier \subseteq Blocks \X BOOLEAN /\ receipt \subseteq Blocks

LEMMA TrackedProps ==
    ASSUME Types, NEW r \in Requests, NEW total \in Nat,
           canonEnd[r] # Unset => canonEnd[r] % Grid = 0
    PROVE  Tracked(r, total) \in Nat /\ Tracked(r, total) <= total /\ Tracked(r, total) % Grid = 0
<1>1. FloorTo(total, Grid) \in Nat /\ FloorTo(total, Grid) <= total /\ FloorTo(total, Grid) % Grid = 0
  BY GridPositive, FloorProps
<1>2. canonEnd[r] \in Nat \cup {Unset}
  BY DEF Types
<1> QED
  BY <1>1, <1>2 DEF Tracked, Unset

LEMMA ChunkIsNat ==
    ASSUME Types, NEW r \in Requests, NEW start \in Nat
    PROVE  Chunk(r, start) \in Nat
<1> DEFINE asked == start + Offered(r, start)
           end == IF asked < length[r] THEN FloorTo(asked, Block) ELSE asked
           inside == {s \in Stops(r, start) : start < s /\ s < end}
           least == CHOOSE s \in inside : \A t \in inside : s <= t
<1>1. length[r] \in Nat /\ left \in Int /\ Threshold \in Nat /\ Block \in Nat \ {0}
  BY SizeAssumption DEF Types
<1>2. Offered(r, start) \in Int
  BY <1>1 DEF Offered, Least
<1>3. \A n \in Int : FloorTo(n, Block) \in Int
  BY <1>1 DEF FloorTo
<1>4. asked \in Int /\ end \in Int
  BY <1>1, <1>2, <1>3
<1>5. (start \div Grid + 1) * Grid \in Int
  BY GridPositive
<1>6. Stops(r, start) \subseteq Int
  BY <1>1, <1>3, <1>5 DEF Stops
<1>7. inside \subseteq Nat
  BY <1>4, <1>6
<1>8. ChunkEnd(r, start) = IF inside = {} THEN end ELSE least
  BY DEF ChunkEnd
<1> HIDE DEF inside, end
<1>9. ASSUME inside # {} PROVE least \in inside
  <2>1. \E s \in inside : \A t \in inside : s <= t
    BY <1>7, <1>9, HasMinimum
  <2> QED
    BY <2>1
<1> HIDE DEF least
<1>10. ChunkEnd(r, start) \in Int
  <2>1. CASE inside = {}
    BY <1>4, <1>8, <2>1
  <2>2. CASE inside # {}
    <3>1. least \in Nat
      BY <1>7, <1>9, <2>2
    <3>2. ChunkEnd(r, start) = least
      BY <1>8, <2>2
    <3> QED
      BY <3>1, <3>2
  <2> QED
    BY <2>1, <2>2
<1> QED
  BY <1>10 DEF Chunk

\* Every copy that may be read as KV is exact.
CachesExact == \A c \in main \cup draft \cup tier : c[2]

LEMMA HitsProps ==
    ASSUME Types, CachesExact, NEW r \in Requests, NEW h \in Hits(r)
    PROVE  h \in Nat /\ h % Grid = 0 /\ HitExact(h) = h
<1> DEFINE read == (receipt \ CachedIn(draft)) \cap Upto(h)
           first == CHOOSE i \in read : \A k \in read : i <= k
<1>1. Block \in Nat \ {0} /\ LastBlock \in Nat /\ Grid \in Nat \ {0}
  BY SizeAssumption, GridPositive
<1>2. h \in {0} \cup {i * Block : i \in Blocks} /\ HitCap(h) >= h
  BY DEF Hits, Findable
<1>3. h \in Nat
  BY <1>1, <1>2 DEF Blocks
<1>4. HitCap(h) = FloorTo(IF read = {} THEN h ELSE first * Block, Grid)
  BY DEF HitCap
<1>5. read \subseteq Nat /\ \A i \in read : (i + 1) * Block <= h
  BY <1>1 DEF Upto, Blocks
<1> HIDE DEF read
<1>6. read = {}
  <2> SUFFICES ASSUME read # {} PROVE FALSE
    OBVIOUS
  <2>1. \E i \in read : \A k \in read : i <= k
    BY <1>5, HasMinimum
  <2>2. first \in read
    BY <2>1
  <2> HIDE DEF first
  <2>3. first \in Nat /\ (first + 1) * Block <= h
    BY <1>5, <2>2
  <2>4. first * Block \in Nat /\ first * Block < h
    BY <1>1, <1>3, <2>3
  <2>5. FloorTo(first * Block, Grid) \in Nat /\ FloorTo(first * Block, Grid) <= first * Block
    BY <1>1, <2>4, FloorProps
  <2>6. HitCap(h) = FloorTo(first * Block, Grid)
    BY <1>4 DEF first
  <2> QED
    BY <1>2, <1>3, <2>4, <2>5, <2>6
<1>7. FloorTo(h, Grid) \in Nat /\ FloorTo(h, Grid) <= h /\ FloorTo(h, Grid) % Grid = 0
  BY <1>1, <1>3, FloorProps
<1>8. FloorTo(h, Grid) = h
  BY <1>2, <1>3, <1>4, <1>6, <1>7
<1>9. InexactIn(main) = {} /\ InexactIn(draft) = {}
  BY DEF CachesExact, InexactIn
<1>10. HitExact(h) = h
  BY <1>6, <1>9 DEF HitExact, read
<1> QED
  BY <1>3, <1>7, <1>8, <1>10

LEMMA LoadProps ==
    ASSUME Types, CachesExact, NEW r \in Requests, NEW h \in Hits(r), NEW e \in External(r, h)
    PROVE  h + e \in Nat /\ (h + e) % Grid = 0 /\ LoadExact(h, e) = h + e
<1>1. h \in Nat /\ HitExact(h) = h
  BY HitsProps
<1>2. e \in Nat /\ (h + e) % Grid = 0
  BY SizeAssumption DEF External, Blocks
<1>3. InexactIn(tier) = {}
  BY DEF CachesExact, InexactIn
<1> QED
  BY <1>1, <1>2, <1>3 DEF LoadExact

-----------------------------------------------------------------------------
(* Type correctness, for any budget and with every gate.  That what is left *)
(* of the budget stays within it, whatever a pass takes and a preemption    *)
(* gives back, needs more than the types: the tokens handed out lie in the  *)
(* budget, a stretch for each request, and no two stretches overlap.        *)

USE DEF vars, progress, canon, pass, cache

Stretches(b) ==
    /\ \A q \in Requests : plan[q] > 0 => b[q] + plan[q] + left <= Budget
    /\ \A q \in Requests, s \in Requests :
         q # s /\ plan[q] > 0 /\ plan[s] > 0 =>
             b[q] + plan[q] <= b[s] \/ b[s] + plan[s] <= b[q]

PassOK ==
    /\ left \in 0..Budget /\ visited \subseteq Requests
    /\ plan \in [Requests -> 0..Budget] /\ drafts \in [Requests -> 0..MaxDrafts]
    /\ \A q \in Requests : plan[q] > 0 => q \in visited
    /\ \E b \in [Requests -> Nat] : Stretches(b)

TInv == TypeOK /\ PassOK

LEMMA TypesOfAll == ASSUME TypeOK PROVE Types
<1>1. 0..Budget \subseteq Nat /\ 0..MaxDrafts \subseteq Int
  BY SizeAssumption
<1>2. plan \in [Requests -> Nat] /\ drafts \in [Requests -> Int] /\ left \in Int
  BY <1>1 DEF TypeOK
<1> QED
  BY <1>2 DEF TypeOK, Types

LEMMA FloorBelow ==
    ASSUME NEW n \in Int, NEW g \in Nat \ {0}
    PROVE  FloorTo(n, g) \in Int /\ FloorTo(n, g) <= n /\ (n \in Nat => FloorTo(n, g) \in Nat)
<1> DEFINE q == n \div g
<1>1. q \in Int /\ n = g * q + (n % g) /\ n % g \in 0..(g - 1) /\ (n \in Nat => q \in Nat)
  OBVIOUS
<1>2. FloorTo(n, g) = q * g
  BY DEF FloorTo
<1> HIDE DEF q
<1>3. q * g \in Int /\ q * g = g * q /\ (n \in Nat => q * g \in Nat)
  BY <1>1
<1> QED
  BY <1>1, <1>2, <1>3

(* A chunk is no longer than what is left of the budget.                    *)
LEMMA ChunkFits ==
    ASSUME TypeOK, NEW r \in Requests, NEW start \in Nat
    PROVE  Chunk(r, start) \in 0..left
<1> DEFINE asked == start + Offered(r, start)
           end == IF asked < length[r] THEN FloorTo(asked, Block) ELSE asked
           inside == {s \in Stops(r, start) : start < s /\ s < end}
           least == CHOOSE s \in inside : \A t \in inside : s <= t
<1>1. length[r] \in Nat /\ left \in Nat /\ Threshold \in Nat /\ Block \in Nat \ {0}
  BY SizeAssumption DEF TypeOK
<1>2. Offered(r, start) \in Int /\ Offered(r, start) <= left
  BY <1>1 DEF Offered, Least
<1>3. asked \in Int /\ end \in Int /\ end <= asked
  BY <1>1, <1>2, FloorBelow
<1>4. (start \div Grid + 1) * Grid \in Int
  BY GridPositive
<1>5. Stops(r, start) \subseteq Int
  BY <1>1, <1>4, FloorBelow DEF Stops
<1>6. inside \subseteq Nat
  BY <1>3, <1>5
<1>7. ChunkEnd(r, start) = IF inside = {} THEN end ELSE least
  BY DEF ChunkEnd
<1>8. \A s \in inside : s < end
  OBVIOUS
<1> HIDE DEF inside, end
<1>9. ASSUME inside # {} PROVE least \in inside
  <2>1. \E s \in inside : \A t \in inside : s <= t
    BY <1>6, <1>9, HasMinimum
  <2> QED
    BY <2>1
<1> HIDE DEF least
<1>10. ChunkEnd(r, start) \in Int /\ ChunkEnd(r, start) <= asked
  <2>1. CASE inside = {}
    BY <1>3, <1>7, <2>1
  <2>2. CASE inside # {}
    <3>1. least \in Nat /\ least < end /\ ChunkEnd(r, start) = least
      BY <1>6, <1>7, <1>8, <1>9, <2>2
    <3> QED
      BY <1>3, <3>1
  <2> QED
    BY <2>1, <2>2
<1> QED
  BY <1>1, <1>2, <1>10 DEF Chunk

-----------------------------------------------------------------------------
(* The budget of a pass.                                                    *)

LEMMA TakeFits ==
    ASSUME TInv, NEW r \in Requests, r \notin visited, NEW n \in 1..left, NEW d \in 0..MaxDrafts,
           Take(r, n, d), visited' = visited \cup {r}
    PROVE  PassOK'
<1>1. /\ left' = left - n /\ plan' = [plan EXCEPT ![r] = n] /\ drafts' = [drafts EXCEPT ![r] = d]
  BY DEF Take
<1>2. left \in Nat /\ left <= Budget /\ Budget \in Nat /\ n \in Nat /\ n <= left /\ n > 0
  BY SizeAssumption DEF TInv, PassOK
<1>3. left' \in 0..Budget /\ plan' \in [Requests -> 0..Budget] /\ drafts' \in [Requests -> 0..MaxDrafts]
      /\ visited' \subseteq Requests
  BY <1>1, <1>2 DEF TInv, PassOK
<1>4. /\ plan'[r] = n /\ ~(plan[r] > 0)
      /\ \A q \in Requests : q # r => plan'[q] = plan[q]
      /\ \A q \in Requests : plan[q] \in Nat
  BY <1>1, <1>2 DEF TInv, PassOK
<1>5. \A q \in Requests : plan'[q] > 0 => q \in visited'
  BY <1>4 DEF TInv, PassOK
<1>6. PICK b \in [Requests -> Nat] : Stretches(b)
  BY DEF TInv, PassOK
<1>7. PICK c \in [Requests -> Nat] : c = [b EXCEPT ![r] = Budget - left]
  <2>1. [b EXCEPT ![r] = Budget - left] \in [Requests -> Nat]
    BY <1>2, <1>6
  <2> QED
    BY <2>1
<1>8. c[r] = Budget - left /\ \A q \in Requests : b[q] \in Nat /\ (q # r => c[q] = b[q])
  BY <1>7
<1>9. ASSUME NEW q \in Requests, plan'[q] > 0
      PROVE  c[q] + plan'[q] + left' <= Budget /\ (q # r => c[q] + plan'[q] <= c[r])
  <2>1. CASE q = r
    BY <1>1, <1>2, <1>4, <1>8, <2>1
  <2>2. CASE q # r
    <3>1. plan'[q] = plan[q] /\ c[q] = b[q] /\ plan[q] > 0
      BY <1>4, <1>8, <1>9, <2>2
    <3>2. b[q] + plan[q] + left <= Budget
      BY <1>6, <3>1 DEF Stretches
    <3>3. b[q] \in Nat /\ plan[q] \in Nat
      BY <1>4, <1>8
    <3> QED
      BY <1>1, <1>2, <1>8, <3>1, <3>2, <3>3
  <2> QED
    BY <2>1, <2>2
<1>10. ASSUME NEW q \in Requests, NEW s \in Requests, q # s, plan'[q] > 0, plan'[s] > 0
       PROVE  c[q] + plan'[q] <= c[s] \/ c[s] + plan'[s] <= c[q]
  <2>1. CASE q = r \/ s = r
    BY <1>9, <1>10, <2>1
  <2>2. CASE q # r /\ s # r
    <3>1. /\ plan'[q] = plan[q] /\ c[q] = b[q] /\ plan[q] > 0
          /\ plan'[s] = plan[s] /\ c[s] = b[s] /\ plan[s] > 0
      BY <1>4, <1>8, <1>10, <2>2
    <3> QED
      BY <1>6, <1>10, <3>1 DEF Stretches
  <2> QED
    BY <2>1, <2>2
<1>11. Stretches(c)'
  BY <1>9, <1>10 DEF Stretches
<1> QED
  BY <1>3, <1>5, <1>11 DEF PassOK

(* A preemption gives its stretch back; the later ones move up.             *)
LEMMA GiveBackFits ==
    ASSUME TInv, NEW r \in Requests, left' = left + plan[r],
           plan' = [plan EXCEPT ![r] = 0], drafts' = [drafts EXCEPT ![r] = 0],
           visited' = visited \cup {r}
    PROVE  PassOK'
<1>1. PICK b \in [Requests -> Nat] : Stretches(b)
  BY DEF TInv, PassOK
<1>3. /\ left \in Nat /\ left <= Budget /\ Budget \in Nat /\ MaxDrafts \in Nat
      /\ \A q \in Requests : plan[q] \in Nat /\ b[q] \in Nat /\ plan[q] <= Budget
  <2>1. left \in Nat /\ left <= Budget /\ Budget \in Nat /\ MaxDrafts \in Nat
    BY SizeAssumption DEF TInv, PassOK
  <2>2. ASSUME NEW q \in Requests PROVE plan[q] \in Nat /\ plan[q] <= Budget
    <3>1. plan[q] \in 0..Budget
      BY DEF TInv, PassOK
    <3> QED
      BY <2>1, <3>1
  <2>3. ASSUME NEW q \in Requests PROVE b[q] \in Nat
    BY <1>1
  <2> QED
    BY <2>1, <2>2, <2>3
<1>2. PICK n \in Nat, m \in Nat : n = plan[r] /\ m = b[r]
  <2>1. plan[r] \in Nat /\ b[r] \in Nat
    BY <1>3
  <2> QED
    BY <2>1
<1>4. n > 0 => m + n + left <= Budget
  BY <1>1, <1>2 DEF Stretches
<1>5. left' \in 0..Budget
  BY <1>2, <1>3, <1>4
<1>6. plan'[r] = 0 /\ \A q \in Requests : q # r => plan'[q] = plan[q]
  BY DEF TInv, PassOK
<1>7. plan' \in [Requests -> 0..Budget] /\ drafts' \in [Requests -> 0..MaxDrafts]
      /\ visited' \subseteq Requests
  BY <1>3 DEF TInv, PassOK
<1>8. \A q \in Requests : plan'[q] > 0 => q \in visited'
  BY <1>6 DEF TInv, PassOK
<1>9. PICK c \in [Requests -> Nat] :
         \A q \in Requests : c[q] = IF b[q] >= m + n THEN b[q] - n ELSE b[q]
  <2> DEFINE f == [q \in Requests |-> IF b[q] >= m + n THEN b[q] - n ELSE b[q]]
  <2>1. f \in [Requests -> Nat]
    BY <1>2, <1>3
  <2> QED
    BY <2>1
<1>10. ASSUME NEW q \in Requests, plan'[q] > 0
       PROVE  /\ q # r /\ plan'[q] = plan[q] /\ plan[q] > 0
              /\ n > 0 => b[q] + plan[q] <= m \/ m + n <= b[q]
              /\ b[q] + plan[q] + left <= Budget
  <2>1. q # r /\ plan'[q] = plan[q] /\ plan[q] > 0
    BY <1>6, <1>10
  <2> QED
    BY <1>1, <1>2, <2>1 DEF Stretches
<1>11. ASSUME NEW q \in Requests, plan'[q] > 0
       PROVE  c[q] + plan'[q] + left' <= Budget
  <2>1. PICK x \in Nat, y \in Nat, w \in Nat : x = b[q] /\ y = plan[q] /\ w = c[q]
    BY <1>3
  <2>2. /\ w = IF x >= m + n THEN x - n ELSE x
        /\ n > 0 => x + y <= m \/ m + n <= x
        /\ x + y + left <= Budget /\ plan'[q] = y
    BY <1>9, <1>10, <1>11, <2>1
  <2>3. w + y + (left + n) <= Budget
    BY <1>2, <1>3, <1>4, <2>1, <2>2
  <2> QED
    BY <1>2, <2>1, <2>2, <2>3
<1>12. ASSUME NEW q \in Requests, NEW s \in Requests, q # s, plan'[q] > 0, plan'[s] > 0
       PROVE  c[q] + plan'[q] <= c[s] \/ c[s] + plan'[s] <= c[q]
  <2>1. PICK x \in Nat, y \in Nat, w \in Nat : x = b[q] /\ y = plan[q] /\ w = c[q]
    BY <1>3
  <2>2. PICK u \in Nat, v \in Nat, z \in Nat : u = b[s] /\ v = plan[s] /\ z = c[s]
    BY <1>3
  <2>3. /\ w = IF x >= m + n THEN x - n ELSE x
        /\ n > 0 => x + y <= m \/ m + n <= x
        /\ plan'[q] = y
    BY <1>9, <1>10, <1>12, <2>1
  <2>4. /\ z = IF u >= m + n THEN u - n ELSE u
        /\ n > 0 => u + v <= m \/ m + n <= u
        /\ plan'[s] = v
    BY <1>9, <1>10, <1>12, <2>2
  <2>5. x + y <= u \/ u + v <= x
    BY <1>1, <1>10, <1>12, <2>1, <2>2 DEF Stretches
  <2>6. w + y <= z \/ z + v <= w
    BY <1>2, <2>1, <2>2, <2>3, <2>4, <2>5
  <2> QED
    BY <2>1, <2>2, <2>3, <2>4, <2>6
<1>13. Stretches(c)'
  BY <1>11, <1>12 DEF Stretches
<1> QED
  BY <1>5, <1>7, <1>8, <1>13 DEF PassOK

LEMMA PassKept ==
    ASSUME PassOK, UNCHANGED <<left, plan, drafts, visited>>
    PROVE  PassOK'
BY DEF PassOK, Stretches

(* A pass that visits a request takes nothing from another.                 *)
LEMMA VisitKeeps ==
    ASSUME PassOK, NEW r \in Requests, visited' = visited \cup {r},
           UNCHANGED <<left, plan, drafts>>
    PROVE  PassOK'
BY DEF PassOK, Stretches

LEMMA NewPass ==
    ASSUME left' \in {0, Budget}, plan' = Zero, drafts' = Zero, visited' = {}
    PROVE  PassOK'
<1>1. Budget \in Nat /\ MaxDrafts \in Nat
  BY SizeAssumption
<1>2. Zero \in [Requests -> Nat] /\ \A q \in Requests : Zero[q] = 0
  BY DEF Zero
<1>3. Stretches(Zero)'
  BY <1>2 DEF Stretches
<1>4. left' \in 0..Budget /\ plan' \in [Requests -> 0..Budget] /\ drafts' \in [Requests -> 0..MaxDrafts]
  BY <1>1 DEF Zero
<1> QED
  BY <1>2, <1>3, <1>4 DEF PassOK

-----------------------------------------------------------------------------
(* The steps, and the types they keep.                                      *)

LEMMA TrackedIsNat ==
    ASSUME TypeOK, NEW r \in Requests, NEW total \in Nat
    PROVE  Tracked(r, total) \in Nat
<1>1. FloorTo(total, Grid) \in Nat
  BY GridPositive, FloorBelow
<1>2. canonEnd[r] \in Nat \cup {Unset}
  BY DEF TypeOK
<1> QED
  BY <1>1, <1>2 DEF Tracked

LEMMA AllocateTypes ==
    ASSUME TypeOK, NEW r \in Requests, NEW total \in Nat, NEW n, AllocateSlots(r, total, n)
    PROVE  /\ canonEnd' \in [Requests -> Nat \cup {Unset}]
           /\ pending' \in [Requests -> Nat]
<1>1. PICK k \in Nat, g \in Nat : k = Tracked(r, total) /\ g = Grid
  BY TrackedIsNat, GridPositive
<1>2. canonEnd \in [Requests -> Nat \cup {Unset}] /\ pending \in [Requests -> Nat]
  BY DEF TypeOK
<1>3. CASE FullChunk(r, total, n) /\ Defer
  <2>1. canonEnd' = [canonEnd EXCEPT ![r] = k] /\ pending' = [pending EXCEPT ![r] = total + g]
    BY <1>1, <1>3 DEF AllocateSlots
  <2>2. total + g \in Nat
    BY <1>1
  <2> QED
    BY <1>1, <1>2, <2>1, <2>2
<1>4. CASE ~(FullChunk(r, total, n) /\ Defer)
  <2>1. PICK x : x = k + IF FullChunk(r, total, n) THEN g ELSE 0
    OBVIOUS
  <2>2. canonEnd' = [canonEnd EXCEPT ![r] = x] /\ pending' = pending
    BY <1>1, <1>4, <2>1 DEF AllocateSlots
  <2>3. x \in Nat
    BY <1>1, <2>1
  <2> QED
    BY <1>2, <2>2, <2>3
<1> QED
  BY <1>3, <1>4

LEMMA WaitsBounded ==
    ASSUME TypeOK, NEW r \in Requests, NEW start \in Nat,
           waits' = [waits EXCEPT ![r] = NextWaits(r, start)]
    PROVE  waits' \in [Requests -> 0..WaitMax]
<1>1. waits[r] \in 0..WaitMax /\ WaitMax \in Nat
  BY SizeAssumption DEF TypeOK
<1>2. Waits(r, start) => waits[r] < WaitMax
  BY DEF Waits
<1>3. NextWaits(r, start) \in 0..WaitMax
  BY <1>1, <1>2 DEF NextWaits
<1> QED
  BY <1>3 DEF TypeOK

(* A request takes its chunk.                                               *)
LEMMA ChunkTaken ==
    ASSUME TInv, NEW r \in Requests, r \notin visited, NEW start \in Nat,
           Chunk(r, start) # 0, AllocateSlots(r, start, Chunk(r, start)),
           Take(r, Chunk(r, start), 0), visited' = visited \cup {r}
    PROVE  /\ PassOK'
           /\ canonEnd' \in [Requests -> Nat \cup {Unset}] /\ pending' \in [Requests -> Nat]
<1> DEFINE n == Chunk(r, start)
<1>1. n \in 0..left /\ n # 0 /\ Take(r, n, 0) /\ AllocateSlots(r, start, n)
  BY ChunkFits DEF TInv
<1>2. left \in Nat
  BY SizeAssumption DEF TInv, PassOK
<1> HIDE DEF n
<1>3. n \in 1..left /\ 0 \in 0..MaxDrafts
  BY <1>1, <1>2, SizeAssumption
<1> QED
  BY <1>1, <1>3, AllocateTypes, TakeFits DEF TInv

LEMMA PrefillTypes ==
    ASSUME TInv, NEW r \in Requests, Prefill(r)
    PROVE  TInv'
<1>1. /\ r \notin visited /\ visited' = visited \cup {r} /\ computed[r] \in Nat
      /\ waits' = [waits EXCEPT ![r] = NextWaits(r, computed[r])]
      /\ UNCHANGED <<progress, nMain, nDraft, phase, preempted, cache, faults>>
  BY DEF Prefill, RunningTurn, Visit, TInv, TypeOK
<1>2. waits' \in [Requests -> 0..WaitMax]
  BY <1>1, WaitsBounded DEF TInv
<1>3. /\ PassOK'
      /\ canonEnd' \in [Requests -> Nat \cup {Unset}] /\ pending' \in [Requests -> Nat]
  <2>1. CASE Chunk(r, computed[r]) = 0
    <3>1. UNCHANGED <<left, plan, drafts, canonEnd, pending>>
      BY <2>1 DEF Prefill
    <3> QED
      BY <1>1, <3>1, VisitKeeps DEF TInv, TypeOK
  <2>2. CASE Chunk(r, computed[r]) # 0
    <3>1. /\ AllocateSlots(r, computed[r], Chunk(r, computed[r]))
          /\ Take(r, Chunk(r, computed[r]), 0)
      BY <2>2 DEF Prefill
    <3> QED
      BY <1>1, <2>2, <3>1, ChunkTaken
  <2> QED
    BY <2>1, <2>2
<1> QED
  BY <1>1, <1>2, <1>3 DEF TInv, TypeOK, PassOK

LEMMA DecodeTypes ==
    ASSUME TInv, NEW r \in Requests, Decode(r)
    PROVE  TInv'
<1>1. /\ r \notin visited /\ visited' = visited \cup {r} /\ computed[r] \in Nat /\ left > 0
      /\ UNCHANGED <<progress, waits, nMain, nDraft, phase, preempted, cache, faults>>
  BY DEF Decode, RunningTurn, Visit, TInv, TypeOK
<1>2. PICK d \in 0..MaxDrafts : LET n == Least(d + 1, left)
         IN  AllocateSlots(r, computed[r], n) /\ \E k \in {d, n - 1} : Take(r, n, k)
  BY DEF Decode
<1>3. PICK n : n = Least(d + 1, left)
  OBVIOUS
<1>4. PICK k \in {d, n - 1} : Take(r, n, k)
  BY <1>2, <1>3
<1>5. left \in Nat /\ MaxDrafts \in Nat
  BY SizeAssumption DEF TInv, PassOK
<1>6. n \in 1..left /\ n - 1 <= d
  BY <1>1, <1>3, <1>5 DEF Least
<1>7. k \in 0..MaxDrafts
  BY <1>4, <1>5, <1>6
<1>8. PassOK'
  BY <1>1, <1>4, <1>6, <1>7, TakeFits
<1>9. canonEnd' \in [Requests -> Nat \cup {Unset}] /\ pending' \in [Requests -> Nat]
  BY <1>1, <1>2, <1>3, AllocateTypes DEF TInv
<1> QED
  BY <1>1, <1>8, <1>9 DEF TInv, TypeOK, PassOK

LEMMA PreemptTypes ==
    ASSUME TInv, NEW r \in Requests, Preempt(r)
    PROVE  TInv'
<1>1. PassOK'
  BY GiveBackFits DEF Preempt, Visit
<1>2. faults' \in 0..MaxFaults
  BY SizeAssumption DEF Preempt, TInv, TypeOK
<1>3. ahead' \in [Requests -> SUBSET Requests]
  <2>1. \A q \in Requests : ahead[q] \cup {r} \in SUBSET Requests /\ {} \in SUBSET Requests
    BY DEF TInv, TypeOK
  <2> QED
    BY <2>1 DEF Preempt, PutBack
<1>4. /\ status' = [status EXCEPT ![r] = "waiting"]
      /\ computed' = [computed EXCEPT ![r] = 0] /\ exact' = [exact EXCEPT ![r] = 0]
      /\ nMain' = [nMain EXCEPT ![r] = 0] /\ nDraft' = [nDraft EXCEPT ![r] = 0]
      /\ preempted' = TRUE
      /\ UNCHANGED <<length, canonEnd, pending, waits, phase, cache>>
  BY DEF Preempt
<1>5. /\ status' \in [Requests -> {"idle", "waiting", "loading", "ready", "running"}]
      /\ computed' \in [Requests -> Nat] /\ exact' \in [Requests -> Nat]
      /\ nMain' \in [Requests -> Nat] /\ nDraft' \in [Requests -> Nat]
  BY <1>4 DEF TInv, TypeOK
<1> QED
  BY <1>1, <1>2, <1>3, <1>4, <1>5 DEF TInv, TypeOK, PassOK

LEMMA ScheduleTypes ==
    ASSUME TInv, NEW r \in Requests, NEW start \in Nat, NEW good \in Nat,
           WaitingTurn(r), Schedule(r, start, good)
    PROVE  TInv'
<1>1. /\ r \notin visited /\ waits' = [waits EXCEPT ![r] = NextWaits(r, start)]
      /\ UNCHANGED <<preempted, cache, faults>>
  BY DEF WaitingTurn, Schedule
<1>2. waits' \in [Requests -> 0..WaitMax]
  BY <1>1, WaitsBounded DEF TInv
<1>3. CASE Chunk(r, start) = 0
  <2>1. /\ phase' = "settle"
        /\ UNCHANGED <<progress, canonEnd, pending, nMain, nDraft, left, plan, drafts, visited>>
    BY <1>3 DEF Schedule
  <2>2. PassOK'
    BY <2>1, PassKept DEF TInv
  <2> QED
    BY <1>1, <1>2, <2>1, <2>2 DEF TInv, TypeOK, PassOK
<1>4. CASE Chunk(r, start) # 0
  <2>1. /\ AllocateSlots(r, start, Chunk(r, start)) /\ Take(r, Chunk(r, start), 0)
        /\ visited' = visited \cup {r} /\ Dequeue(r)
        /\ status' = [status EXCEPT ![r] = "running"]
        /\ computed' = [computed EXCEPT ![r] = start]
        /\ exact' = [exact EXCEPT ![r] = good]
        /\ nMain' = [nMain EXCEPT ![r] = start \div Block]
        /\ nDraft' = [nDraft EXCEPT ![r] = start \div Block]
        /\ UNCHANGED <<length, phase>>
    BY <1>4 DEF Schedule, Visit
  <2>2. /\ PassOK'
        /\ canonEnd' \in [Requests -> Nat \cup {Unset}] /\ pending' \in [Requests -> Nat]
    BY <1>1, <1>4, <2>1, ChunkTaken
  <2>3. ahead' \in [Requests -> SUBSET Requests]
    <3>1. \A q \in Requests : ahead[q] \ {r} \in SUBSET Requests /\ {} \in SUBSET Requests
      BY DEF TInv, TypeOK
    <3> QED
      BY <2>1, <3>1 DEF Dequeue
  <2>4. start \div Block \in Nat
    BY SizeAssumption
  <2>5. /\ status' \in [Requests -> {"idle", "waiting", "loading", "ready", "running"}]
        /\ computed' \in [Requests -> Nat] /\ exact' \in [Requests -> Nat]
        /\ nMain' \in [Requests -> Nat] /\ nDraft' \in [Requests -> Nat]
    BY <2>1, <2>4 DEF TInv, TypeOK
  <2> QED
    BY <1>1, <1>2, <2>1, <2>2, <2>3, <2>5 DEF TInv, TypeOK, PassOK
<1> QED
  BY <1>3, <1>4

LEMMA HitIsNat ==
    ASSUME NEW r \in Requests, NEW h \in Hits(r)
    PROVE  h \in Nat /\ HitExact(h) \in Nat /\ h \div Block \in Nat
           /\ \A e \in External(r, h) : h + e \in Nat /\ LoadExact(h, e) \in Nat
<1>1. Block \in Nat \ {0} /\ LastBlock \in Nat
  BY SizeAssumption
<1>2. \A i \in Blocks : i * Block \in Nat
  BY <1>1 DEF Blocks
<1>3. h \in Nat
  BY <1>2 DEF Hits, Findable
<1>4. \A e \in External(r, h) : e \in Nat
  BY <1>2 DEF External
<1>5. h \div Block \in Nat
  BY <1>1, <1>3
<1>6. HitExact(h) \in Nat /\ \A e \in External(r, h) : h + e \in Nat
  BY <1>3, <1>4 DEF HitExact
<1> QED
  BY <1>3, <1>5, <1>6 DEF LoadExact

LEMMA AdmitTypes ==
    ASSUME TInv, NEW r \in Requests, Admit(r) \/ AdmitLoaded(r)
    PROVE  TInv'
<1>1. CASE Admit(r)
  <2>1. PICK h \in Hits(r) : Schedule(r, h, HitExact(h)) /\ WaitingTurn(r)
    BY <1>1 DEF Admit
  <2> QED
    BY <2>1, HitIsNat, ScheduleTypes
<1>2. CASE AdmitLoaded(r)
  <2>1. Schedule(r, computed[r], exact[r]) /\ WaitingTurn(r)
        /\ computed[r] \in Nat /\ exact[r] \in Nat
    BY <1>2 DEF AdmitLoaded, TInv, TypeOK
  <2> QED
    BY <2>1, ScheduleTypes
<1> QED
  BY <1>1, <1>2

LEMMA StartLoadTypes ==
    ASSUME TInv, NEW r \in Requests, StartLoad(r)
    PROVE  TInv'
<1>1. PICK h \in Hits(r) : \E e \in External(r, h) :
         /\ AllocateSlots(r, h + e, 0)
         /\ computed' = [computed EXCEPT ![r] = h + e]
         /\ exact' = [exact EXCEPT ![r] = LoadExact(h, e)]
         /\ nMain' = [nMain EXCEPT ![r] = h \div Block]
         /\ nDraft' = [nDraft EXCEPT ![r] = h \div Block]
  BY DEF StartLoad
<1>2. PICK e \in External(r, h) :
         /\ AllocateSlots(r, h + e, 0)
         /\ computed' = [computed EXCEPT ![r] = h + e]
         /\ exact' = [exact EXCEPT ![r] = LoadExact(h, e)]
         /\ nMain' = [nMain EXCEPT ![r] = h \div Block]
         /\ nDraft' = [nDraft EXCEPT ![r] = h \div Block]
  BY <1>1
<1>3. PICK n \in Nat, x \in Nat, k \in Nat : n = h + e /\ x = LoadExact(h, e) /\ k = h \div Block
  BY HitIsNat
<1>4. /\ status' = [status EXCEPT ![r] = "loading"] /\ visited' = visited \cup {r}
      /\ UNCHANGED <<ahead, length, waits, phase, left, plan, drafts, preempted, cache, faults>>
  BY DEF StartLoad, Visit
<1>5. PassOK'
  BY <1>4, VisitKeeps DEF TInv
<1>6. canonEnd' \in [Requests -> Nat \cup {Unset}] /\ pending' \in [Requests -> Nat]
  BY <1>2, <1>3, AllocateTypes DEF TInv
<1>7. /\ computed' = [computed EXCEPT ![r] = n] /\ exact' = [exact EXCEPT ![r] = x]
      /\ nMain' = [nMain EXCEPT ![r] = k] /\ nDraft' = [nDraft EXCEPT ![r] = k]
  BY <1>2, <1>3
<1>8. /\ status' \in [Requests -> {"idle", "waiting", "loading", "ready", "running"}]
      /\ computed' \in [Requests -> Nat] /\ exact' \in [Requests -> Nat]
      /\ nMain' \in [Requests -> Nat] /\ nDraft' \in [Requests -> Nat]
  BY <1>3, <1>4, <1>7 DEF TInv, TypeOK
<1> QED
  BY <1>4, <1>5, <1>6, <1>8 DEF TInv, TypeOK, PassOK

LEMMA QuietTypes ==
    ASSUME TInv, Begin \/ EndRunning \/ EndWaiting
    PROVE  TInv'
<1>1. CASE Begin
  <2>1. left' = Budget /\ plan' = Zero /\ drafts' = Zero /\ visited' = {} /\ preempted' = FALSE
        /\ phase' = "running" /\ UNCHANGED <<progress, canon, cache, faults>>
    BY <1>1 DEF Begin
  <2>2. PassOK'
    BY <2>1, NewPass
  <2> QED
    BY <2>1, <2>2 DEF TInv, TypeOK, PassOK
<1>2. CASE EndRunning \/ EndWaiting
  <2>1. /\ phase' \in {"settle", "waiting"} /\ faults' \in 0..MaxFaults
        /\ UNCHANGED <<progress, canon, left, plan, drafts, visited, preempted, cache>>
    BY <1>2, SizeAssumption DEF EndRunning, EndWaiting, TInv, TypeOK
  <2>2. PassOK'
    BY <2>1, PassKept DEF TInv
  <2> QED
    BY <2>1, <2>2 DEF TInv, TypeOK, PassOK
<1> QED
  BY <1>1, <1>2

LEMMA CopiesTypes ==
    ASSUME NEW r, NEW n, NEW ce, NEW upto, NEW ex
    PROVE  Copies(r, n, ce, upto, ex) \subseteq Blocks \X BOOLEAN
<1>1. ASSUME NEW i \in NewBlocks(r, n, ce, upto)
      PROVE  <<i, (i + 1) * Block <= ex>> \in Blocks \X BOOLEAN
  <2>1. i \in Blocks /\ ((i + 1) * Block <= ex) \in BOOLEAN
    BY DEF NewBlocks, Upto
  <2> QED
    BY <2>1
<1> QED
  BY <1>1 DEF Copies

LEMMA ReceiptTypes ==
    ASSUME NEW r, NEW ce, NEW upto PROVE NewReceipts(r, ce, upto) \subseteq Blocks
BY DEF NewReceipts, Upto

LEMMA SettledTypes ==
    ASSUME TInv, NEW r \in Requests
    PROVE  Settled(r) \in Nat \cup {Unset} /\ ExactAfter(r) \in Nat
<1>1. /\ canonEnd[r] \in Nat \cup {Unset} /\ pending[r] \in Nat /\ exact[r] \in Nat
      /\ computed[r] \in Nat /\ Grid \in Nat
  BY GridPositive DEF TInv, TypeOK
<1> QED
  BY <1>1 DEF Settled, ExactAfter

(* The count of registered blocks never drops below zero, with no canonical *)
(* end either.                                                              *)
LEMMA CountTypes ==
    ASSUME NEW n \in Nat, NEW u \in Int, NEW ce \in Nat \cup {Unset}
    PROVE  /\ Bigger(n, Least(u, ce + 0) \div Block) \in Nat
           /\ Bigger(n, Least(u, ce + ReceiptRoom(ce)) \div Block) \in Nat
<1>1. Block \in Nat \ {0}
  BY SizeAssumption
<1>2. PICK a \in Int, b \in Int : a = Least(u, ce + 0) /\ b = Least(u, ce + ReceiptRoom(ce))
  BY <1>1 DEF Least, ReceiptRoom, Unset
<1>3. a \div Block \in Int /\ b \div Block \in Int
  BY <1>1
<1> QED
  BY <1>2, <1>3 DEF Bigger

LEMMA SettleTypes ==
    ASSUME TInv, Settle
    PROVE  TInv'
<1> DEFINE upto(r) == Least(computed[r] + plan[r], length[r])
           fresh == UNION {Copies(r, nMain[r], Settled(r), upto(r), ExactAfter(r)) : r \in Scheduled}
           freshD == UNION {Copies(r, nDraft[r], Settled(r), upto(r), ExactAfter(r)) : r \in Scheduled}
           slips == UNION {NewReceipts(r, Settled(r), upto(r)) : r \in Scheduled}
           had(r, n, extra) == IF r \in Scheduled
                                 THEN Bigger(n, Least(upto(r), Settled(r) + extra) \div Block)
                                 ELSE n
<1>1. /\ phase' = "idle" /\ canonEnd' = [r \in Requests |-> Settled(r)] /\ pending' = Zero
      /\ main' = main \cup fresh /\ draft' = draft \cup freshD
      /\ receipt' = (receipt \ CachedIn(freshD)) \cup slips
      /\ nMain' = [r \in Requests |-> had(r, nMain[r], 0)]
      /\ nDraft' = [r \in Requests |-> had(r, nDraft[r], ReceiptRoom(Settled(r)))]
      /\ exact' = [r \in Requests |-> ExactAfter(r)]
      /\ plan' = Zero /\ drafts' = Zero /\ visited' = {} /\ left' = 0 /\ preempted' = FALSE
      /\ UNCHANGED <<status, ahead, waits, tier, faults>>
  BY DEF Settle
<1>2. PICK made \in [Requests -> 0..MaxDrafts + 1] :
        /\ length' = [r \in Requests |-> length[r] + made[r]]
        /\ computed' = [r \in Requests |->
             IF computed[r] = length[r] THEN computed[r] + made[r] ELSE computed[r] + plan[r]]
  BY DEF Settle
<1>3. ASSUME NEW r \in Requests
      PROVE  /\ made[r] \in Nat /\ length[r] \in Nat /\ computed[r] \in Nat /\ plan[r] \in Nat
             /\ nMain[r] \in Nat /\ nDraft[r] \in Nat
  BY <1>2, SizeAssumption DEF TInv, TypeOK
<1>4. fresh \subseteq Blocks \X BOOLEAN /\ freshD \subseteq Blocks \X BOOLEAN /\ slips \subseteq Blocks
  <2>1. ASSUME NEW r \in Scheduled, NEW n
        PROVE  Copies(r, n, Settled(r), upto(r), ExactAfter(r)) \subseteq Blocks \X BOOLEAN
    BY CopiesTypes
  <2>2. ASSUME NEW c \in fresh PROVE c \in Blocks \X BOOLEAN
    <3>1. PICK r \in Scheduled : c \in Copies(r, nMain[r], Settled(r), upto(r), ExactAfter(r))
      OBVIOUS
    <3> QED
      BY <2>1, <3>1
  <2>3. ASSUME NEW c \in freshD PROVE c \in Blocks \X BOOLEAN
    <3>1. PICK r \in Scheduled : c \in Copies(r, nDraft[r], Settled(r), upto(r), ExactAfter(r))
      OBVIOUS
    <3> QED
      BY <2>1, <3>1
  <2>4. ASSUME NEW i \in slips PROVE i \in Blocks
    <3>1. PICK r \in Scheduled : i \in NewReceipts(r, Settled(r), upto(r))
      OBVIOUS
    <3> QED
      BY <3>1, ReceiptTypes
  <2> QED
    BY <2>2, <2>3, <2>4
<1>5. ASSUME NEW r \in Requests
      PROVE  had(r, nMain[r], 0) \in Nat /\ had(r, nDraft[r], ReceiptRoom(Settled(r))) \in Nat
  <2>1. upto(r) \in Int
    BY <1>3 DEF Least
  <2>2. PICK u \in Int, ce \in Nat \cup {Unset} : u = upto(r) /\ ce = Settled(r)
    BY <2>1, SettledTypes
  <2>3. /\ Bigger(nMain[r], Least(u, ce + 0) \div Block) \in Nat
        /\ Bigger(nDraft[r], Least(u, ce + ReceiptRoom(ce)) \div Block) \in Nat
    BY <1>3, <2>2, CountTypes
  <2> QED
    BY <1>3, <2>2, <2>3
<1> HIDE DEF upto, fresh, freshD, slips, had
<1>6. main' \subseteq Blocks \X BOOLEAN /\ draft' \subseteq Blocks \X BOOLEAN /\ receipt' \subseteq Blocks
  BY <1>1, <1>4 DEF TInv, TypeOK
<1>7. nMain' \in [Requests -> Nat] /\ nDraft' \in [Requests -> Nat]
  BY <1>1, <1>5
<1>8. length' \in [Requests -> Nat] /\ computed' \in [Requests -> Nat]
  BY <1>2, <1>3
<1>9. exact' \in [Requests -> Nat] /\ canonEnd' \in [Requests -> Nat \cup {Unset}]
      /\ pending' \in [Requests -> Nat]
  BY <1>1, SettledTypes DEF Zero
<1>10. PassOK'
  BY <1>1, NewPass
<1> QED
  BY <1>1, <1>6, <1>7, <1>8, <1>9, <1>10 DEF TInv, TypeOK, PassOK

LEMMA ArriveTypes ==
    ASSUME TInv, NEW r \in Requests, Arrive(r) \/ Leave(r)
    PROVE  TInv'
<1>1. CASE Arrive(r)
  <2>1. /\ status' = [status EXCEPT ![r] = "waiting"] /\ ahead' = [ahead EXCEPT ![r] = Queued]
        /\ UNCHANGED <<length, computed, exact, canonEnd, nMain, nDraft, cache, faults, pass, waits, pending>>
    BY <1>1 DEF Arrive, Between
  <2>2. PassOK'
    BY <2>1, PassKept DEF TInv
  <2>3. /\ status' \in [Requests -> {"idle", "waiting", "loading", "ready", "running"}]
        /\ ahead' \in [Requests -> SUBSET Requests]
    BY <2>1 DEF TInv, TypeOK, Queued
  <2> QED
    BY <2>1, <2>2, <2>3 DEF TInv, TypeOK
<1>2. CASE Leave(r)
  <2>1. /\ status' = [status EXCEPT ![r] = "idle"] /\ Dequeue(r)
        /\ length' = [length EXCEPT ![r] = Prompt[r]]
        /\ computed' = [computed EXCEPT ![r] = 0] /\ exact' = [exact EXCEPT ![r] = 0]
        /\ canonEnd' = [canonEnd EXCEPT ![r] = Unset] /\ waits' = [waits EXCEPT ![r] = 0]
        /\ nMain' = [nMain EXCEPT ![r] = 0] /\ nDraft' = [nDraft EXCEPT ![r] = 0]
        /\ UNCHANGED <<pending, pass, cache, faults>>
    BY <1>2 DEF Leave
  <2>2. PassOK'
    BY <2>1, PassKept DEF TInv
  <2>3. ahead' \in [Requests -> SUBSET Requests]
    <3>1. \A q \in Requests : ahead[q] \ {r} \in SUBSET Requests /\ {} \in SUBSET Requests
      BY DEF TInv, TypeOK
    <3> QED
      BY <2>1, <3>1 DEF Dequeue
  <2>4. Prompt[r] \in Nat /\ 0 \in 0..WaitMax
    BY RequestAssumption, SizeAssumption
  <2>5. /\ status' \in [Requests -> {"idle", "waiting", "loading", "ready", "running"}]
        /\ length' \in [Requests -> Nat]
        /\ computed' \in [Requests -> Nat] /\ exact' \in [Requests -> Nat]
        /\ canonEnd' \in [Requests -> Nat \cup {Unset}] /\ waits' \in [Requests -> 0..WaitMax]
        /\ nMain' \in [Requests -> Nat] /\ nDraft' \in [Requests -> Nat]
    BY <2>1, <2>4 DEF TInv, TypeOK
  <2> QED
    BY <2>1, <2>2, <2>3, <2>5 DEF TInv, TypeOK
<1> QED
  BY <1>1, <1>2

LEMMA LoadEndsTypes ==
    ASSUME TInv, NEW r \in Requests, NEW keep \in Nat, LoadEnds(r, keep), faults' \in 0..MaxFaults
    PROVE  TInv'
<1> DEFINE fresh(n) == Copies(r, n, canonEnd[r], keep, exact[r])
           had(n, extra) == Bigger(n, Least(keep, canonEnd[r] + extra) \div Block)
<1>1. /\ UNCHANGED <<pass, waits, pending, ahead, length, canonEnd, tier>>
      /\ computed' = [computed EXCEPT ![r] = keep]
      /\ exact' = [exact EXCEPT ![r] = Least(exact[r], keep)]
      /\ main' = main \cup fresh(nMain[r]) /\ draft' = draft \cup fresh(nDraft[r])
      /\ receipt' = (receipt \ CachedIn(fresh(nDraft[r]))) \cup NewReceipts(r, canonEnd[r], keep)
      /\ nMain' = [nMain EXCEPT ![r] = had(nMain[r], 0)]
      /\ nDraft' = [nDraft EXCEPT ![r] = had(nDraft[r], ReceiptRoom(canonEnd[r]))]
      /\ status' = [status EXCEPT ![r] = IF keep = 0 THEN "waiting" ELSE "ready"]
  BY DEF LoadEnds, Between
<1>2. canonEnd[r] \in Nat \cup {Unset} /\ exact[r] \in Nat /\ nMain[r] \in Nat /\ nDraft[r] \in Nat
  BY DEF TInv, TypeOK
<1>3. had(nMain[r], 0) \in Nat /\ had(nDraft[r], ReceiptRoom(canonEnd[r])) \in Nat
  <2>0. keep \in Int
    OBVIOUS
  <2>1. PICK u \in Int, ce \in Nat \cup {Unset}, n \in Nat, d \in Nat :
           u = keep /\ ce = canonEnd[r] /\ n = nMain[r] /\ d = nDraft[r]
    BY <1>2, <2>0, Zenon
  <2>2. /\ Bigger(n, Least(u, ce + 0) \div Block) \in Nat
        /\ Bigger(d, Least(u, ce + ReceiptRoom(ce)) \div Block) \in Nat
    BY CountTypes
  <2> QED
    BY <2>1, <2>2
<1>4. \A n : fresh(n) \subseteq Blocks \X BOOLEAN
  BY CopiesTypes
<1> HIDE DEF fresh, had
<1>5. main' \subseteq Blocks \X BOOLEAN /\ draft' \subseteq Blocks \X BOOLEAN /\ receipt' \subseteq Blocks
  BY <1>1, <1>4, ReceiptTypes DEF TInv, TypeOK
<1>6. Least(exact[r], keep) \in Nat
  BY <1>2 DEF Least
<1>7. PICK s \in {"waiting", "ready"} : s = IF keep = 0 THEN "waiting" ELSE "ready"
  OBVIOUS
<1>8. /\ status' \in [Requests -> {"idle", "waiting", "loading", "ready", "running"}]
      /\ computed' \in [Requests -> Nat] /\ exact' \in [Requests -> Nat]
      /\ nMain' \in [Requests -> Nat] /\ nDraft' \in [Requests -> Nat]
  BY <1>1, <1>3, <1>6, <1>7 DEF TInv, TypeOK
<1>9. PassOK'
  BY <1>1, PassKept DEF TInv
<1> QED
  BY <1>1, <1>5, <1>8, <1>9 DEF TInv, TypeOK

LEMMA LoadTypes ==
    ASSUME TInv, NEW r \in Requests, FinishLoad(r) \/ FailLoad(r)
    PROVE  TInv'
<1>1. computed[r] \in Nat /\ Block \in Nat /\ LastBlock \in Nat /\ faults \in 0..MaxFaults /\ MaxFaults \in Nat
  BY SizeAssumption DEF TInv, TypeOK
<1>2. CASE FinishLoad(r)
  BY <1>1, <1>2, LoadEndsTypes DEF FinishLoad
<1>3. CASE FailLoad(r)
  <2>1. PICK i \in Blocks : LoadEnds(r, i * Block)
    BY <1>3 DEF FailLoad
  <2>2. i * Block \in Nat /\ faults' \in 0..MaxFaults
    BY <1>1, <1>3 DEF Blocks, FailLoad
  <2> QED
    BY <2>1, <2>2, LoadEndsTypes
<1> QED
  BY <1>2, <1>3

LEMMA CacheTypes ==
    ASSUME TInv, (\E r \in Requests : Store(r)) \/ Evict
    PROVE  TInv'
<1>1. /\ UNCHANGED <<progress, canon, pass>> /\ PassOK'
  BY PassKept DEF Store, Evict, Between, TInv
<1>2. faults' \in 0..MaxFaults
  BY SizeAssumption DEF Store, Evict, TInv, TypeOK
<1>3. main' \subseteq main /\ draft' \subseteq draft /\ receipt' \subseteq receipt
  BY DEF Store, Evict
<1>4. tier' \subseteq Blocks \X BOOLEAN
  <2>1. CASE Evict
    <3>1. tier' \subseteq tier
      BY <2>1 DEF Evict
    <3> QED
      BY <3>1 DEF TInv, TypeOK
  <2>2. CASE \E r \in Requests : Store(r)
    <3>0. PICK r \in Requests : Store(r)
      BY <2>2
    <3>1. PICK i \in Offloadable(r) : tier' = tier \cup {<<i, (i + 1) * Block <= exact[r]>>}
      BY <3>0 DEF Store
    <3>2. PICK new : new = <<i, (i + 1) * Block <= exact[r]>>
      OBVIOUS
    <3>3. new \in Blocks \X BOOLEAN
      <4>1. i \in Blocks
        BY DEF Offloadable, Upto
      <4>2. ((i + 1) * Block <= exact[r]) \in BOOLEAN
        OBVIOUS
      <4> QED
        BY <3>2, <4>1, <4>2
    <3>4. tier \subseteq Blocks \X BOOLEAN /\ tier' = tier \cup {new}
      BY <3>1, <3>2 DEF TInv, TypeOK
    <3> QED
      BY <3>3, <3>4
  <2> QED
    BY <2>1, <2>2
<1> QED
  BY <1>1, <1>2, <1>3, <1>4 DEF TInv, TypeOK

LEMMA InitTypes == Init => TInv
<1> SUFFICES ASSUME Init PROVE TInv
  OBVIOUS
<1>1. Stretches(Zero)
  BY DEF Init, Stretches, Zero
<1>2. Zero \in [Requests -> Nat] /\ 0 \in 0..Budget /\ 0 \in 0..MaxDrafts /\ 0 \in 0..WaitMax /\ 0 \in 0..MaxFaults
  BY SizeAssumption DEF Zero
<1>3. PassOK
  BY <1>1, <1>2 DEF Init, PassOK, Zero
<1>4. Prompt \in [Requests -> Nat]
  BY RequestAssumption
<1>5. TypeOK
  BY <1>2, <1>4 DEF Init, TypeOK, Zero
<1> QED
  BY <1>3, <1>5 DEF TInv

LEMMA NextTypes == ASSUME TInv, [Next]_vars PROVE TInv'
<1>1. CASE Engine
  <2>1. CASE \E r \in Requests : Turn(r)
    BY <2>1, PrefillTypes, DecodeTypes, AdmitTypes, StartLoadTypes DEF Turn
  <2> QED
    BY <1>1, <2>1, QuietTypes, SettleTypes DEF Engine
<1>2. CASE \E r \in Requests : Preempt(r) \/ Request(r)
  BY <1>2, PreemptTypes, ArriveTypes, LoadTypes, CacheTypes DEF Request
<1>3. CASE Evict
  BY <1>3, CacheTypes
<1>4. CASE UNCHANGED vars
  BY <1>4, PassKept DEF TInv, TypeOK
<1> QED
  BY <1>1, <1>2, <1>3, <1>4 DEF Next

LEMMA TypesInvariance == Spec => []TInv
<1>1. Init => TInv
  BY InitTypes
<1>2. TInv /\ [Next]_vars => TInv'
  BY NextTypes
<1> QED
  BY <1>1, <1>2, PTL DEF Spec

(* Every state is of its type, in any configuration; above all, a pass      *)
(* never hands out more tokens than the budget, and a request never waits   *)
(* more often than it may.                                                  *)
THEOREM StatesHaveTypes == Spec => []TypeOK
<1>1. TInv => TypeOK
  BY DEF TInv
<1> QED
  BY <1>1, TypesInvariance, PTL

-----------------------------------------------------------------------------
(* The inductive invariant.  What each request carries from one pass to the *)
(* next, and in a pass: a running request's canonical end covers only exact *)
(* KV, and a deferred chunk starts at it.  When the budget is the grid, a   *)
(* full chunk is decided as it is taken, and the end is ahead until the     *)
(* chunk has run; it then has the pass for itself.                          *)

DeferredChunk(r) ==
    /\ plan[r] = Grid /\ pending[r] = computed[r] + Grid
    /\ canonEnd[r] = computed[r] /\ computed[r] < length[r]

DecidedChunk(r) ==
    /\ plan[r] = Grid /\ canonEnd[r] = computed[r] + Grid /\ computed[r] < length[r]
    /\ computed[r] % Grid = 0 /\ exact[r] = computed[r]
    /\ left = 0 /\ \A q \in Requests \ {r} : plan[q] = 0

RequestOK(r) ==
    /\ canonEnd[r] # Unset => canonEnd[r] % Grid = 0
    /\ Prompt[r] <= length[r]
    /\ status[r] = "running" =>
         /\ canonEnd[r] # Unset /\ exact[r] <= computed[r]
         /\ canonEnd[r] <= exact[r] \/ DecidedChunk(r)
    /\ status[r] \in {"loading", "ready"} => canonEnd[r] # Unset /\ exact[r] = computed[r]
    /\ plan[r] > 0 => r \in visited /\ status[r] = "running"
    /\ pending[r] > 0 => r \in visited /\ (plan[r] > 0 => DeferredChunk(r))
    /\ phase = "idle" => pending[r] = 0 /\ plan[r] = 0

IInv == Types /\ CachesExact /\ \A r \in Requests : RequestOK(r)

LEMMA InitIInv == Init => IInv
<1> SUFFICES ASSUME Init PROVE IInv
  OBVIOUS
<1>1. Types
  BY RequestAssumption DEF Init, Types, Zero
<1>2. \A r \in Requests : RequestOK(r)
  BY RequestAssumption DEF Init, RequestOK, Zero
<1> QED
  BY <1>1, <1>2 DEF Init, IInv, CachesExact

\* A chunk of the whole budget has the pass for itself.
LEMMA WholeBudget ==
    ASSUME TInv, ~Defer, Grid <= left
    PROVE  left = Grid /\ \A q \in Requests : plan[q] = 0
<1>1. /\ left \in Nat /\ left <= Budget /\ Budget \in Nat /\ Grid \in Nat \ {0}
  BY SizeAssumption, GridPositive DEF TInv, PassOK
<1>2. left = Grid /\ left = Budget
  BY <1>1 DEF Defer
<1>3. PICK b \in [Requests -> Nat] : Stretches(b)
  BY DEF TInv, PassOK
<1>4. ASSUME NEW q \in Requests PROVE plan[q] = 0
  <2>1. plan[q] \in 0..Budget /\ b[q] \in Nat
    BY <1>3 DEF TInv, PassOK
  <2>2. plan[q] > 0 => b[q] + plan[q] + left <= Budget
    BY <1>3 DEF Stretches
  <2> QED
    BY <1>1, <1>2, <2>1, <2>2
<1> QED
  BY <1>2, <1>4

\* The canonical end once a chunk is allocated.
CanonAfter(r, total, n) ==
    IF FullChunk(r, total, n) /\ ~Defer THEN total + Grid ELSE Tracked(r, total)

LEMMA Allocation ==
    ASSUME Types, NEW r \in Requests, NEW total \in Nat, NEW n \in Nat,
           canonEnd[r] # Unset => canonEnd[r] % Grid = 0,
           AllocateSlots(r, total, n)
    PROVE  /\ canonEnd' = [canonEnd EXCEPT ![r] = CanonAfter(r, total, n)]
           /\ pending' = IF FullChunk(r, total, n) /\ Defer
                         THEN [pending EXCEPT ![r] = total + Grid] ELSE pending
           /\ CanonAfter(r, total, n) \in Nat /\ CanonAfter(r, total, n) % Grid = 0
<1>1. PICK k \in Nat, g \in Nat : k = Tracked(r, total) /\ g = Grid
  BY TrackedProps, GridPositive
<1>2. k % Grid = 0 /\ (k + Grid) % Grid = 0
  BY <1>1, TrackedProps, NextGridPoint
<1>3. CASE FullChunk(r, total, n) /\ Defer
  <2>1. canonEnd' = [canonEnd EXCEPT ![r] = k] /\ pending' = [pending EXCEPT ![r] = total + Grid]
    BY <1>1, <1>3 DEF AllocateSlots
  <2>2. CanonAfter(r, total, n) = k
    BY <1>1, <1>3 DEF CanonAfter
  <2> QED
    BY <1>1, <1>2, <1>3, <2>1, <2>2
<1>4. CASE FullChunk(r, total, n) /\ ~Defer
  <2>1. canonEnd' = [canonEnd EXCEPT ![r] = k + g] /\ pending' = pending
    BY <1>1, <1>4 DEF AllocateSlots
  <2>2. CanonAfter(r, total, n) = k + g
    BY <1>1, <1>4 DEF CanonAfter, FullChunk
  <2> QED
    BY <1>1, <1>2, <1>4, <2>1, <2>2
<1>5. CASE ~FullChunk(r, total, n)
  <2>1. canonEnd' = [canonEnd EXCEPT ![r] = k + 0] /\ pending' = pending
    BY <1>1, <1>5 DEF AllocateSlots
  <2>2. CanonAfter(r, total, n) = k /\ k + 0 = k
    BY <1>1, <1>5 DEF CanonAfter
  <2> QED
    BY <1>1, <1>2, <1>5, <2>1, <2>2
<1> QED
  BY <1>3, <1>4, <1>5

\* A request that starts or goes on from exact KV is in order after its
\* allocation, whatever else the step leaves alone.
LEMMA AllocatedOK ==
    ASSUME TInv, IInv, NEW r \in Requests, NEW total \in Nat, NEW n \in Nat \ {0},
           NEW d \in Int, n <= left, AllocateSlots(r, total, n), Take(r, n, d),
           status'[r] = "running", visited' = visited \cup {r}, length' = length,
           r \notin visited, phase # "idle", phase' = phase,
           computed'[r] = total, exact'[r] \in Nat, exact'[r] <= total,
           Tracked(r, total) <= exact'[r]
    PROVE  RequestOK(r)'
<1>1. /\ canonEnd'[r] = CanonAfter(r, total, n)
      /\ pending'[r] = IF FullChunk(r, total, n) /\ Defer THEN total + Grid ELSE pending[r]
      /\ CanonAfter(r, total, n) \in Nat /\ CanonAfter(r, total, n) % Grid = 0
  BY Allocation DEF IInv, RequestOK, Types
<1>2. Tracked(r, total) \in Nat /\ Tracked(r, total) % Grid = 0
  BY TrackedProps DEF IInv, RequestOK
<1>3. plan'[r] = n /\ length'[r] = length[r] /\ Prompt[r] <= length[r]
  BY DEF Take, IInv, Types, RequestOK
<1>4. pending[r] \in Nat /\ ~(pending[r] > 0) /\ length[r] \in Nat /\ Prompt[r] \in Nat
  BY RequestAssumption DEF IInv, RequestOK, Types
<1>5. ASSUME FullChunk(r, total, n)
      PROVE  total = Tracked(r, total) /\ n = Grid /\ total < length[r]
  BY <1>3, <1>4, <1>5, GridPositive DEF FullChunk
<1>6. pending'[r] > 0 => DeferredChunk(r)'
  <2> SUFFICES ASSUME pending'[r] > 0 PROVE DeferredChunk(r)'
    OBVIOUS
  <2>1. FullChunk(r, total, n) /\ Defer
    BY <1>1, <1>4
  <2>2. canonEnd'[r] = total
    BY <1>1, <1>5, <2>1 DEF CanonAfter
  <2> QED
    BY <1>1, <1>3, <1>5, <2>1, <2>2 DEF DeferredChunk
<1>7. canonEnd'[r] <= exact'[r] \/ DecidedChunk(r)'
  <2>1. CASE FullChunk(r, total, n) /\ ~Defer
    <3>1. total = Tracked(r, total) /\ n = Grid /\ total < length[r]
      BY <1>5, <2>1
    <3>2. left = n /\ \A q \in Requests : plan[q] = 0
      BY <2>1, <3>1, WholeBudget
    <3>3. left' = 0 /\ \A q \in Requests \ {r} : plan'[q] = 0
      BY <3>2 DEF Take, IInv, Types
    <3>4. exact'[r] = total /\ total % Grid = 0
      BY <1>2, <3>1
    <3>5. canonEnd'[r] = total + Grid
      BY <1>1, <2>1 DEF CanonAfter
    <3> QED
      BY <1>3, <3>1, <3>3, <3>4, <3>5 DEF DecidedChunk
  <2>2. CASE ~(FullChunk(r, total, n) /\ ~Defer)
    BY <1>1, <2>2 DEF CanonAfter
  <2> QED
    BY <2>1, <2>2
<1> QED
  BY <1>1, <1>3, <1>6, <1>7 DEF RequestOK, Unset

\* While there is budget left, and between passes, no chunk is decided ahead.
LEMMA EndIsCovered ==
    ASSUME IInv, NEW r \in Requests, status[r] = "running", left > 0 \/ phase = "idle"
    PROVE  canonEnd[r] <= exact[r]
<1>1. ~DecidedChunk(r)
  BY GridPositive DEF DecidedChunk, IInv, RequestOK
<1> QED
  BY <1>1 DEF IInv, RequestOK

\* A request the step does not touch stays in order.
LEMMA OthersOK ==
    ASSUME IInv, NEW q \in Requests, visited \subseteq visited',
           phase' = "idle" => phase = "idle", left > 0 \/ (left' = left /\ plan' = plan),
           status'[q] = status[q], length'[q] = length[q], computed'[q] = computed[q],
           exact'[q] = exact[q], canonEnd'[q] = canonEnd[q], pending'[q] = pending[q],
           plan'[q] = plan[q]
    PROVE  RequestOK(q)'
<1>1. CASE left > 0
  <2>1. ~DecidedChunk(q)
    BY <1>1 DEF DecidedChunk
  <2> QED
    BY <2>1 DEF IInv, RequestOK, DeferredChunk
<1>2. CASE left' = left /\ plan' = plan
  <2>1. DecidedChunk(q) => DecidedChunk(q)'
    BY <1>2 DEF DecidedChunk
  <2> QED
    BY <2>1 DEF IInv, RequestOK, DeferredChunk
<1> QED
  BY <1>1, <1>2

-----------------------------------------------------------------------------
(* The steps of a pass.                                                     *)

LEMMA PrefillStep ==
    ASSUME TInv, IInv, NEW r \in Requests, Prefill(r)
    PROVE  IInv'
<1> DEFINE n == Chunk(r, computed[r])
<1>1. /\ status[r] = "running" /\ r \notin visited /\ phase = "running" /\ phase' = phase
      /\ left > 0 /\ visited' = visited \cup {r} /\ UNCHANGED <<progress, cache>>
  BY DEF Prefill, RunningTurn, Visit
<1>2. n \in Nat /\ computed[r] \in Nat /\ n <= left
  <2>1. left \in Nat /\ computed[r] \in Nat
    BY SizeAssumption DEF TInv, TypeOK
  <2>2. n \in 0..left
    BY <2>1, ChunkFits DEF TInv
  <2> QED
    BY <2>1, <2>2
<1>3. IF n = 0 THEN UNCHANGED <<left, plan, drafts, canonEnd, pending>>
      ELSE AllocateSlots(r, computed[r], n) /\ Take(r, n, 0)
  BY DEF Prefill
<1> HIDE DEF n
<1>4. CASE n = 0
  <2>1. Types' /\ CachesExact'
    BY <1>1, <1>3, <1>4 DEF IInv, Types, CachesExact
  <2>2. \A q \in Requests : RequestOK(q)'
    BY <1>1, <1>3, <1>4 DEF IInv, RequestOK, DeferredChunk, DecidedChunk
  <2> QED
    BY <2>1, <2>2 DEF IInv
<1>5. CASE n # 0
  <2>1. AllocateSlots(r, computed[r], n) /\ Take(r, n, 0) /\ n \in Nat \ {0}
    BY <1>2, <1>3, <1>5
  <2>2. /\ canonEnd' = [canonEnd EXCEPT ![r] = CanonAfter(r, computed[r], n)]
        /\ pending' = IF FullChunk(r, computed[r], n) /\ Defer THEN [pending EXCEPT ![r] = computed[r] + Grid]
                      ELSE pending
    BY <1>2, <2>1, Allocation DEF IInv, RequestOK
  <2>3. CanonAfter(r, computed[r], n) \in Nat
    BY <1>2, <2>1, Allocation DEF IInv, RequestOK
  <2>4. Types' /\ CachesExact'
    BY <1>1, <1>2, <2>1, <2>2, <2>3, GridPositive DEF IInv, Types, CachesExact, Take
  <2>5. Tracked(r, computed[r]) <= exact[r] /\ exact[r] <= computed[r] /\ exact[r] \in Nat
    BY <1>1, <1>2, EndIsCovered DEF IInv, RequestOK, Types, Tracked
  <2>6. RequestOK(r)'
    BY <1>1, <1>2, <2>1, <2>5, AllocatedOK
  <2>7. ASSUME NEW q \in Requests, q # r PROVE RequestOK(q)'
    BY <1>1, <2>1, <2>2, <2>7, OthersOK DEF IInv, Types, Take
  <2> QED
    BY <2>4, <2>6, <2>7 DEF IInv
<1> QED
  BY <1>4, <1>5

LEMMA DecodeStep ==
    ASSUME TInv, IInv, NEW r \in Requests, Decode(r)
    PROVE  IInv'
<1>1. /\ status[r] = "running" /\ r \notin visited /\ phase = "running" /\ phase' = phase
      /\ visited' = visited \cup {r} /\ computed[r] = length[r] /\ left > 0
      /\ UNCHANGED <<progress, cache>>
  BY DEF Decode, RunningTurn, Visit
<1>2. PICK d \in 0..MaxDrafts : LET n == Least(d + 1, left)
        IN  AllocateSlots(r, computed[r], n) /\ \E k \in {d, n - 1} : Take(r, n, k)
  BY DEF Decode
<1> DEFINE n == Least(d + 1, left)
<1>3. PICK k \in {d, n - 1} : AllocateSlots(r, computed[r], n) /\ Take(r, n, k)
  BY <1>2
<1>4. left \in Int /\ MaxDrafts \in Nat /\ computed[r] \in Nat
  BY SizeAssumption DEF IInv, Types
<1>5. n \in Nat \ {0} /\ k \in Int /\ n <= left
  BY <1>1, <1>4 DEF Least
<1> HIDE DEF n
<1>6. /\ canonEnd' = [canonEnd EXCEPT ![r] = CanonAfter(r, computed[r], n)]
      /\ pending' = IF FullChunk(r, computed[r], n) /\ Defer THEN [pending EXCEPT ![r] = computed[r] + Grid]
                    ELSE pending
  BY <1>3, <1>4, <1>5, Allocation DEF IInv, RequestOK
<1>7. CanonAfter(r, computed[r], n) \in Nat
  BY <1>3, <1>4, <1>5, Allocation DEF IInv, RequestOK
<1>8. Types' /\ CachesExact'
  BY <1>1, <1>3, <1>4, <1>5, <1>6, <1>7, GridPositive DEF IInv, Types, CachesExact, Take
<1>9. Tracked(r, computed[r]) <= exact[r] /\ exact[r] <= computed[r] /\ exact[r] \in Nat
  BY <1>1, <1>4, EndIsCovered DEF IInv, RequestOK, Types, Tracked
<1>10. RequestOK(r)'
  BY <1>1, <1>3, <1>4, <1>5, <1>9, AllocatedOK
<1>11. ASSUME NEW q \in Requests, q # r PROVE RequestOK(q)'
  BY <1>1, <1>3, <1>6, <1>11, OthersOK DEF IInv, Types, Take
<1> QED
  BY <1>8, <1>10, <1>11 DEF IInv

LEMMA PreemptStep ==
    ASSUME IInv, NEW r \in Requests, Preempt(r)
    PROVE  IInv'
<1>1. Types' /\ CachesExact'
  BY DEF IInv, Types, CachesExact, Preempt, Visit
<1>2. RequestOK(r)'
  BY DEF IInv, Types, RequestOK, Preempt, Visit
<1>3. ASSUME NEW q \in Requests, q # r PROVE RequestOK(q)'
  BY <1>3, OthersOK DEF IInv, Types, Preempt, Visit
<1> QED
  BY <1>1, <1>2, <1>3 DEF IInv

\* A waiting request scheduled over exact KV.
LEMMA ScheduleStep ==
    ASSUME TInv, IInv, NEW r \in Requests, NEW start \in Nat,
           WaitingTurn(r), Schedule(r, start, start)
    PROVE  IInv'
<1> DEFINE n == Chunk(r, start)
<1>1. /\ phase = "waiting" /\ r \notin visited /\ left > 0 /\ UNCHANGED cache
      /\ n \in Nat /\ n <= left
  <2>1. left \in Nat
    BY SizeAssumption DEF TInv, TypeOK
  <2>2. n \in 0..left
    BY ChunkFits DEF TInv
  <2>3. phase = "waiting" /\ r \notin visited /\ left > 0 /\ UNCHANGED cache
    BY DEF WaitingTurn, Schedule
  <2> QED
    BY <2>1, <2>2, <2>3
<1>2. CASE n = 0
  <2>1. /\ phase' = "settle"
        /\ UNCHANGED <<progress, canonEnd, pending, left, plan, drafts, visited>>
    BY <1>2 DEF Schedule
  <2>2. Types' /\ CachesExact'
    BY <1>1, <2>1 DEF IInv, Types, CachesExact
  <2>3. \A q \in Requests : RequestOK(q)'
    BY <1>1, <2>1 DEF IInv, RequestOK, DeferredChunk, DecidedChunk
  <2> QED
    BY <2>2, <2>3 DEF IInv
<1>3. CASE n # 0
  <2>1. /\ AllocateSlots(r, start, n) /\ Take(r, n, 0)
        /\ visited' = visited \cup {r} /\ phase' = phase /\ length' = length
        /\ status' = [status EXCEPT ![r] = "running"]
        /\ computed' = [computed EXCEPT ![r] = start]
        /\ exact' = [exact EXCEPT ![r] = start]
    BY <1>3 DEF Schedule, Visit
  <2> HIDE DEF n
  <2>2. n \in Nat \ {0}
    BY <1>1, <1>3
  <2>3. /\ canonEnd' = [canonEnd EXCEPT ![r] = CanonAfter(r, start, n)]
        /\ pending' = IF FullChunk(r, start, n) /\ Defer THEN [pending EXCEPT ![r] = start + Grid]
                      ELSE pending
    BY <2>1, <2>2, Allocation DEF IInv, RequestOK
  <2>4. Tracked(r, start) \in Nat /\ Tracked(r, start) <= start
    BY TrackedProps DEF IInv, RequestOK
  <2>9. CanonAfter(r, start, n) \in Nat
    BY <2>1, <2>2, Allocation DEF IInv, RequestOK
  <2>5. Types' /\ CachesExact'
    BY <1>1, <2>1, <2>2, <2>3, <2>9, GridPositive DEF IInv, Types, CachesExact, Take
  <2>6. status'[r] = "running" /\ computed'[r] = start /\ exact'[r] = start
    BY <2>1 DEF IInv, Types
  <2>7. RequestOK(r)'
    BY <1>1, <2>1, <2>2, <2>4, <2>6, AllocatedOK
  <2>8. ASSUME NEW q \in Requests, q # r PROVE RequestOK(q)'
    BY <1>1, <2>1, <2>3, <2>8, OthersOK DEF IInv, Types, Take
  <2> QED
    BY <2>5, <2>7, <2>8 DEF IInv
<1> QED
  BY <1>2, <1>3

LEMMA AdmitStep ==
    ASSUME TInv, IInv, NEW r \in Requests, Admit(r)
    PROVE  IInv'
<1>1. PICK h \in Hits(r) : Schedule(r, h, HitExact(h))
  BY DEF Admit
<1>2. h \in Nat /\ HitExact(h) = h
  BY HitsProps DEF IInv
<1> QED
  BY <1>1, <1>2, ScheduleStep DEF Admit

LEMMA AdmitLoadedStep ==
    ASSUME TInv, IInv, NEW r \in Requests, AdmitLoaded(r)
    PROVE  IInv'
<1>1. computed[r] \in Nat /\ exact[r] = computed[r]
  BY DEF AdmitLoaded, IInv, Types, RequestOK
<1> QED
  BY <1>1, ScheduleStep DEF AdmitLoaded

LEMMA StartLoadStep ==
    ASSUME TInv, IInv, NEW r \in Requests, StartLoad(r)
    PROVE  IInv'
<1>0. PICK h \in Hits(r) : \E e \in External(r, h) :
         /\ AllocateSlots(r, h + e, 0)
         /\ computed' = [computed EXCEPT ![r] = h + e]
         /\ exact' = [exact EXCEPT ![r] = LoadExact(h, e)]
  BY DEF StartLoad
<1>1. PICK e \in External(r, h) :
         /\ AllocateSlots(r, h + e, 0)
         /\ computed' = [computed EXCEPT ![r] = h + e]
         /\ exact' = [exact EXCEPT ![r] = LoadExact(h, e)]
  BY <1>0
<1> DEFINE t == h + e
<1>2. t \in Nat /\ LoadExact(h, e) = t
  BY LoadProps DEF IInv
<1>3. /\ status[r] = "waiting" /\ status' = [status EXCEPT ![r] = "loading"]
      /\ visited' = visited \cup {r} /\ phase = "waiting" /\ phase' = phase /\ r \notin visited /\ left > 0
      /\ UNCHANGED <<length, left, plan, drafts, cache>>
  BY DEF StartLoad, Visit, WaitingTurn
<1>4. AllocateSlots(r, t, 0) /\ computed' = [computed EXCEPT ![r] = t] /\ exact' = [exact EXCEPT ![r] = t]
  BY <1>1, <1>2
<1> HIDE DEF t
<1>5. ~FullChunk(r, t, 0)
  BY GridPositive DEF FullChunk
<1>6. canonEnd' = [canonEnd EXCEPT ![r] = Tracked(r, t)] /\ pending' = pending
  BY <1>2, <1>4, <1>5, Allocation DEF IInv, RequestOK, CanonAfter
<1>7. Tracked(r, t) \in Nat /\ Tracked(r, t) % Grid = 0
  BY <1>2, TrackedProps DEF IInv, RequestOK
<1>8. Types' /\ CachesExact'
  BY <1>2, <1>3, <1>4, <1>6, <1>7 DEF IInv, Types, CachesExact
<1>9. RequestOK(r)'
  BY <1>2, <1>3, <1>4, <1>6, <1>7 DEF IInv, Types, RequestOK, Unset
<1>10. ASSUME NEW q \in Requests, q # r PROVE RequestOK(q)'
  BY <1>3, <1>4, <1>6, <1>10, OthersOK DEF IInv, Types
<1> QED
  BY <1>8, <1>9, <1>10 DEF IInv

-----------------------------------------------------------------------------
(* The end of a pass.                                                       *)

\* An accepted chunk is exact, so the canonical end never passes the exact
\* prefix.
LEMMA SettledProps ==
    ASSUME IInv, NEW r \in Requests
    PROVE  /\ Settled(r) \in Nat \cup {Unset} /\ ExactAfter(r) \in Nat
           /\ Settled(r) # Unset => Settled(r) % Grid = 0
           /\ canonEnd[r] # Unset => Settled(r) # Unset
           /\ status[r] = "running" => Settled(r) <= ExactAfter(r)
<1>1. /\ canonEnd[r] \in Nat \cup {Unset} /\ pending[r] \in Nat /\ exact[r] \in Nat
      /\ computed[r] \in Nat /\ plan[r] \in Nat /\ Grid \in Nat \ {0}
  BY GridPositive DEF IInv, Types
<1>2. ExactAfter(r) \in Nat /\ ExactAfter(r) >= exact[r]
  BY <1>1 DEF ExactAfter
<1> DEFINE moved == /\ pending[r] > 0 /\ plan[r] = Grid
                    /\ Accepted(r) /\ canonEnd[r] = pending[r] - Grid
<1>3. CASE moved
  <2>1. /\ pending[r] = computed[r] + Grid /\ canonEnd[r] = computed[r] /\ computed[r] < length[r]
        /\ status[r] = "running" /\ canonEnd[r] <= exact[r] /\ exact[r] <= computed[r]
    BY <1>1, <1>3, GridPositive DEF IInv, RequestOK, DeferredChunk, DecidedChunk
  <2>2. computed[r] % Grid = 0 /\ canonEnd[r] # Unset
    BY <1>1, <2>1 DEF IInv, RequestOK, Unset
  <2>3. \A q \in Scheduled \ {r} : SpecDecode(q)
    BY <1>3 DEF Accepted
  <2>4. ExactAfter(r) = computed[r] + Grid
    BY <1>1, <1>3, <2>1, <2>2, <2>3 DEF ExactAfter
  <2>5. Settled(r) = computed[r] + Grid
    BY <1>3, <2>1 DEF Settled
  <2>6. (computed[r] + Grid) % Grid = 0
    BY <1>1, <2>2, NextGridPoint
  <2> QED
    BY <1>1, <2>4, <2>5, <2>6 DEF Unset
<1>4. CASE ~moved
  <2>1. Settled(r) = canonEnd[r]
    BY <1>4 DEF Settled
  <2>2. ASSUME DecidedChunk(r) PROVE Settled(r) <= ExactAfter(r)
    <3>1. Scheduled \ {r} = {}
      BY <2>2 DEF DecidedChunk, Scheduled
    <3> QED
      BY <1>1, <2>1, <2>2, <3>1 DEF DecidedChunk, ExactAfter
  <2> QED
    BY <1>1, <1>2, <2>1, <2>2 DEF IInv, RequestOK, Unset
<1> QED
  BY <1>3, <1>4

LEMMA CopiesExact ==
    ASSUME NEW r \in Requests, NEW n, NEW ce \in Nat \cup {Unset}, NEW upto \in Int,
           NEW ex \in Nat, ce <= ex \/ upto <= ex
    PROVE  Copies(r, n, ce, upto, ex) \subseteq Blocks \X {TRUE}
<1>1. Block \in Nat \ {0} /\ LastBlock \in Nat
  BY SizeAssumption
<1>2. ASSUME NEW i \in NewBlocks(r, n, ce, upto)
      PROVE  i \in Blocks /\ ((i + 1) * Block <= ex) = TRUE
  <2>1. i \in Blocks /\ (i + 1) * Block <= Least(upto, ce)
    BY <1>2 DEF NewBlocks, Upto
  <2>2. (i + 1) * Block \in Int
    BY <1>1, <2>1 DEF Blocks
  <2>3. (i + 1) * Block <= ex
    BY <2>1, <2>2 DEF Least, Unset
  <2> QED
    BY <2>1, <2>3
<1>3. ASSUME NEW c \in Copies(r, n, ce, upto, ex)
      PROVE  c \in Blocks \X {TRUE}
  <2>1. PICK i \in NewBlocks(r, n, ce, upto) : c = <<i, (i + 1) * Block <= ex>>
    BY DEF Copies
  <2>2. c = <<i, TRUE>>
    BY <1>2, <2>1
  <2> QED
    BY <1>2, <2>2
<1> QED
  BY <1>3

LEMMA SettleStep ==
    ASSUME IInv, Settle
    PROVE  IInv'
<1> DEFINE upto(r) == Least(computed[r] + plan[r], length[r])
           fresh == UNION {Copies(r, nMain[r], Settled(r), upto(r), ExactAfter(r)) : r \in Scheduled}
           freshD == UNION {Copies(r, nDraft[r], Settled(r), upto(r), ExactAfter(r)) : r \in Scheduled}
           slips == UNION {NewReceipts(r, Settled(r), upto(r)) : r \in Scheduled}
<1>1. /\ phase' = "idle" /\ canonEnd' = [r \in Requests |-> Settled(r)] /\ pending' = Zero
      /\ main' = main \cup fresh /\ draft' = draft \cup freshD
      /\ receipt' = (receipt \ CachedIn(freshD)) \cup slips
      /\ exact' = [r \in Requests |-> ExactAfter(r)]
      /\ plan' = Zero /\ drafts' = Zero /\ visited' = {} /\ left' = 0
      /\ UNCHANGED <<status, tier>>
  BY DEF Settle
<1>2. PICK made \in [Requests -> 0..MaxDrafts + 1] :
        /\ \A r \in Requests : Decoded(r, made[r])
        /\ length' = [r \in Requests |-> length[r] + made[r]]
        /\ computed' = [r \in Requests |->
             IF computed[r] = length[r] THEN computed[r] + made[r] ELSE computed[r] + plan[r]]
  BY DEF Settle
<1>3. \A r \in Requests : /\ made[r] \in Nat /\ length[r] \in Nat /\ computed[r] \in Nat
                          /\ plan[r] \in Nat /\ exact[r] \in Nat
  BY SizeAssumption DEF IInv, Types
<1>4. \A r \in Scheduled : r \in Requests /\ status[r] = "running"
  BY <1>3 DEF IInv, RequestOK, Scheduled
<1>5. \A r \in Requests : upto(r) \in Int
  BY <1>3 DEF Least
<1>6. slips \subseteq Blocks
  BY DEF NewReceipts, Upto
<1> HIDE DEF upto
<1>7. fresh \subseteq Blocks \X {TRUE} /\ freshD \subseteq Blocks \X {TRUE}
  <2>1. ASSUME NEW r \in Scheduled, NEW n
        PROVE  Copies(r, n, Settled(r), upto(r), ExactAfter(r)) \subseteq Blocks \X {TRUE}
    <3>1. Settled(r) <= ExactAfter(r) /\ Settled(r) \in Nat \cup {Unset} /\ ExactAfter(r) \in Nat
      BY <1>4, <2>1, SettledProps
    <3> QED
      BY <1>4, <1>5, <2>1, <3>1, CopiesExact
  <2>2. ASSUME NEW c \in fresh PROVE c \in Blocks \X {TRUE}
    <3>1. PICK r \in Scheduled : c \in Copies(r, nMain[r], Settled(r), upto(r), ExactAfter(r))
      OBVIOUS
    <3> QED
      BY <2>1, <3>1
  <2>3. ASSUME NEW c \in freshD PROVE c \in Blocks \X {TRUE}
    <3>1. PICK r \in Scheduled : c \in Copies(r, nDraft[r], Settled(r), upto(r), ExactAfter(r))
      OBVIOUS
    <3> QED
      BY <2>1, <3>1
  <2> QED
    BY <2>2, <2>3
<1> HIDE DEF fresh, freshD, slips
<1>8. Types'
  <2>1. length' \in [Requests -> Nat] /\ computed' \in [Requests -> Nat]
    BY <1>2, <1>3
  <2>2. exact' \in [Requests -> Nat] /\ canonEnd' \in [Requests -> Nat \cup {Unset}]
    BY <1>1, SettledProps
  <2>3. main' \subseteq Blocks \X BOOLEAN /\ draft' \subseteq Blocks \X BOOLEAN
        /\ receipt' \subseteq Blocks
    BY <1>1, <1>6, <1>7 DEF IInv, Types
  <2> QED
    BY <1>1, <2>1, <2>2, <2>3 DEF IInv, Types, Zero
<1>9. CachesExact'
  BY <1>1, <1>7 DEF IInv, CachesExact
<1>10. ASSUME NEW r \in Requests PROVE RequestOK(r)'
  <2>1. /\ canonEnd'[r] = Settled(r) /\ exact'[r] = ExactAfter(r) /\ status'[r] = status[r]
        /\ pending'[r] = 0 /\ plan'[r] = 0 /\ length'[r] = length[r] + made[r]
        /\ computed'[r] = IF computed[r] = length[r] THEN computed[r] + made[r] ELSE computed[r] + plan[r]
    BY <1>1, <1>2 DEF Zero
  <2>2. Prompt[r] <= length'[r] /\ Prompt[r] \in Nat
    BY <1>3, <2>1, RequestAssumption DEF IInv, RequestOK
  <2>3. exact[r] <= computed[r] => ExactAfter(r) <= computed'[r]
    BY <1>3, <2>1, GridPositive DEF ExactAfter
  <2>4. status[r] \in {"loading", "ready"} => ExactAfter(r) = exact[r] /\ computed'[r] = computed[r]
    <3>1. SUFFICES ASSUME status[r] \in {"loading", "ready"} PROVE ExactAfter(r) = exact[r] /\ computed'[r] = computed[r]
      OBVIOUS
    <3>2. plan[r] = 0
      BY <1>3, <3>1 DEF IInv, RequestOK
    <3>3. made[r] = 0
      BY <1>2, <3>2 DEF Decoded, Scheduled
    <3> QED
      BY <1>3, <2>1, <3>2, <3>3, GridPositive DEF ExactAfter
  <2> QED
    BY <2>1, <2>2, <2>3, <2>4, SettledProps DEF IInv, RequestOK
<1> QED
  BY <1>8, <1>9, <1>10 DEF IInv

-----------------------------------------------------------------------------
(* The other steps.                                                         *)

LEMMA PassStep ==
    ASSUME IInv, Begin \/ EndRunning \/ EndWaiting
    PROVE  IInv'
<1>1. /\ UNCHANGED <<progress, canon, cache>>
      /\ \/ plan' = plan /\ drafts' = drafts /\ visited' = visited /\ left' = left
         \/ /\ plan' = Zero /\ drafts' = Zero /\ visited' = {} /\ left' = Budget
            /\ \A q \in Requests : pending[q] = 0
      /\ phase' \in {"running", "waiting", "settle"}
  BY DEF Begin, EndRunning, EndWaiting, IInv, RequestOK
<1>2. Types' /\ CachesExact'
  BY <1>1, SizeAssumption DEF IInv, Types, CachesExact, Zero
<1>3. ASSUME NEW q \in Requests PROVE RequestOK(q)'
  <2>1. CASE plan' = plan /\ left' = left /\ visited' = visited
    BY <1>1, <2>1, GridPositive DEF IInv, RequestOK, DeferredChunk, DecidedChunk
  <2>2. CASE Begin
    <3>1. status[q] = "running" => canonEnd[q] <= exact[q]
      BY <2>2, EndIsCovered DEF Begin
    <3>2. UNCHANGED <<progress, canon>> /\ plan'[q] = 0 /\ pending[q] = 0 /\ phase' # "idle"
      BY <2>2 DEF Begin, Zero, IInv, RequestOK
    <3> QED
      BY <3>1, <3>2 DEF IInv, RequestOK
  <2>3. CASE EndRunning \/ EndWaiting
    BY <2>1, <2>3 DEF EndRunning, EndWaiting
  <2> QED
    BY <2>2, <2>3
<1> QED
  BY <1>2, <1>3 DEF IInv

LEMMA ArriveStep ==
    ASSUME IInv, NEW r \in Requests, Arrive(r)
    PROVE  IInv'
<1>1. Types' /\ CachesExact'
  BY DEF IInv, Types, CachesExact, Arrive, Between
<1>2. RequestOK(r)'
  BY DEF IInv, Types, RequestOK, Arrive, Between
<1>3. ASSUME NEW q \in Requests, q # r PROVE RequestOK(q)'
  BY <1>3, OthersOK DEF IInv, Types, Arrive, Between
<1> QED
  BY <1>1, <1>2, <1>3 DEF IInv

LEMMA LeaveStep ==
    ASSUME IInv, NEW r \in Requests, Leave(r)
    PROVE  IInv'
<1>0. Prompt[r] \in Nat
  BY RequestAssumption
<1>1. Types' /\ CachesExact'
  BY <1>0 DEF IInv, Types, CachesExact, Leave
<1>2. RequestOK(r)'
  BY <1>0 DEF IInv, Types, RequestOK, Leave
<1>3. ASSUME NEW q \in Requests, q # r PROVE RequestOK(q)'
  BY <1>3, OthersOK DEF IInv, Types, Leave
<1> QED
  BY <1>1, <1>2, <1>3 DEF IInv

LEMMA LoadEndsStep ==
    ASSUME IInv, NEW r \in Requests, NEW keep \in Nat, keep <= computed[r], LoadEnds(r, keep)
    PROVE  IInv'
<1> DEFINE fresh(n) == Copies(r, n, canonEnd[r], keep, exact[r])
<1>1. /\ phase = "idle" /\ status[r] = "loading" /\ UNCHANGED <<pass, pending, length, canonEnd, tier>>
      /\ computed' = [computed EXCEPT ![r] = keep]
      /\ exact' = [exact EXCEPT ![r] = Least(exact[r], keep)]
      /\ main' = main \cup fresh(nMain[r]) /\ draft' = draft \cup fresh(nDraft[r])
      /\ receipt' = (receipt \ CachedIn(fresh(nDraft[r]))) \cup NewReceipts(r, canonEnd[r], keep)
      /\ status' = [status EXCEPT ![r] = IF keep = 0 THEN "waiting" ELSE "ready"]
  BY DEF LoadEnds, Between
<1>2. computed[r] \in Nat /\ exact[r] = computed[r] /\ canonEnd[r] \in Nat \cup {Unset}
      /\ canonEnd[r] # Unset
  BY <1>1 DEF IInv, Types, RequestOK
<1>3. Least(exact[r], keep) = keep
  BY <1>2 DEF Least
<1>4. ASSUME NEW n PROVE fresh(n) \subseteq Blocks \X {TRUE}
  <2>1. keep \in Int /\ exact[r] \in Nat /\ keep <= exact[r]
    BY <1>2
  <2> QED
    BY <1>2, <2>1, CopiesExact
<1> HIDE DEF fresh
<1>5. main' \subseteq Blocks \X BOOLEAN /\ draft' \subseteq Blocks \X BOOLEAN
      /\ (\A c \in main' \cup draft' : c[2])
  <2>1. fresh(nMain[r]) \subseteq Blocks \X {TRUE} /\ fresh(nDraft[r]) \subseteq Blocks \X {TRUE}
    BY <1>4
  <2> QED
    BY <1>1, <2>1 DEF IInv, Types, CachesExact
<1>8. computed' \in [Requests -> Nat] /\ exact' \in [Requests -> Nat]
  BY <1>1, <1>3 DEF IInv, Types
<1>9. status' \in [Requests -> {"idle", "waiting", "loading", "ready", "running"}]
  <2>1. (IF keep = 0 THEN "waiting" ELSE "ready") \in {"idle", "waiting", "loading", "ready", "running"}
    OBVIOUS
  <2> QED
    BY <1>1, <2>1 DEF IInv, Types
<1>10. receipt' \subseteq Blocks
  <2>1. NewReceipts(r, canonEnd[r], keep) \subseteq Blocks
    BY DEF NewReceipts, Upto
  <2> QED
    BY <1>1, <2>1 DEF IInv, Types
<1>11. Types'
  BY <1>1, <1>5, <1>8, <1>9, <1>10 DEF IInv, Types
<1>12. CachesExact'
  BY <1>1, <1>5 DEF IInv, CachesExact
<1>6. RequestOK(r)'
  BY <1>1, <1>2, <1>3 DEF IInv, Types, RequestOK
<1>7. ASSUME NEW q \in Requests, q # r PROVE RequestOK(q)'
  BY <1>1, <1>7, OthersOK DEF IInv, Types
<1> QED
  BY <1>6, <1>7, <1>11, <1>12 DEF IInv

LEMMA LoadStep ==
    ASSUME IInv, NEW r \in Requests, FinishLoad(r) \/ FailLoad(r)
    PROVE  IInv'
<1>1. computed[r] \in Nat /\ Block \in Nat /\ LastBlock \in Nat
  BY SizeAssumption DEF IInv, Types
<1>2. CASE FinishLoad(r)
  BY <1>1, <1>2, LoadEndsStep DEF FinishLoad
<1>3. CASE FailLoad(r)
  <2>1. PICK i \in Blocks : i * Block < computed[r] /\ LoadEnds(r, i * Block)
    BY <1>3 DEF FailLoad
  <2>2. i * Block \in Nat
    BY <1>1 DEF Blocks
  <2> QED
    BY <1>1, <2>1, <2>2, LoadEndsStep
<1> QED
  BY <1>2, <1>3

LEMMA StoreStep ==
    ASSUME IInv, NEW r \in Requests, Store(r)
    PROVE  IInv'
<1>1. PICK i \in Offloadable(r) : tier' = tier \cup {<<i, (i + 1) * Block <= exact[r]>>}
  BY DEF Store
<1>2. status[r] = "running" /\ phase = "idle" /\ UNCHANGED <<progress, pending, canonEnd, pass, main, draft, receipt>>
  BY DEF Store, Between
<1>3. /\ canonEnd[r] \in Nat /\ exact[r] \in Nat /\ computed[r] \in Nat /\ canonEnd[r] <= exact[r]
      /\ Block \in Nat /\ LastBlock \in Nat
  BY <1>2, SizeAssumption, EndIsCovered DEF IInv, Types, RequestOK
<1>4. i \in Blocks /\ (i + 1) * Block <= Least(computed[r], canonEnd[r])
  BY DEF Offloadable, Upto
<1>5. (i + 1) * Block \in Int
  BY <1>3, <1>4 DEF Blocks
<1>6. (i + 1) * Block <= exact[r]
  BY <1>3, <1>4, <1>5 DEF Least
<1>7. tier' = tier \cup {<<i, TRUE>>}
  BY <1>1, <1>6
<1>8. Types' /\ CachesExact'
  <2> DEFINE new == <<i, TRUE>>
  <2>0. new \in Blocks \X BOOLEAN
    BY <1>4
  <2>1. tier' \subseteq Blocks \X BOOLEAN
    <3>1. tier' = tier \cup {new} /\ tier \subseteq Blocks \X BOOLEAN
      BY <1>7 DEF IInv, Types
    <3> HIDE DEF new
    <3> QED
      BY <2>0, <3>1
  <2>2. Types'
    BY <1>2, <2>1 DEF IInv, Types
  <2>3. \A c \in tier' : c[2]
    <3>1. tier' = tier \cup {new} /\ new[2] = TRUE /\ \A c \in tier : c[2]
      BY <1>7 DEF IInv, CachesExact
    <3> HIDE DEF new
    <3> QED
      BY <3>1
  <2> QED
    BY <1>2, <2>2, <2>3 DEF IInv, CachesExact
<1>9. ASSUME NEW q \in Requests PROVE RequestOK(q)'
  BY <1>2, OthersOK
<1> QED
  BY <1>8, <1>9 DEF IInv

LEMMA EvictStep ==
    ASSUME IInv, Evict
    PROVE  IInv'
<1>1. /\ phase = "idle" /\ UNCHANGED <<progress, pending, canonEnd, pass>>
      /\ main' \subseteq main /\ draft' \subseteq draft /\ receipt' \subseteq receipt /\ tier' \subseteq tier
  BY DEF Evict, Between
<1>2. Types' /\ CachesExact'
  BY <1>1 DEF IInv, Types, CachesExact
<1>3. ASSUME NEW q \in Requests PROVE RequestOK(q)'
  BY <1>1, OthersOK
<1> QED
  BY <1>2, <1>3 DEF IInv

-----------------------------------------------------------------------------
LEMMA NextStep ==
    ASSUME TInv, IInv, [Next]_vars
    PROVE  IInv'
<1>1. ASSUME UNCHANGED vars PROVE IInv'
  BY <1>1 DEF IInv, Types, CachesExact, RequestOK, DeferredChunk, DecidedChunk
<1>2. ASSUME NEW r \in Requests, Turn(r) PROVE IInv'
  BY <1>2, PrefillStep, DecodeStep, AdmitStep, AdmitLoadedStep, StartLoadStep DEF Turn
<1>3. ASSUME NEW r \in Requests, Request(r) PROVE IInv'
  BY <1>3, ArriveStep, LeaveStep, LoadStep, StoreStep DEF Request
<1> QED
  BY <1>1, <1>2, <1>3, PassStep, SettleStep, PreemptStep, EvictStep DEF Next, Engine

LEMMA Invariance == Spec => []IInv
<1>1. Init => IInv
  BY InitIInv
<1>2. TInv /\ IInv /\ [Next]_vars => IInv'
  BY NextStep
<1> QED
  BY <1>1, <1>2, TypesInvariance, PTL DEF Spec

\* Nothing is ever cached, on the GPU or in a tier, whose KV differs from what
\* a cold prefill computes (patch_canon_mixed.py: deferred decisions).
THEOREM CachedIsExact == Spec => []OnlyExactCached
<1>1. IInv => OnlyExactCached
  BY DEF IInv, CachesExact, OnlyExactCached, InexactIn
<1> QED
  BY <1>1, Invariance, PTL

\* The canonical end is on the grid and covers exact KV only.
THEOREM CanonEndIsExact == Spec => []CanonEndExact
<1>1. ASSUME IInv PROVE CanonEndExact
  <2>1. SUFFICES ASSUME NEW r \in Requests, phase = "idle", status[r] \in {"loading", "ready", "running"}
                 PROVE  /\ canonEnd[r] >= 0 /\ canonEnd[r] % Grid = 0
                        /\ Least(canonEnd[r], computed[r]) <= exact[r]
    BY DEF CanonEndExact
  <2>2. canonEnd[r] \in Nat \cup {Unset} /\ computed[r] \in Nat /\ exact[r] \in Nat
    BY <1>1 DEF IInv, Types
  <2> QED
    BY <1>1, <2>1, <2>2, EndIsCovered DEF IInv, RequestOK, Least, Unset
<1> QED
  BY <1>1, Invariance, PTL
\* What ResumesExact asks of a step, and of one request in it.
ResumesOn(r) ==
    status[r] \in {"waiting", "ready"} /\ status'[r] \in {"loading", "running"}
        => exact'[r] = computed'[r] /\ (status[r] = "waiting" => computed'[r] % Grid = 0)

\* Only the turn of a request changes where it resumes from.
LEMMA ScheduleResumes ==
    ASSUME IInv, NEW r \in Requests, NEW start \in Nat, Schedule(r, start, start),
           status[r] = "waiting" => start % Grid = 0,
           NEW q \in Requests
    PROVE  ResumesOn(q)
<1>1. CASE Chunk(r, start) = 0
  BY <1>1 DEF Schedule, ResumesOn
<1>2. CASE Chunk(r, start) # 0
  <2>1. /\ status' = [status EXCEPT ![r] = "running"]
        /\ computed' = [computed EXCEPT ![r] = start] /\ exact' = [exact EXCEPT ![r] = start]
    BY <1>2 DEF Schedule
  <2> QED
    BY <2>1 DEF ResumesOn, IInv, Types
<1> QED
  BY <1>1, <1>2

LEMMA NextResumes ==
    ASSUME IInv, Next, NEW q \in Requests
    PROVE  ResumesOn(q)
<1>1. ASSUME NEW r \in Requests, Admit(r) PROVE ResumesOn(q)
  <2>1. PICK h \in Hits(r) : Schedule(r, h, HitExact(h))
    BY <1>1 DEF Admit
  <2>2. h \in Nat /\ h % Grid = 0 /\ HitExact(h) = h
    BY HitsProps DEF IInv
  <2> QED
    BY <2>1, <2>2, ScheduleResumes
<1>2. ASSUME NEW r \in Requests, AdmitLoaded(r) PROVE ResumesOn(q)
  <2>1. computed[r] \in Nat /\ exact[r] = computed[r] /\ status[r] = "ready"
    BY <1>2 DEF AdmitLoaded, IInv, Types, RequestOK
  <2> QED
    BY <1>2, <2>1, ScheduleResumes DEF AdmitLoaded
<1>3. ASSUME NEW r \in Requests, StartLoad(r) PROVE ResumesOn(q)
  <2>1. PICK h \in Hits(r) : \E e \in External(r, h) :
           /\ computed' = [computed EXCEPT ![r] = h + e]
           /\ exact' = [exact EXCEPT ![r] = LoadExact(h, e)]
    BY <1>3 DEF StartLoad
  <2>2. PICK e \in External(r, h) :
           /\ computed' = [computed EXCEPT ![r] = h + e]
           /\ exact' = [exact EXCEPT ![r] = LoadExact(h, e)]
    BY <2>1
  <2> DEFINE t == h + e
  <2>3. t \in Nat /\ t % Grid = 0 /\ LoadExact(h, e) = t
    BY LoadProps DEF IInv
  <2>4. computed' = [computed EXCEPT ![r] = t] /\ exact' = [exact EXCEPT ![r] = t]
    BY <2>2, <2>3
  <2>5. status' = [status EXCEPT ![r] = "loading"]
    BY <1>3 DEF StartLoad
  <2> HIDE DEF t
  <2> QED
    BY <2>3, <2>4, <2>5 DEF ResumesOn, IInv, Types
<1>4. ASSUME NEW r \in Requests, Prefill(r) \/ Decode(r) PROVE ResumesOn(q)
  BY <1>4 DEF Prefill, Decode, ResumesOn
<1>5. ASSUME NEW r \in Requests, Preempt(r) \/ Arrive(r) \/ Leave(r) PROVE ResumesOn(q)
  BY <1>5 DEF Preempt, Arrive, Leave, ResumesOn, IInv, Types
<1>6. ASSUME NEW r \in Requests, Store(r) PROVE ResumesOn(q)
  BY <1>6 DEF Store, ResumesOn
<1>7. ASSUME NEW r \in Requests, NEW keep, LoadEnds(r, keep) PROVE ResumesOn(q)
  BY <1>7 DEF LoadEnds, ResumesOn, IInv, Types
<1>8. ASSUME Begin \/ EndRunning \/ EndWaiting \/ Settle \/ Evict PROVE ResumesOn(q)
  BY <1>8 DEF Begin, EndRunning, EndWaiting, Settle, Evict, ResumesOn
<1>9. ASSUME NEW r \in Requests, Request(r) PROVE ResumesOn(q)
  BY <1>5, <1>6, <1>7, <1>9 DEF Request, FinishLoad, FailLoad
<1>10. ASSUME NEW r \in Requests, Turn(r) PROVE ResumesOn(q)
  BY <1>1, <1>2, <1>3, <1>4, <1>10 DEF Turn
<1> QED
  BY <1>5, <1>8, <1>9, <1>10 DEF Next, Engine

\* A request resumes from exact KV, and on the grid: no hit ends on a block the
\* receipts cover, or inside a chunk (_radiance_hit_cap).
THEOREM ResumptionIsExact == Spec => ResumesExact
<1>1. IInv /\ [Next]_vars =>
        [\A r \in Requests :
            status[r] \in {"waiting", "ready"} /\ status'[r] \in {"loading", "running"}
                => /\ exact'[r] = computed'[r]
                   /\ status[r] = "waiting" => computed'[r] % Grid = 0]_vars
  BY NextResumes DEF ResumesOn
<1> QED
  BY <1>1, Invariance, PTL DEF Spec, ResumesExact
=============================================================================
