--------------------------- MODULE DrafterProofs ----------------------------
(***************************************************************************)
(* Proofs about the programs around the drafter: its prefill skip          *)
(* (PrefillSkip) and the prompt lookup that overrides its drafts           *)
(* (DraftLookup), for every batch, prompt, history and setting.            *)
(***************************************************************************)
EXTENDS PrefillSkip, DraftLookup, SequenceTheorems, WellFoundedInduction, TLAPS

-----------------------------------------------------------------------------
(* The prefill skip.  The induction needs two facts: with prefix caching    *)
(* everything computed is written, in the requests and in the cache;        *)
(* without it, everything computed that is not far from the end of the      *)
(* prompt is.                                                               *)

SkipTypes ==
    /\ SkipSettings
    /\ caching \in BOOLEAN
    /\ computed \in [Reqs -> Nat]
    /\ written \in [Reqs -> SUBSET Nat]
    /\ cached \in Nat /\ cache \subseteq Nat

\* Without prefix caching nothing is inherited, and what is near is written.
NearIsWritten ==
    ~caching =>
        /\ cached = 0
        /\ \A r \in Reqs, q \in Nat :
             q < computed[r] /\ q + Far >= Prompt[r] => q \in written[r]

\* With it, the skip is off.
AllIsWritten ==
    caching =>
        /\ \A r \in Reqs, q \in Nat : q < computed[r] => q \in written[r]
        /\ \A q \in Nat : q < cached => q \in cache

SkipInv == SkipTypes /\ NearIsWritten /\ AllIsWritten

-----------------------------------------------------------------------------
LEMMA FarInNat == ASSUME SkipSettings PROVE Far \in Nat /\ Far >= Span + 2 * BlockSize
  BY DEF SkipSettings, Far, Margin

LEMMA SkipInvInit == ASSUME SkipSettings, SkipInit PROVE SkipInv
  BY FarInNat DEF SkipSettings, SkipInit, SkipInv, SkipTypes, NearIsWritten, AllIsWritten

\* A step, skipped or not.
LEMMA StepSkipInv ==
  ASSUME SkipInv, NEW n \in [Reqs -> 0 .. Budget], Step(n)
  PROVE  SkipInv'
<1>1. SkipSettings /\ Far \in Nat /\ Budget \in Nat /\ Prompt \in [Reqs -> Nat]
  BY FarInNat DEF SkipInv, SkipTypes, SkipSettings
<1>2. computed' = [r \in Reqs |-> computed[r] + n[r]] /\ UNCHANGED <<caching, cached, cache>>
  BY DEF Step
<1>3. \A r \in Reqs : n[r] \in Nat /\ computed[r] \in Nat /\ computed'[r] = computed[r] + n[r]
  BY <1>1, <1>2 DEF SkipInv, SkipTypes
<1>4. CASE Skips(n)
  <2>1. written' = written /\ ~caching
    BY <1>4 DEF Step, Skips, On
  <2>2. ASSUME NEW r \in Reqs, NEW q \in Nat, q < computed'[r], q + Far >= Prompt[r]
        PROVE  q \in written[r]
    <3>1. n[r] = 0
      <4> SUFFICES ASSUME n[r] > 0 PROVE FALSE
        BY <1>3
      <4>1. computed[r] + n[r] + Far <= Prompt[r]
        BY <1>4 DEF Skips, AllFar
      <4> QED
        BY <4>1, <1>1, <1>3, <2>2
    <3>2. q < computed[r]
      BY <3>1, <1>3, <2>2
    <3> QED
      BY <3>2, <2>1, <2>2 DEF SkipInv, NearIsWritten
  <2>3. SkipTypes'
    BY <1>1, <1>2, <1>3, <2>1 DEF SkipInv, SkipTypes, SkipSettings
  <2>4. NearIsWritten'
    BY <2>1, <2>2, <1>2 DEF SkipInv, NearIsWritten, Far, Margin
  <2>5. AllIsWritten'
    BY <2>1, <1>2 DEF AllIsWritten
  <2> QED
    BY <2>3, <2>4, <2>5 DEF SkipInv
<1>5. CASE ~Skips(n)
  <2>1. \A r \in Reqs : written'[r] = written[r] \cup computed[r] .. computed'[r] - 1
    BY <1>5 DEF Step
  <2>2. written' \in [Reqs -> SUBSET Nat]
    <3>1. \A r \in Reqs : computed[r] .. computed'[r] - 1 \subseteq Nat
      BY <1>3
    <3> QED
      BY <3>1, <1>5 DEF Step, SkipInv, SkipTypes
  <2>3. ASSUME NEW r \in Reqs, NEW q \in Nat, q < computed'[r], q \notin written'[r]
        PROVE  q < computed[r] /\ q \notin written[r]
    BY <2>1, <2>3, <1>3
  <2>4. SkipTypes'
    BY <1>1, <1>2, <1>3, <2>2 DEF SkipInv, SkipTypes, SkipSettings
  <2>5. NearIsWritten'
    BY <2>3, <1>2 DEF SkipInv, NearIsWritten, Far, Margin
  <2>6. AllIsWritten'
    BY <2>3, <1>2 DEF SkipInv, AllIsWritten
  <2> QED
    BY <2>4, <2>5, <2>6 DEF SkipInv
<1> QED
  BY <1>4, <1>5

LEMMA PreemptSkipInv == ASSUME SkipInv, NEW r \in Reqs, Preempt(r) PROVE SkipInv'
  BY FarInNat DEF SkipInv, SkipTypes, SkipSettings, NearIsWritten, AllIsWritten, Preempt, Fresh, Far, Margin

LEMMA FinishSkipInv == ASSUME SkipInv, NEW r \in Reqs, Finish(r) PROVE SkipInv'
<1>1. /\ caching' = caching
      /\ cached' = IF caching THEN Prompt[r] ELSE 0
      /\ cache' = IF caching THEN written[r] ELSE {}
      /\ computed' = [computed EXCEPT ![r] = 0]
      /\ written' = [written EXCEPT ![r] = {}]
      /\ computed[r] > Prompt[r]
  BY DEF Finish, Fresh
<1>2. Prompt[r] \in Nat /\ computed[r] \in Nat
  BY DEF SkipInv, SkipTypes, SkipSettings
<1>3. SkipTypes'
  BY <1>1, <1>2 DEF SkipInv, SkipTypes, SkipSettings
<1>4. NearIsWritten'
  BY <1>1, FarInNat DEF SkipInv, SkipTypes, NearIsWritten, Far, Margin
<1>5. AllIsWritten'
  BY <1>1, <1>2 DEF SkipInv, SkipTypes, AllIsWritten
<1> QED
  BY <1>3, <1>4, <1>5 DEF SkipInv

LEMMA HitSkipInv ==
  ASSUME SkipInv, NEW r \in Reqs, NEW h \in 1 .. MaxTokens, Hit(r, h)
  PROVE  SkipInv'
<1>1. /\ UNCHANGED <<caching, cached, cache>>
      /\ h \in Nat /\ h >= 1 /\ h <= cached
      /\ computed' = [computed EXCEPT ![r] = h]
      /\ written' = [written EXCEPT ![r] = cache \cap 0 .. h - 1]
  BY DEF Hit, SkipInv, SkipTypes, SkipSettings
<1>2. caching
  BY <1>1 DEF SkipInv, SkipTypes, NearIsWritten
<1>3. SkipTypes'
  BY <1>1 DEF SkipInv, SkipTypes, SkipSettings
<1>4. \A q \in Nat : q < h => q \in cache \cap 0 .. h - 1
  BY <1>1, <1>2 DEF SkipInv, SkipTypes, AllIsWritten
<1>5. AllIsWritten'
  BY <1>1, <1>2, <1>4 DEF SkipInv, SkipTypes, AllIsWritten
<1> QED
  BY <1>1, <1>2, <1>3, <1>5 DEF SkipInv, NearIsWritten

LEMMA NextSkipInv == ASSUME SkipInv, [SkipNext]_skipVars PROVE SkipInv'
<1>1. CASE SkipNext
  BY <1>1, StepSkipInv, PreemptSkipInv, FinishSkipInv, HitSkipInv DEF SkipNext
<1>2. CASE UNCHANGED skipVars
  BY <1>2 DEF skipVars, SkipInv, SkipTypes, SkipSettings, NearIsWritten, AllIsWritten, Far, Margin
<1> QED
  BY <1>1, <1>2

\* What a used draft reads is not far from the end of the prompt.
LEMMA ReadsNear ==
  ASSUME SkipInv, NEW r \in Reqs, computed[r] >= Prompt[r], NEW q \in Reads(r)
  PROVE  q \in Nat /\ q < computed[r] /\ q + Far >= Prompt[r]
<1> DEFINE low == IF computed[r] > Span THEN computed[r] - Span ELSE 0
<1>1. /\ Span \in Nat /\ BlockSize \in Nat \ {0} /\ Far \in Nat /\ Prompt[r] \in Nat
      /\ computed[r] \in Nat /\ Far >= Span + 2 * BlockSize
  BY FarInNat DEF SkipInv, SkipTypes, SkipSettings
<1>2. low \in Nat /\ low + Span >= computed[r]
  BY <1>1
<1> HIDE DEF low
<1>3. low % BlockSize \in 0 .. BlockSize - 1 /\ low % BlockSize <= low
  BY <1>1, <1>2
<1>4. q \in low - (low % BlockSize) .. computed[r] - 1
  BY DEF Reads, low
<1> QED
  BY <1>1, <1>2, <1>3, <1>4

LEMMA SkipInvImplies == SkipInv => UsedReadsWritten
<1> SUFFICES ASSUME SkipInv, NEW r \in Reqs, computed[r] >= Prompt[r], NEW q \in Reads(r)
             PROVE  q \in written[r]
  BY DEF UsedReadsWritten
<1>1. q \in Nat /\ q < computed[r] /\ q + Far >= Prompt[r]
  BY ReadsNear
<1> QED
  BY <1>1 DEF SkipInv, SkipTypes, NearIsWritten, AllIsWritten

\* A draft that is used reads only context K/V that was written, whatever was
\* skipped before, with and without prefix caching (radiance_dflash_skip.py).
THEOREM UsedIsWritten == SkipSettings => (SkipSpec => []UsedReadsWritten)
<1> SUFFICES ASSUME SkipSettings PROVE SkipSpec => []UsedReadsWritten
  OBVIOUS
<1>1. SkipInit => SkipInv
  BY SkipInvInit
<1>2. SkipInv /\ [SkipNext]_skipVars => SkipInv'
  BY NextSkipInv
<1>3. SkipInv => UsedReadsWritten
  BY SkipInvImplies
<1> QED
  BY <1>1, <1>2, <1>3, PTL DEF SkipSpec

-----------------------------------------------------------------------------
(* Greatest numbers.                                                        *)

LEMMA LeastNat ==
  ASSUME NEW T \in SUBSET Nat, T # {}
  PROVE  \E m \in T : \A n \in T : m <= n
<1>1. PICK m \in T : \A y \in T : ~(<<y, m>> \in OpToRel(<, Nat))
  BY NatLessThanWellFounded, WFMin
<1>2. \A y \in T : ~(y < m)
  BY <1>1 DEF OpToRel
<1>3. \A y \in T : y \in Nat
  OBVIOUS
<1>4. \A y \in T : m <= y
  BY <1>2, <1>3
<1> QED
  BY <1>4

\* Max is what its name says on every bounded set of natural numbers.
LEMMA MaxIsGreatest ==
  ASSUME NEW N \in Nat, NEW T \in SUBSET (0 .. N), T # {}
  PROVE  Max(T) \in T /\ \A n \in T : Max(T) >= n
<1> DEFINE U == {u \in Nat : \E t \in T : u = N - t}
<1>1. U # {}
  <2>1. PICK t \in T : TRUE
    OBVIOUS
  <2>2. N - t \in U
    OBVIOUS
  <2> QED
    BY <2>2
<1>2. PICK u \in U : \A v \in U : u <= v
  BY <1>1, LeastNat
<1>3. PICK m \in T : u = N - m
  OBVIOUS
<1>4. \A n \in T : N - n \in U
  OBVIOUS
<1>5. ASSUME NEW n \in T PROVE m >= n
  <2>1. u <= N - n /\ u = N - m
    BY <1>2, <1>3, <1>4
  <2>2. n \in Nat /\ m \in Nat
    OBVIOUS
  <2> HIDE DEF U
  <2> QED
    BY <2>1, <2>2
<1> QED
  BY <1>5 DEF Max

LEMMA MaxIs ==
  ASSUME NEW N \in Nat, NEW T \in SUBSET (0 .. N), NEW m \in T, \A n \in T : n <= m
  PROVE  Max(T) = m
<1>1. Max(T) \in T /\ Max(T) >= m
  <2>1. T # {}
    OBVIOUS
  <2> QED
    BY <2>1, MaxIsGreatest
<1>2. \A n \in T : n \in Nat
  OBVIOUS
<1>3. Max(T) <= m /\ Max(T) \in Nat /\ m \in Nat
  BY <1>1, <1>2
<1> QED
  BY <1>1, <1>3

\* A length and a place packed into one number are compared by the length
\* first.
LEMMA Packed ==
  ASSUME NEW B \in Nat, NEW a \in Nat, NEW b \in Nat, NEW p \in Nat, NEW q \in Nat,
         p < B, q < B, a * B + p <= b * B + q
  PROVE  a <= b /\ (a = b => p <= q)
<1>1. a <= b
  <2> SUFFICES ASSUME a >= b + 1 PROVE FALSE
    OBVIOUS
  <2>1. PICK c \in Nat : a = (b + 1) + c
    <3>1. a - (b + 1) \in Nat
      OBVIOUS
    <3> QED
      BY <3>1
  <2>2. a * B = b * B + B + c * B
    BY <2>1
  <2>3. c * B \in Nat /\ b * B \in Nat
    OBVIOUS
  <2> QED
    BY <2>2, <2>3
<1>2. ASSUME a = b PROVE p <= q
  <2>1. a * B \in Nat
    OBVIOUS
  <2> QED
    BY <1>2, <2>1
<1> QED
  BY <1>1, <1>2

-----------------------------------------------------------------------------
(* The scan of a history s.                                                 *)

History(s) == s \in Seq(Tokens) /\ Len(s) <= MaxLen

\* The m tokens before place p equal the last m tokens.
Agrees(s, p, m) == \A j \in 1 .. m : s[p - j + 1] = s[Len(s) - j + 1]

Floor == Lower(ENTER, STAY)

LEMMA Settings ==
  ASSUME LookupSettings
  PROVE  /\ Floor \in Nat /\ 1 <= Floor /\ Floor <= MAXL /\ MAXL \in Nat
         /\ PosBase \in Nat /\ MaxLen \in Nat /\ MaxLen < PosBase /\ MINDIST \in Nat
         /\ HOT \in Nat /\ HOT >= 1
BY DEF LookupSettings, Floor, Lower

LEMMA MatchIsLongest ==
  ASSUME LookupSettings, NEW s, NEW p \in Nat
  PROVE  /\ MatchLength(s, p) \in Nat
         /\ MatchLength(s, p) <= p /\ MatchLength(s, p) <= MAXL
         /\ Agrees(s, p, MatchLength(s, p))
         /\ \A m \in Nat : m <= p /\ m <= MAXL /\ Agrees(s, p, m) => m <= MatchLength(s, p)
<1> DEFINE T == {m \in 0 .. Lower(p, MAXL) : Agrees(s, p, m)}
<1>1. Lower(p, MAXL) \in Nat /\ \A m \in Nat : m <= Lower(p, MAXL) <=> m <= p /\ m <= MAXL
  BY Settings DEF Lower
<1>2. 0 \in T /\ T \in SUBSET (0 .. Lower(p, MAXL))
  BY <1>1 DEF Agrees
<1>3. Max(T) \in T /\ \A n \in T : Max(T) >= n
  <2>1. T # {}
    BY <1>2
  <2> HIDE DEF T
  <2> QED
    BY <1>1, <1>2, <2>1, MaxIsGreatest
<1>4. MatchLength(s, p) = Max(T)
  BY DEF MatchLength, Agrees
<1>5. MatchLength(s, p) \in Nat
  BY <1>1, <1>3, <1>4
<1> QED
  BY <1>1, <1>3, <1>4, <1>5

\* The reference compares sequences, the kernel token by token.
LEMMA AgreesIsEqual ==
  ASSUME LookupSettings, NEW s, History(s), NEW p \in Nat, p <= Len(s),
         NEW m \in Nat, m <= p
  PROVE  SubSeq(s, p - m + 1, p) = Suffix(s, m) <=> Agrees(s, p, m)
<1>1. Len(s) \in Nat /\ \A i \in 1 .. Len(s) : s[i] \in Tokens
  BY DEF History
<1> DEFINE a == SubSeq(s, p - m + 1, p)
           b == SubSeq(s, Len(s) - m + 1, Len(s))
<1>2. /\ a \in Seq(Tokens) /\ Len(a) = m
      /\ \A i \in 1 .. m : a[i] = s[p - m + i]
  <2>1. p - m + 1 \in Int /\ p \in Int /\ \A i \in p - m + 1 .. p : s[i] \in Tokens
    BY <1>1
  <2>2. /\ a \in Seq(Tokens)
        /\ Len(a) = IF p - m + 1 <= p THEN p - (p - m + 1) + 1 ELSE 0
        /\ \A i \in 1 .. p - (p - m + 1) + 1 : a[i] = s[(p - m + 1) + i - 1]
    BY <2>1, SubSeqProperties
  <2>3. p - (p - m + 1) + 1 = m /\ \A i \in 1 .. m : (p - m + 1) + i - 1 = p - m + i
    BY <1>1
  <2> HIDE DEF a
  <2>4. Len(a) = m
    BY <2>2, <2>3
  <2> QED
    BY <2>2, <2>3, <2>4
<1>3. /\ b \in Seq(Tokens) /\ Len(b) = m
      /\ \A i \in 1 .. m : b[i] = s[Len(s) - m + i]
  <2>1. Len(s) - m + 1 \in Int /\ Len(s) \in Int
        /\ \A i \in Len(s) - m + 1 .. Len(s) : s[i] \in Tokens
    BY <1>1
  <2>2. /\ b \in Seq(Tokens)
        /\ Len(b) = IF Len(s) - m + 1 <= Len(s) THEN Len(s) - (Len(s) - m + 1) + 1 ELSE 0
        /\ \A i \in 1 .. Len(s) - (Len(s) - m + 1) + 1 : b[i] = s[(Len(s) - m + 1) + i - 1]
    BY <2>1, SubSeqProperties
  <2>3. /\ Len(s) - (Len(s) - m + 1) + 1 = m
        /\ \A i \in 1 .. m : (Len(s) - m + 1) + i - 1 = Len(s) - m + i
    BY <1>1
  <2> HIDE DEF b
  <2>4. Len(b) = m
    BY <2>2, <2>3, <1>1
  <2> QED
    BY <2>2, <2>3, <2>4
<1> HIDE DEF a, b
<1>4. a = b <=> \A i \in 1 .. m : a[i] = b[i]
  BY <1>2, <1>3, SeqEqual
<1>5. (\A i \in 1 .. m : a[i] = b[i]) <=> Agrees(s, p, m)
  <2>1. ASSUME \A i \in 1 .. m : a[i] = b[i], NEW j \in 1 .. m
        PROVE  s[p - j + 1] = s[Len(s) - j + 1]
    <3>1. m + 1 - j \in 1 .. m
      OBVIOUS
    <3>2. s[p - m + (m + 1 - j)] = s[Len(s) - m + (m + 1 - j)]
      BY <3>1, <2>1, <1>2, <1>3
    <3>3. p - m + (m + 1 - j) = p - j + 1 /\ Len(s) - m + (m + 1 - j) = Len(s) - j + 1
      BY <1>1
    <3> QED
      BY <3>2, <3>3
  <2>2. ASSUME Agrees(s, p, m), NEW i \in 1 .. m PROVE a[i] = b[i]
    <3>1. m + 1 - i \in 1 .. m
      OBVIOUS
    <3>2. s[p - (m + 1 - i) + 1] = s[Len(s) - (m + 1 - i) + 1]
      BY <3>1, <2>2 DEF Agrees
    <3>3. p - (m + 1 - i) + 1 = p - m + i /\ Len(s) - (m + 1 - i) + 1 = Len(s) - m + i
      BY <1>1
    <3> QED
      BY <3>2, <3>3, <1>2, <1>3
  <2> QED
    BY <2>1, <2>2 DEF Agrees
<1> QED
  BY <1>4, <1>5 DEF Suffix, a, b

FarEnd(s) == Len(s) - (IF MINDIST > 1 THEN MINDIST ELSE 1)

\* The places the scan looks at are those the reference allows.
LEMMA AliveIsFar ==
  ASSUME LookupSettings, NEW s, History(s), NEW p \in Nat
  PROVE  Alive(s, p) <=> p \in 1 .. FarEnd(s)
<1>1. Len(s) \in Nat /\ MINDIST \in Nat
  BY Settings DEF History
<1> QED
  BY <1>1 DEF Alive, FarEnd

\* The pairs of a length and a place that the reference chooses from: the
\* length is at most the one the kernel finds at the place.
Matches(s) ==
  {q \in (Floor .. MAXL) \X (1 .. FarEnd(s)) :
     q[1] <= q[2] /\ SubSeq(s, q[2] - q[1] + 1, q[2]) = Suffix(s, q[1])}

LEMMA MatchesAre ==
  ASSUME LookupSettings, NEW s, History(s), NEW m, NEW p
  PROVE  <<m, p>> \in Matches(s) <=>
            /\ m \in Floor .. MAXL /\ p \in 1 .. FarEnd(s)
            /\ m <= p /\ Agrees(s, p, m)
<1>1. Len(s) \in Nat /\ MINDIST \in Nat /\ Floor \in Nat /\ MAXL \in Nat
  BY Settings DEF History
<1>2. ASSUME m \in Floor .. MAXL, p \in 1 .. FarEnd(s), m <= p
      PROVE  SubSeq(s, p - m + 1, p) = Suffix(s, m) <=> Agrees(s, p, m)
  <2>1. m \in Nat /\ p \in Nat /\ p <= Len(s)
    BY <1>1, <1>2 DEF FarEnd
  <2> QED
    BY <2>1, <1>2, AgreesIsEqual
<1> QED
  BY <1>2 DEF Matches

LEMMA ReferenceIs ==
  ASSUME NEW s
  PROVE  Reference(s, Floor) =
            LET longest == Max({0} \cup {q[1] : q \in Matches(s)})
            IN  IF Matches(s) = {} THEN <<0, 0>>
                ELSE <<longest, Max({q[2] : q \in {r \in Matches(s) : r[1] = longest}})>>
BY DEF Reference, Matches, FarEnd

LEMMA KeyIs ==
  ASSUME LookupSettings, NEW s, History(s), NEW p \in 0 .. Len(s)
  PROVE  /\ Key(s, p) \in 0 .. MAXL * PosBase + MaxLen
         /\ Key(s, p) = 0 \/ <<MatchLength(s, p), p>> \in Matches(s)
         /\ \A m : <<m, p>> \in Matches(s) =>
              m <= MatchLength(s, p) /\ <<MatchLength(s, p), p>> \in Matches(s)
         /\ <<MatchLength(s, p), p>> \in Matches(s) =>
              Key(s, p) = MatchLength(s, p) * PosBase + p
<1>1. /\ Len(s) \in Nat /\ MINDIST \in Nat /\ Floor \in Nat /\ MAXL \in Nat
      /\ PosBase \in Nat /\ MaxLen \in Nat /\ Len(s) <= MaxLen /\ p \in Nat
  BY Settings DEF History
<1> DEFINE ml == MatchLength(s, p)
<1>2. /\ ml \in Nat /\ ml <= p /\ ml <= MAXL /\ Agrees(s, p, ml)
      /\ \A m \in Nat : m <= p /\ m <= MAXL /\ Agrees(s, p, m) => m <= ml
  BY <1>1, MatchIsLongest
<1>3. Alive(s, p) <=> p \in 1 .. FarEnd(s)
  BY <1>1, AliveIsFar
<1>4. Key(s, p) = IF Alive(s, p) /\ ml >= Floor THEN ml * PosBase + p ELSE 0
  BY DEF Key, Floor
<1> HIDE DEF ml
<1>5. <<ml, p>> \in Matches(s) <=> p \in 1 .. FarEnd(s) /\ ml >= Floor
  BY <1>1, <1>2, MatchesAre
<1>6. ml * PosBase + p \in 0 .. MAXL * PosBase + MaxLen
  <2>1. PICK c \in Nat : MAXL = ml + c
    <3>1. MAXL - ml \in Nat
      BY <1>1, <1>2
    <3> QED
      BY <3>1, <1>1, <1>2
  <2>2. MAXL * PosBase = ml * PosBase + c * PosBase
    BY <2>1, <1>1, <1>2
  <2>3. c * PosBase \in Nat /\ ml * PosBase \in Nat
    BY <1>1, <1>2
  <2> QED
    BY <2>2, <2>3, <1>1
<1>7. Key(s, p) \in 0 .. MAXL * PosBase + MaxLen
  <2>1. MAXL * PosBase + MaxLen \in Nat
    BY <1>1
  <2> QED
    BY <2>1, <1>4, <1>6
<1>8. ASSUME NEW m, <<m, p>> \in Matches(s) PROVE m <= ml /\ <<ml, p>> \in Matches(s)
  <2>1. /\ m \in Floor .. MAXL /\ p \in 1 .. FarEnd(s)
        /\ m <= p /\ Agrees(s, p, m)
    BY <1>8, MatchesAre
  <2>2. m \in Nat /\ m >= Floor /\ m <= MAXL
    BY <2>1, <1>1
  <2>3. m <= ml
    BY <2>1, <2>2, <1>2
  <2> QED
    BY <2>1, <2>2, <2>3, <1>1, <1>2, <1>5
<1>9. Key(s, p) = 0 \/ <<ml, p>> \in Matches(s)
  BY <1>3, <1>4, <1>5
<1>10. <<ml, p>> \in Matches(s) => Key(s, p) = ml * PosBase + p
  BY <1>3, <1>4, <1>5
<1> QED
  BY <1>7, <1>8, <1>9, <1>10 DEF ml

LEMMA BestIsGreatest ==
  ASSUME LookupSettings, NEW s, History(s)
  PROVE  /\ Best(s) \in Nat
         /\ \E p \in 0 .. Len(s) : Best(s) = Key(s, p)
         /\ \A p \in 0 .. Len(s) : Key(s, p) <= Best(s)
<1> DEFINE T == {Key(s, p) : p \in 0 .. Len(s)}
           N == MAXL * PosBase + MaxLen
<1>1. N \in Nat /\ Len(s) \in Nat
  BY Settings DEF History
<1>2. T \in SUBSET (0 .. N)
  BY KeyIs
<1>3. Key(s, 0) \in T
  BY <1>1
<1>4. Max(T) \in T /\ \A n \in T : Max(T) >= n
  <2> HIDE DEF T, N
  <2> QED
    BY <1>1, <1>2, <1>3, MaxIsGreatest
<1>5. Best(s) = Max(T)
  BY DEF Best
<1>6. Best(s) \in 0 .. N
  BY <1>2, <1>4, <1>5
<1>7. \E p \in 0 .. Len(s) : Best(s) = Key(s, p)
  BY <1>4, <1>5
<1>8. \A p \in 0 .. Len(s) : Key(s, p) \in T /\ Key(s, p) \in 0 .. N
  BY <1>2
<1>9. \A p \in 0 .. Len(s) : Key(s, p) <= Best(s)
  <2> SUFFICES ASSUME NEW p \in 0 .. Len(s) PROVE Key(s, p) <= Best(s)
    OBVIOUS
  <2>1. Best(s) >= Key(s, p) /\ Key(s, p) \in 0 .. N
    BY <1>4, <1>5, <1>8
  <2> HIDE DEF T, N
  <2> QED
    BY <2>1, <1>1, <1>6
<1> HIDE DEF T, N
<1>10. Best(s) \in Nat
  BY <1>1, <1>6
<1> QED
  BY <1>7, <1>9, <1>10

LEMMA ScanIsReference ==
  ASSUME LookupSettings, NEW s, History(s)
  PROVE  LET found == Reference(s, Floor) IN Best(s) = found[1] * PosBase + found[2]
<1>1. /\ Len(s) \in Nat /\ MINDIST \in Nat /\ Floor \in Nat /\ Floor >= 1 /\ MAXL \in Nat
      /\ PosBase \in Nat /\ MaxLen \in Nat /\ Len(s) <= MaxLen /\ MaxLen < PosBase
  BY Settings DEF History
<1>2. PICK q \in 0 .. Len(s) : Best(s) = Key(s, q)
  BY BestIsGreatest
<1>3. \A p \in 0 .. Len(s) : Key(s, p) <= Best(s)
  BY BestIsGreatest
<1>4. CASE Matches(s) = {}
  <2>1. Best(s) = 0
    BY <1>2, <1>4, KeyIs
  <2>2. Reference(s, Floor) = <<0, 0>>
    BY <1>4, ReferenceIs
  <2> QED
    BY <2>1, <2>2, <1>1
<1>5. CASE Matches(s) # {}
  <2>1. PICK x \in Matches(s) : TRUE
    BY <1>5
  <2>2. x = <<x[1], x[2]>>
    BY DEF Matches
  <2>3. x[2] \in 1 .. FarEnd(s)
    BY DEF Matches
  <2>4. x[2] \in 0 .. Len(s) /\ x[2] >= 1
    BY <2>3, <1>1 DEF FarEnd
  <2>5. Key(s, x[2]) = MatchLength(s, x[2]) * PosBase + x[2] /\ MatchLength(s, x[2]) \in Nat
    <3>1. <<x[1], x[2]>> \in Matches(s)
      BY <2>2
    <3>2. <<MatchLength(s, x[2]), x[2]>> \in Matches(s)
      BY <3>1, <2>4, KeyIs
    <3>3. x[2] \in Nat
      BY <2>4, <1>1
    <3> QED
      BY <3>2, <3>3, <2>4, KeyIs, MatchIsLongest
  <2>6. Key(s, x[2]) >= 1
    <3>1. MatchLength(s, x[2]) * PosBase \in Nat
      BY <2>5, <1>1
    <3> QED
      BY <3>1, <2>4, <2>5
  <2>7. Key(s, q) # 0
    <3>1. Key(s, x[2]) <= Key(s, q) /\ Key(s, q) \in Nat
      BY <1>2, <1>3, <2>4, BestIsGreatest
    <3>2. Key(s, x[2]) \in Nat
      <4>1. MatchLength(s, x[2]) * PosBase \in Nat
        BY <2>5, <1>1
      <4> QED
        BY <4>1, <2>4, <2>5
    <3> QED
      BY <3>1, <3>2, <2>6
  <2> DEFINE L == MatchLength(s, q)
  <2>8. <<L, q>> \in Matches(s) /\ Key(s, q) = L * PosBase + q /\ L \in Nat
    BY <2>7, KeyIs, MatchIsLongest
  <2> HIDE DEF L
  <2>9. \A m, p : <<m, p>> \in Matches(s) => m \in Nat /\ p \in 0 .. Len(s)
    <3> SUFFICES ASSUME NEW m, NEW p, <<m, p>> \in Matches(s)
                 PROVE  m \in Nat /\ p \in 0 .. Len(s)
      OBVIOUS
    <3>1. m \in Floor .. MAXL /\ p \in 1 .. FarEnd(s)
      BY MatchesAre
    <3> QED
      BY <3>1, <1>1 DEF FarEnd
  <2>10. \A m, p : <<m, p>> \in Matches(s) => m <= L /\ (m = L => p <= q)
    <3> SUFFICES ASSUME NEW m, NEW p, <<m, p>> \in Matches(s)
                 PROVE  m <= L /\ (m = L => p <= q)
      OBVIOUS
    <3>1. m \in Nat /\ p \in 0 .. Len(s)
      BY <2>9
    <3> DEFINE M == MatchLength(s, p)
    <3>2. m <= M /\ Key(s, p) = M * PosBase + p /\ M \in Nat
      <4>1. m <= M /\ <<M, p>> \in Matches(s)
        BY <3>1, KeyIs
      <4>2. M \in Nat
        BY <3>1, MatchIsLongest
      <4> QED
        BY <4>1, <4>2, <3>1, KeyIs
    <3>3. Key(s, p) <= Key(s, q)
      BY <3>1, <1>2, <1>3
    <3> HIDE DEF M
    <3>4. p \in Nat /\ q \in Nat /\ p < PosBase /\ q < PosBase
      BY <3>1, <1>1
    <3>5. M * PosBase + p <= L * PosBase + q
      BY <3>2, <3>3, <2>8
    <3>6. M <= L /\ (M = L => p <= q)
      BY <3>2, <3>4, <3>5, <2>8, <1>1, Packed
    <3> QED
      BY <3>1, <3>2, <3>6, <2>8
  <2>11. \A y \in Matches(s) : y = <<y[1], y[2]>>
    BY DEF Matches
  <2> DEFINE A == {0} \cup {y[1] : y \in Matches(s)}
             C == {y[2] : y \in {r \in Matches(s) : r[1] = L}}
  <2>12. L \in A /\ A \in SUBSET (0 .. L) /\ \A n \in A : n <= L
    <3>1. L \in A
      BY <2>8
    <3>2. \A y \in Matches(s) : y[1] \in Nat /\ y[1] <= L
      BY <2>9, <2>10, <2>11
    <3> QED
      BY <3>1, <3>2, <2>8
  <2>13. q \in C /\ C \in SUBSET (0 .. Len(s)) /\ \A n \in C : n <= q
    <3>1. <<L, q>>[1] = L /\ <<L, q>>[2] = q
      OBVIOUS
    <3>2. q \in C
      BY <2>8, <3>1
    <3>3. \A y \in Matches(s) : y[1] = L => y[2] \in 0 .. Len(s) /\ y[2] <= q
      BY <2>9, <2>10, <2>11
    <3> QED
      BY <3>2, <3>3
  <2> HIDE DEF A, C
  <2>14. Max(A) = L
    BY <2>8, <2>12, MaxIs
  <2>15. Max(C) = q
    BY <1>1, <2>13, MaxIs
  <2>16. Reference(s, Floor) = <<L, q>>
    <3>1. Reference(s, Floor) =
            <<Max(A), Max({y[2] : y \in {r \in Matches(s) : r[1] = Max(A)}})>>
      BY <1>5, ReferenceIs DEF A
    <3>2. {y[2] : y \in {r \in Matches(s) : r[1] = Max(A)}} = C
      BY <2>14 DEF C
    <3> QED
      BY <3>1, <3>2, <2>14, <2>15
  <2>17. Reference(s, Floor)[1] = L /\ Reference(s, Floor)[2] = q
    BY <2>16
  <2> QED
    BY <2>17, <2>8, <1>2
<1> QED
  BY <1>4, <1>5

-----------------------------------------------------------------------------
(* The slot's steps.  The types it takes: the history is a sequence of      *)
(* tokens no longer than MaxLen, and the draft is made of tokens.           *)

LookupTypes ==
    /\ ids \in Seq(Tokens) /\ Len(ids) <= MaxLen
    /\ prefilling => Len(ids) < MaxLen
    /\ tokens \in Draw

\* Between two steps of one request the recorded length is the history's.
LengthKept == ids # <<>> /\ ~prefilling => st_len = Len(ids)

\* What is left of the distribution is what the step's candidates say.
DraftOK ==
    /\ tokens \in Draw
    /\ support = cached_ids /\ support \in [Places -> SUBSET Tokens]
    /\ took \in [Places -> BOOLEAN]
    /\ \A i \in Places :
        /\ took[i] => support[i] = {tokens[i]}
        /\ support[i] # {} => tokens[i] \in support[i]

LookupInv == LookupSettings /\ LookupTypes /\ LengthKept /\ HotIsOwn /\ DraftOK

\* What a step on history s leaves, whatever it found.
LEMMA ProposeLeaves ==
  ASSUME LookupSettings, NEW s, History(s), NEW ns \in Nat, DraftOK, Propose(s, ns)
  PROVE  DraftOK' /\ st_len' = Len(s) /\ hot' = Hot(ns, Len(s))
<1> DEFINE best == Best(s)
           m == best \div PosBase
           p == best % PosBase
           use == m > 0 /\ m >= (IF Hot(ns, Len(s)) THEN STAY ELSE ENTER)
           clen == IF use THEN Lower(Len(s) - p, K) ELSE 0
           Y(i) == s[p + i]
<1>1. st_len' = Len(s)
  BY DEF Propose
<1>1a. hot' = Hot(ns, Len(s))
  BY Zenon DEF Propose
<1>1b. Override(s, p, clen)
  BY Zenon DEF Propose
<1>3. Len(s) \in Nat /\ PosBase \in Nat \ {0} /\ K \in Nat /\ best \in Nat
  BY Settings, BestIsGreatest DEF History, LookupSettings
<1>4. p \in Nat
  BY <1>3
<1>5. clen \in Int /\ \A i \in Places : i <= clen => p + i \in 1 .. Len(s)
  <2> HIDE DEF best, p
  <2>1. \A i \in Places : i \in Nat /\ i >= 1
    BY DEF Places
  <2>2. \A i \in Places : i <= clen => i <= Len(s) - p
    BY <2>1, <1>3, <1>4 DEF Lower
  <2> QED
    BY <2>1, <2>2, <1>3, <1>4 DEF Lower
<1> HIDE DEF best, m, p, use, clen
<1>2. PICK cand \in Candidates, d \in Draw :
         /\ \A i \in Places : d[i] \in cand[i]
         /\ took' = [i \in Places |-> i <= clen]
         /\ tokens' = [i \in Places |-> IF i <= clen THEN Y(i) ELSE d[i]]
         /\ support' =
              [i \in Places |->
                 IF i <= clen
                 THEN (((support[i] \ cached_ids[i]) \cup cand[i]) \ (cand[i] \ {Y(i)})) \cup {Y(i)}
                 ELSE (support[i] \ cached_ids[i]) \cup cand[i]]
         /\ cached_ids' =
              [i \in Places |-> IF i <= clen THEN Recache(cand[i], Y(i)) ELSE cand[i]]
  BY ZenonT(20), <1>1b DEF Override
<1>6. \A i \in Places : i <= clen => Y(i) \in Tokens
  BY <1>5 DEF History
<1> HIDE DEF Y
<1>7. /\ cand \in [Places -> SUBSET Tokens] /\ d \in [Places -> Tokens]
      /\ \A i \in Places : d[i] \in cand[i]
  BY <1>2 DEF Candidates, Draw
<1>8. \A i \in Places : support[i] \ cached_ids[i] = {}
  BY DEF DraftOK
<1>9. \A i \in Places :
        /\ tokens'[i] = IF i <= clen THEN Y(i) ELSE d[i]
        /\ support'[i] = IF i <= clen THEN {Y(i)} ELSE cand[i]
        /\ cached_ids'[i] = IF i <= clen THEN {Y(i)} ELSE cand[i]
        /\ took'[i] = (i <= clen)
  <2> SUFFICES ASSUME NEW i \in Places
               PROVE  /\ tokens'[i] = IF i <= clen THEN Y(i) ELSE d[i]
                      /\ support'[i] = IF i <= clen THEN {Y(i)} ELSE cand[i]
                      /\ cached_ids'[i] = IF i <= clen THEN {Y(i)} ELSE cand[i]
                      /\ took'[i] = (i <= clen)
    OBVIOUS
  <2>1. support[i] \ cached_ids[i] = {}
    BY <1>8
  <2>2. CASE i <= clen
    <3>1. support'[i] = (((support[i] \ cached_ids[i]) \cup cand[i]) \ (cand[i] \ {Y(i)})) \cup {Y(i)}
      BY <1>2, <2>2
    <3>2. support'[i] = {Y(i)}
      BY <3>1, <2>1
    <3> QED
      BY <3>2, <2>2, <1>2 DEF Recache
  <2>3. CASE ~(i <= clen)
    <3>1. support'[i] = (support[i] \ cached_ids[i]) \cup cand[i]
      BY <1>2, <2>3
    <3>2. support'[i] = cand[i]
      BY <3>1, <2>1
    <3> QED
      BY <3>2, <2>3, <1>2
  <2> QED
    BY <2>2, <2>3
<1>10. /\ tokens' \in [Places -> Tokens]
       /\ support' = [i \in Places |-> support'[i]]
       /\ cached_ids' = [i \in Places |-> cached_ids'[i]]
       /\ took' \in [Places -> BOOLEAN]
  <2>1. \A i \in Places : (IF i <= clen THEN Y(i) ELSE d[i]) \in Tokens
    BY <1>6, <1>7
  <2>2. tokens' \in [Places -> Tokens]
    BY <2>1, <1>2
  <2>3. took' \in [Places -> BOOLEAN]
    BY <1>2
  <2>4. support' = [i \in Places |-> support'[i]] /\ cached_ids' = [i \in Places |-> cached_ids'[i]]
    BY <1>2
  <2> QED
    BY <2>2, <2>3, <2>4
<1>11. support' = cached_ids'
  BY <1>9, <1>10
<1>12. support' \in [Places -> SUBSET Tokens]
  BY <1>6, <1>7, <1>9, <1>10
<1>13. \A i \in Places :
         /\ took'[i] => support'[i] = {tokens'[i]}
         /\ support'[i] # {} => tokens'[i] \in support'[i]
  BY <1>7, <1>9
<1>14. DraftOK'
  BY <1>10, <1>11, <1>12, <1>13 DEF DraftOK, Draw
<1> QED
  BY <1>1, <1>1a, <1>14, Zenon

\* The slot is taken, left, or stays as it is.
LEMMA SlotFrame ==
  ASSUME LookupInv, UNCHANGED <<record, draft, hot, mine>>,
         ids' \in Seq(Tokens), Len(ids') < MaxLen, ids' = <<>> \/ prefilling'
  PROVE  LookupInv'
<1>1. LookupTypes' /\ LengthKept'
  <2>1. Len(ids') \in Nat /\ MaxLen \in Nat
    BY DEF LookupInv, LookupSettings
  <2> QED
    BY <2>1 DEF LookupInv, LookupTypes, LengthKept, draft
<1>2. HotIsOwn' /\ DraftOK'
  BY DEF LookupInv, HotIsOwn, DraftOK, draft
<1> QED
  BY <1>1, <1>2 DEF LookupInv, LookupSettings

LEMMA LookupInvStep == ASSUME LookupInv, [LookupNext]_lookupVars PROVE LookupInv'
<1>1. /\ LookupSettings /\ History(ids) /\ DraftOK /\ HotIsOwn /\ ids \in Seq(Tokens)
      /\ Len(ids) \in Nat /\ HOT \in Nat /\ HOT >= 1 /\ MaxLen \in Nat
  BY Settings DEF LookupInv, LookupTypes, History
<1>2. LookupSettings'
  BY <1>1 DEF LookupSettings
<1>3. ASSUME NEW s \in Prompts, Arrive(s) PROVE LookupInv'
  <2>1. PICK n \in 1 .. MaxPrompt : s \in [1 .. n -> Tokens]
    BY DEF Prompts
  <2>2. s \in Seq(Tokens) /\ Len(s) < MaxLen
    BY <2>1, <1>1 DEF LookupSettings
  <2> QED
    BY <1>3, <2>2, SlotFrame DEF Arrive
<1>4. CASE PrefillChunk
  <2>1. Propose(ids, 0) /\ mine' = FALSE /\ ids' = ids /\ prefilling' = prefilling
    BY <1>4 DEF PrefillChunk
  <2>2. DraftOK' /\ st_len' = Len(ids) /\ hot' = Hot(0, Len(ids))
    BY <1>1, <2>1, ProposeLeaves
  <2>3. Hot(0, Len(ids)) = FALSE
    BY <1>1 DEF Hot
  <2>4. tokens' \in Draw /\ st_len' = Len(ids)
    BY <2>2 DEF DraftOK
  <2>5. ids' = ids /\ prefilling' = prefilling
    BY <2>1
  <2>6. LookupTypes' /\ LengthKept'
    BY <2>4, <2>5 DEF LookupInv, LookupTypes, LengthKept
  <2>7. HotIsOwn'
    BY <2>1, <2>2, <2>3, Zenon DEF HotIsOwn
  <2> QED
    BY <1>2, <2>2, <2>6, <2>7 DEF LookupInv
<1>5. ASSUME NEW x \in Tokens, First(x) PROVE LookupInv'
  <2>1. Propose(ids', 1) /\ mine' = FALSE /\ ids' = Append(ids, x) /\ ~prefilling' /\ prefilling
    BY <1>5 DEF First
  <2>2. ids' \in Seq(Tokens) /\ Len(ids') = Len(ids) + 1
    BY <1>1, <2>1
  <2>3. Len(ids') <= MaxLen
    BY <1>1, <2>1, <2>2 DEF LookupInv, LookupTypes
  <2>4. DraftOK' /\ st_len' = Len(ids') /\ hot' = Hot(1, Len(ids'))
    BY <1>1, <2>1, <2>2, <2>3, ProposeLeaves DEF History
  <2>5. Hot(1, Len(ids')) = FALSE
    BY <1>1 DEF Hot
  <2>6. tokens' \in Draw /\ st_len' = Len(ids') /\ ~prefilling'
    BY <2>1, <2>4 DEF DraftOK
  <2>7. LookupTypes' /\ LengthKept'
    BY <2>2, <2>3, <2>6 DEF LookupTypes, LengthKept
  <2>8. HotIsOwn'
    BY <2>1, <2>4, <2>5, Zenon DEF HotIsOwn
  <2> QED
    BY <1>2, <2>4, <2>7, <2>8 DEF LookupInv
<1>6. ASSUME NEW a \in 0 .. K, NEW x \in Tokens, Verify(a, x) PROVE LookupInv'
  <2> DEFINE acc == [i \in 1 .. a |-> tokens[i]]
  <2>1. /\ Propose(ids', a + 1) /\ mine' = (st_used /\ a >= HOT) /\ prefilling' = prefilling
        /\ ids' = Append(ids \o acc, x) /\ ids # <<>> /\ ~prefilling /\ Len(ids) + a < MaxLen
    BY <1>6 DEF Verify
  <2>2. a \in Nat /\ a <= K
    BY DEF LookupInv, LookupSettings
  <2>3. acc \in Seq(Tokens) /\ Len(acc) = a
    <3>1. \A i \in 1 .. a : tokens[i] \in Tokens
      BY <2>2 DEF LookupInv, LookupTypes, Draw, Places, LookupSettings
    <3> QED
      BY <2>2, <3>1
  <2> HIDE DEF acc
  <2>4. ids \o acc \in Seq(Tokens) /\ Len(ids \o acc) = Len(ids) + a
    BY <1>1, <2>3, ConcatProperties
  <2>5. ids' \in Seq(Tokens) /\ Len(ids') = Len(ids) + a + 1 /\ Len(ids') <= MaxLen
    <3> DEFINE t == ids \o acc
    <3>1. ids' = Append(t, x) /\ t \in Seq(Tokens) /\ Len(t) = Len(ids) + a
      BY <2>1, <2>4
    <3>2. Len(ids) + a < MaxLen
      BY <2>1
    <3> HIDE DEF t
    <3>3. ids' \in Seq(Tokens) /\ Len(ids') = Len(t) + 1
      BY <3>1
    <3> QED
      BY <3>1, <3>2, <3>3, <1>1, <2>2
  <2>6. DraftOK' /\ st_len' = Len(ids') /\ hot' = Hot(a + 1, Len(ids'))
    <3>1. History(ids') /\ a + 1 \in Nat /\ Propose(ids', a + 1)
      BY <2>1, <2>2, <2>5 DEF History
    <3> QED
      BY <1>1, <3>1, ProposeLeaves
  <2>7. st_len = Len(ids)
    BY <2>1 DEF LookupInv, LengthKept
  <2>8. Hot(a + 1, Len(ids')) <=> st_used /\ a >= HOT
    BY <1>1, <2>2, <2>5, <2>7 DEF Hot
  <2>9. LookupTypes' /\ LengthKept'
    BY <2>1, <2>5, <2>6 DEF LookupTypes, LengthKept, DraftOK
  <2>10. HotIsOwn'
    <3>1. hot' = (st_used /\ st_len + (a + 1) = Len(ids') /\ (a + 1) - 1 >= HOT)
      BY <2>6 DEF Hot
    <3>2. st_len + (a + 1) = Len(ids') /\ ((a + 1) - 1 >= HOT <=> a >= HOT)
      BY <1>1, <2>2, <2>5, <2>7
    <3> QED
      BY <3>1, <3>2, <2>1, ZenonT(20) DEF HotIsOwn
  <2> QED
    BY <1>2, <2>6, <2>9, <2>10 DEF LookupInv
<1>7. CASE Leave
  <2>1. ids' = <<>> /\ UNCHANGED <<record, draft, hot, mine>>
    BY <1>7 DEF Leave
  <2>2. ids' \in Seq(Tokens) /\ Len(ids') < MaxLen
    BY <2>1, <1>1 DEF LookupSettings
  <2> QED
    BY <2>1, <2>2, SlotFrame
<1>8. CASE UNCHANGED lookupVars
  BY <1>2, <1>8 DEF lookupVars, record, draft, LookupInv, LookupTypes, LengthKept, HotIsOwn, DraftOK
<1> QED
  BY <1>3, <1>4, <1>5, <1>6, <1>7, <1>8 DEF LookupNext

LEMMA LookupInvInit == ASSUME LookupSettings, LookupInit PROVE LookupInv
<1>1. LookupTypes
  BY DEF LookupInit, LookupSettings, LookupTypes
<1>2. LengthKept /\ HotIsOwn /\ DraftOK
  BY DEF LookupInit, LengthKept, HotIsOwn, DraftOK
<1> QED
  BY <1>1, <1>2 DEF LookupInv

LEMMA LookupInvariance == ASSUME LookupSettings PROVE LookupSpec => []LookupInv
<1>1. LookupInit => LookupInv
  BY LookupInvInit
<1>2. LookupInv /\ [LookupNext]_lookupVars => LookupInv'
  BY LookupInvStep
<1> QED
  BY <1>1, <1>2, PTL DEF LookupSpec

\* On every history the slot can hold, of whatever tokens and length, the
\* kernel's packed maximum is the longest match, and the latest of several,
\* that the reference finds (_scan_kernel, ref_best_match).
THEOREM ScanFindsBest == LookupSettings => (LookupSpec => []ScanIsBest)
<1> SUFFICES ASSUME LookupSettings PROVE LookupSpec => []ScanIsBest
  OBVIOUS
<1>1. LookupInv => ScanIsBest
  BY ScanIsReference DEF LookupInv, LookupTypes, History, ScanIsBest, Floor
<1> QED
  BY <1>1, LookupInvariance, PTL

\* The rejection sampler is given the distribution each drafted token was
\* drawn from, over every sequence of steps and requests in the slot.
THEOREM DrawnFromItsDistribution == LookupSettings => (LookupSpec => []DistributionIsDraft)
<1> SUFFICES ASSUME LookupSettings PROVE LookupSpec => []DistributionIsDraft
  OBVIOUS
<1>1. LookupInv => DistributionIsDraft
  BY DEF LookupInv, DraftOK, DistributionIsDraft
<1> QED
  BY <1>1, LookupInvariance, PTL

\* Lookup mode is kept by the request's own accepted drafts only.
THEOREM HotIsItsOwn == LookupSettings => (LookupSpec => []HotIsOwn)
<1> SUFFICES ASSUME LookupSettings PROVE LookupSpec => []HotIsOwn
  OBVIOUS
<1>1. LookupInv => HotIsOwn
  BY DEF LookupInv
<1> QED
  BY <1>1, LookupInvariance, PTL
=============================================================================
