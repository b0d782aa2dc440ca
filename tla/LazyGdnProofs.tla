--------------------------- MODULE LazyGdnProofs ----------------------------
(***************************************************************************)
(* Proofs about LazyGdn for any requests, blocks, block size, drafts,      *)
(* prompts and bounds: the types, that each step starts from the state of  *)
(* the tokens accepted so far, and that what the prefix cache holds is     *)
(* exact.  At most two steps are scheduled and not run.  The invariant     *)
(* looks through them: what each block will hold when the first k steps    *)
(* of the queue have run (Good), whatever number of drafts is accepted.    *)
(* The last part is about how many blocks a request holds.                 *)
(***************************************************************************)
EXTENDS LazyGdn, FiniteSetTheorems, SequenceTheorems, TLAPS

(* The last token of a column.                                             *)
End(j) == j * BlockSize

(* The inductive invariant.                                                *)

(* The tokens a step surely accepts.                                       *)
Least(e) == IF e.decode THEN 1 ELSE e.n

(* The second step of the queue follows one of its request.                *)
Follows(i) == i = 2 /\ queue[1].req = queue[2].req

(* What a request will have computed when step i runs, at least and at     *)
(* most, and where its running block will be.                              *)
Lo(i) == computed[queue[i].req] + (IF Follows(i) THEN Least(queue[1]) ELSE 0)
Hi(i) == computed[queue[i].req] + (IF Follows(i) THEN queue[1].n ELSE 0)
Src(i) == IF Follows(i) THEN Column(computed[queue[i].req] + queue[1].n)
          ELSE col[queue[i].req]
Exact(i) == Follows(i) => ~queue[1].decode

(* The blocks step i may write.                                            *)
Writes(i) == {b \in Slots : \E j \in 1 .. Len(queue[i].t) :
                               queue[i].t[j] = b /\ End(j) > Lo(i)}

(* It surely leaves the state at boundary p in b.                          *)
Makes(i, b, p) ==
    /\ Exact(i) /\ p > Lo(i) /\ p = Lo(i) + Least(queue[i])
    /\ \E j \in 1 .. Len(queue[i].t) : queue[i].t[j] = b /\ p = End(j)

(* When the first k steps have run, b holds the state at boundary p.       *)
Good(k, b, p) ==
    \/ slot[b] = State(p) /\ \A i \in 1 .. k : b \notin Writes(i)
    \/ \E i \in 1 .. k : Makes(i, b, p) /\ \A h \in i + 1 .. k : b \notin Writes(h)

(* The boundaries up to here will surely have been crossed.                *)
Certain(r) ==
    computed[r]
    + (IF Len(queue) >= 1 /\ queue[1].req = r THEN Least(queue[1]) ELSE 0)
    + (IF Len(queue) >= 2 /\ queue[2].req = r /\ Exact(2) THEN Least(queue[2]) ELSE 0)

Distinct(t) == \A i, j \in 1 .. Len(t) : t[i] = t[j] /\ t[i] # Null => i = j
Full(t, a) == \A j \in a .. Len(t) : t[j] # Null

Tables == Seq(Slots \cup {Null})
Entry == [req : Requests, n : 1 .. MaxLen, t : Tables, decode : BOOLEAN]
Outcome == [req : Requests, n : 1 .. MaxLen, accepted : 1 .. MaxLen]
Content == [kind : {"state"}, n : 0 .. MaxLen \cup {Wrong}]
           \cup [kind : {"stash"}, base : Slots \cup {Null}, at : 0 .. MaxLen,
                 good : 0 .. Drafts]

Types ==
    /\ slot \in [Slots -> Content]
    /\ cached \in [1 .. MaxLen -> Slots \cup {Null}]
    /\ bt \in [Requests -> Tables]
    /\ begun \subseteq Requests
    /\ prompt \in [Requests -> 0 .. MaxLen] /\ known \in [Requests -> 0 .. MaxLen]
    /\ flight \in [Requests -> 0 .. MaxLen] /\ retired \in [Requests -> 0 .. MaxLen]
    /\ computed \in [Requests -> 0 .. MaxLen] /\ nacc \in [Requests -> 1 .. 1 + Drafts]
    /\ col \in [Requests -> 0 .. MaxLen]
    /\ queue \in Seq(Entry) /\ done \in Seq(Outcome)
    /\ Len(queue) + Len(done) <= 2
    /\ \A i \in 1 .. Len(done) : done[i].accepted <= done[i].n
    /\ turns \in 0 .. MaxTurns

EntryOK(i) ==
    LET e == queue[i]
        s == Src(i)
        c == Column(Lo(i) + e.n)
    IN  /\ Distinct(e.t)
        /\ Hi(i) + e.n <= MaxLen /\ Hi(i) <= End(s) /\ s <= c
        /\ Column(Hi(i) + e.n) + 1 <= Len(e.t)
        /\ s > 0 => e.t[s] # Null
        /\ e.decode => e.n = 1 + Drafts /\ Lo(i) > 0 /\ Full(e.t, s)
        /\ ~e.decode =>
             /\ Exact(i) /\ End(s) = Lo(i) /\ Len(e.t) = c + 1
             /\ e.t[c] # Null /\ e.t[c + 1] # Null
             /\ \A j \in s + 1 .. c - 1 : e.t[j] = Null
             /\ ~Follows(i) => nacc[e.req] = 1

PairOK ==
    Len(queue) = 2 =>
        IF Follows(2)
        THEN /\ \A j \in 1 .. Src(2) : queue[2].t[j] \in {Null, queue[1].t[j]}
             /\ queue[2].t[Src(2)] = queue[1].t[Src(2)]
             /\ queue[2].decode => queue[2].t[Src(2) + 1] = queue[1].t[Src(2) + 1]
        ELSE Here(queue[1].req) =>
                \A j \in 1 .. Len(queue[1].t) : queue[1].t[j] \notin Writes(2)

QueuedTokens(r) ==
    (IF Len(queue) >= 1 /\ queue[1].req = r THEN queue[1].n ELSE 0)
    + (IF Len(queue) >= 2 /\ queue[2].req = r THEN queue[2].n ELSE 0)
DoneTokens(r) ==
    (IF Len(done) >= 1 /\ done[1].req = r THEN done[1].n ELSE 0)
    + (IF Len(done) >= 2 /\ done[2].req = r THEN done[2].n ELSE 0)
DoneAccepted(r) ==
    (IF Len(done) >= 1 /\ done[1].req = r THEN done[1].accepted ELSE 0)
    + (IF Len(done) >= 2 /\ done[2].req = r THEN done[2].accepted ELSE 0)

Queued(r) == \E i \in 1 .. Len(queue) : queue[i].req = r

TotalsOK(r) ==
    /\ known[r] = computed[r] + QueuedTokens(r) + DoneTokens(r) - DoneAccepted(r)
    /\ flight[r] = QueuedTokens(r) + DoneTokens(r)
    /\ Committed(r) >= 0

(* The last of its steps in the queue has its block table.                 *)
LastOK(r) ==
    \A i \in 1 .. Len(queue) :
        queue[i].req = r /\ (\A h \in i + 1 .. Len(queue) : queue[h].req # r)
           => bt[r] = queue[i].t

(* No step of it is in the queue.                                          *)
IdleOK(r) ==
    ~Queued(r) =>
        /\ computed[r] <= End(col[r]) /\ col[r] <= Column(computed[r] + Drafts)
        /\ col[r] <= Len(bt[r])
        /\ col[r] > 0 => bt[r][col[r]] # Null
        /\ r \in begun => col[r] > 0 /\ Full(bt[r], col[r]) /\ col[r] < Len(bt[r])

(* It has only the prefix it found.                                        *)
FreshOK(r) ==
    r \notin begun =>
        ~Queued(r) /\ Len(bt[r]) = col[r] /\ known[r] = computed[r] /\ known[r] < prompt[r]

(* Its prompt is not scheduled to the end, or it is.                       *)
PromptOK(r) ==
    known[r] < prompt[r] =>
        /\ r \in begun => Len(bt[r]) = Column(known[r]) + 1
        /\ \A i \in 1 .. Len(queue) : queue[i].req = r => ~queue[i].decode
        /\ \A i \in 1 .. Len(done) : done[i].req = r => done[i].accepted = done[i].n
        /\ known[r] = End(Column(known[r]))
        /\ ~Queued(r) => nacc[r] = 1 /\ End(col[r]) = computed[r]
GrownOK(r) ==
    known[r] >= prompt[r] => Certain(r) >= prompt[r] /\ Len(bt[r]) >= Column(known[r]) + 1

TableOK(r) ==
    /\ Distinct(bt[r]) /\ TotalsOK(r) /\ LastOK(r)
    /\ IdleOK(r) /\ FreshOK(r) /\ PromptOK(r) /\ GrownOK(r)

FirstOf(r) ==
    IF Len(queue) >= 1 /\ queue[1].req = r THEN 1
    ELSE IF Len(queue) >= 2 /\ queue[2].req = r THEN 2 ELSE Len(queue) + 1
Table(r) == IF FirstOf(r) <= Len(queue) THEN queue[FirstOf(r)].t ELSE bt[r]

SourceOK(r) ==
    LET t == Table(r)
        s == col[r]
        k == FirstOf(r) - 1
    IN  computed[r] > 0 =>
          /\ s \in 1 .. Len(t) /\ t[s] # Null /\ (nacc[r] > 1 => s + 1 <= Len(t))
          /\ \/ /\ Replayed(slot, t[s], t[s + 1], nacc[r] - 1) = computed[r]
                /\ \A i \in 1 .. k : t[s] \notin Writes(i)
                                    /\ (nacc[r] > 1 => t[s + 1] \notin Writes(i))
             \/ nacc[r] = 1 /\ End(s) = computed[r] /\ Good(k, t[s], computed[r])

OwnOK(r) ==
    \A j \in 1 .. Len(bt[r]) :
        bt[r][j] # Null /\ End(j) <= Certain(r) => Good(Len(queue), bt[r][j], End(j))

SharedOK(r) ==
    \A q \in Requests \ {r} : Here(q) =>
        \A j \in 1 .. Len(bt[r]), i \in 1 .. Len(bt[q]) :
            bt[r][j] # Null /\ bt[r][j] = bt[q][i] => i = j /\ End(j) <= Certain(r)

CachedOK(p) ==
    cached[p] # Null =>
        /\ p = End(Column(p))
        /\ Good(Len(queue), cached[p], p)
        /\ \A o \in 1 .. MaxLen : cached[o] = cached[p] => o = p
        /\ \A r \in Requests : Here(r) =>
              \A j \in 1 .. Len(bt[r]) : bt[r][j] = cached[p] => p = End(j) /\ p <= Certain(r)

RequestOK(r) ==
    /\ Here(r) \/ Queued(r) => SourceOK(r)
    /\ Here(r) => TableOK(r) /\ OwnOK(r) /\ SharedOK(r)
    /\ ~Here(r) => bt[r] = << >> /\ r \notin begun
    /\ retired[r] <= Len(bt[r])

IInv ==
    /\ Types /\ PairOK
    /\ \A i \in 1 .. Len(queue) : EntryOK(i)
    /\ \A r \in Requests : RequestOK(r)
    /\ \A p \in 1 .. MaxLen : CachedOK(p)

-----------------------------------------------------------------------------
(* Columns.                                                                *)

LEMMA Sizes == BlockSize \in Nat /\ BlockSize > 0 /\ Drafts \in Nat /\ Drafts < BlockSize
               /\ MaxLen \in Nat /\ MaxTurns \in Nat /\ Null \notin Slots
BY LazyAssumption

LEMMA Ends ==
    ASSUME NEW i \in Nat, NEW j \in Nat
    PROVE  /\ End(i) \in Nat /\ End(0) = 0 /\ End(i + 1) = End(i) + BlockSize
           /\ i <= j <=> End(i) <= End(j)
           /\ i = j <=> End(i) = End(j)
           /\ i <= End(i)
<1>1. /\ End(i) \in Nat /\ End(j) \in Nat /\ End(0) = 0
      /\ End(i + 1) = End(i) + BlockSize /\ i <= End(i)
  BY Sizes, SMT DEF End
<1>2. ASSUME NEW a \in Nat, NEW b \in Nat, a < b PROVE a * BlockSize < b * BlockSize
  <2>1. PICK d \in Nat : b = a + 1 + d
    <3>1. b - a - 1 \in Nat /\ b = a + 1 + (b - a - 1)
      BY <1>2
    <3> QED
      BY <3>1
  <2>2. /\ a * BlockSize \in Nat /\ d * BlockSize \in Nat
        /\ b * BlockSize = a * BlockSize + BlockSize + d * BlockSize
    BY <2>1, Sizes
  <2> QED
    BY <2>2, Sizes
<1> QED
  BY <1>1, <1>2 DEF End

LEMMA EndIs == ASSUME NEW j \in Nat PROVE End(j) \in Nat
BY Sizes DEF End

LEMMA Columns ==
    ASSUME NEW n \in Nat
    PROVE  /\ Column(n) \in Nat /\ n <= End(Column(n)) /\ End(Column(n)) < n + BlockSize
           /\ Column(n) <= n /\ (n > 0 <=> Column(n) > 0)
           /\ \A j \in Nat : (Column(n) <= j <=> n <= End(j)) /\ Column(End(j)) = j
<1>1. /\ Column(n) \in Nat /\ n <= End(Column(n)) /\ End(Column(n)) < n + BlockSize
  BY Sizes, SMT DEF Column, End
<1>2. ASSUME NEW j \in Nat PROVE Column(n) <= j <=> n <= End(j)
  <2>1. PICK k \in Nat, a \in Nat, b \in Nat : k = Column(n) /\ a = End(k) /\ b = End(j)
    <3>1. Column(n) \in Nat
      BY <1>1
    <3>2. End(Column(n)) \in Nat /\ End(j) \in Nat
      BY <3>1, Ends
    <3> QED
      BY <3>1, <3>2
  <2>2. n <= a /\ a < n + BlockSize
    BY <1>1, <2>1
  <2>3. k <= j => a <= b
    BY <2>1, Ends
  <2>4. j + 1 <= k => b + BlockSize <= a
    <3>1. End(j + 1) = b + BlockSize /\ j + 1 \in Nat
      BY <2>1, Ends
    <3> QED
      BY <2>1, <3>1, Ends
  <2>5. k <= j => n <= b
    BY <2>2, <2>3
  <2>6. ~(k <= j) => ~(n <= b)
    BY <2>2, <2>4, Sizes
  <2> QED
    BY <2>1, <2>5, <2>6
<1>3. ASSUME NEW j \in Nat PROVE Column(End(j)) = j
  <2>1. /\ End(j) \in Nat /\ Column(End(j)) \in Nat /\ End(j) <= End(Column(End(j)))
        /\ End(Column(End(j))) < End(j) + BlockSize
    BY Ends, Sizes, SMT DEF Column, End
  <2>2. j <= Column(End(j))
    BY <2>1, Ends
  <2>3. End(j + 1) = End(j) + BlockSize
    BY Ends
  <2> QED
    BY <2>1, <2>2, <2>3, Ends, Sizes
<1> QED
  BY <1>1, <1>2, <1>3, Ends

LEMMA ColumnGrows ==
    ASSUME NEW m \in Nat, NEW n \in Nat, m <= n
    PROVE  Column(m) <= Column(n)
<1>1. Column(n) \in Nat /\ n <= End(Column(n)) /\ End(Column(n)) \in Nat
  BY Columns, Ends
<1>2. m <= End(Column(n)) => Column(m) <= Column(n)
  BY <1>1, Columns
<1> QED
  BY <1>1, <1>2

(* A step of a token and its drafts reaches at most the next column.       *)
LEMMA ColumnNext ==
    ASSUME NEW m \in Nat, NEW d \in Nat, d <= BlockSize
    PROVE  Column(m + d) <= Column(m) + 1
<1>1. m + d <= End(Column(m) + 1)
  <2>1. Column(m) \in Nat /\ m <= End(Column(m))
    BY Columns
  <2>2. End(Column(m) + 1) = End(Column(m)) + BlockSize /\ End(Column(m)) \in Nat
    BY <2>1, Ends
  <2> QED
    BY <2>1, <2>2, Sizes
<1>2. Column(m) + 1 \in Nat /\ m + d \in Nat
  BY Columns
<1> QED
  BY <1>1, <1>2, Columns

LEMMA Division ==
    ASSUME NEW x \in Nat, NEW b \in Nat, b > 0
    PROVE  x = (x \div b) * b + (x % b) /\ x \div b \in Nat /\ x % b \in 0 .. b - 1
<1>1. x % b \in Nat /\ x % b <= b - 1
  BY SMT
<1>2. x \div b \in Nat
  BY SMT
<1>3. x = (x \div b) * b + (x % b)
  BY SMT
<1> QED
  BY <1>1, <1>2, <1>3

LEMMA AlignedIs ==
    ASSUME NEW m \in Nat
    PROVE  /\ Aligned(m) \in Nat /\ Aligned(m) \div BlockSize \in Nat
           /\ Aligned(m) = End(Aligned(m) \div BlockSize)
           /\ Aligned(m) <= m /\ m < Aligned(m) + BlockSize
<1>1. /\ m = (m \div BlockSize) * BlockSize + (m % BlockSize)
      /\ m \div BlockSize \in Nat /\ m % BlockSize \in 0 .. BlockSize - 1
  BY Sizes, Division
<1>2. Aligned(m) = (m \div BlockSize) * BlockSize
  BY <1>1, Sizes DEF Aligned
<1>3. Aligned(m) \div BlockSize = m \div BlockSize
  BY <1>1, <1>2, Sizes, SMT
<1> QED
  BY <1>1, <1>2, <1>3, Sizes DEF End

(* The last boundary up to m is the only one less than a block before m.   *)
LEMMA AlignedOnly ==
    ASSUME NEW m \in Nat, NEW j \in Nat, End(j) <= m, m < End(j) + BlockSize
    PROVE  Aligned(m) = End(j) /\ Aligned(m) \div BlockSize = j
<1> DEFINE q == Aligned(m) \div BlockSize
<1>1. /\ q \in Nat /\ Aligned(m) = End(q) /\ End(q) <= m /\ m < End(q) + BlockSize
  BY AlignedIs
<1> HIDE DEF q
<1>2. /\ End(q + 1) = End(q) + BlockSize /\ End(j + 1) = End(j) + BlockSize
      /\ End(q) \in Nat /\ End(j) \in Nat
  BY <1>1, Ends
<1>3. End(j) < End(q + 1) /\ End(q) < End(j + 1)
  BY <1>1, <1>2, Sizes
<1>4. j < q + 1 /\ q < j + 1
  BY <1>1, <1>3, Ends
<1> QED
  BY <1>1, <1>4 DEF q

LEMMA Boundary ==
    ASSUME NEW p \in Nat, p % BlockSize = 0
    PROVE  p = End(Column(p))
<1>1. PICK q \in Nat : p = End(q)
  <2>1. p = (p \div BlockSize) * BlockSize /\ p \div BlockSize \in Nat
    BY Sizes, SMT
  <2> QED
    BY <2>1 DEF End
<1> QED
  BY <1>1, Columns

-----------------------------------------------------------------------------
(* The kernels.                                                            *)

Contents == [Slots -> Content]

LEMMA TableIs ==
    ASSUME NEW t \in Tables, Distinct(t), NEW i \in 1 .. Len(t), NEW j \in 1 .. Len(t)
    PROVE  /\ t[i] \in Slots \cup {Null}
           /\ t[i] # Null => t[i] \in Slots
           /\ t[i] # Null /\ i # j => t[i] # t[j]
BY DEF Tables, Distinct

LEMMA StateIs ==
    ASSUME NEW n \in 0 .. MaxLen \cup {Wrong}
    PROVE  State(n) \in Content /\ State(n).kind = "state" /\ State(n).n = n
BY DEF State, Content

LEMMA StashIs ==
    ASSUME NEW b \in Slots \cup {Null}, NEW at \in 0 .. MaxLen, NEW good \in 0 .. Drafts
    PROVE  /\ Stash(b, at, good) \in Content /\ Stash(b, at, good).kind = "stash"
           /\ Stash(b, at, good).base = b /\ Stash(b, at, good).at = at
           /\ Stash(b, at, good).good = good
BY DEF Stash, Content

LEMMA WrittenIs ==
    ASSUME NEW s \in Contents, NEW b \in Slots, NEW x \in Content
    PROVE  /\ Written(s, b, x) \in Contents /\ Written(s, b, x)[b] = x
           /\ \A a \in Slots : a # b => Written(s, b, x)[a] = s[a]
BY DEF Written, Contents

LEMMA ReplayedState ==
    ASSUME NEW s \in Contents, NEW b \in Slots, NEW n, s[b] = State(n), NEW a
    PROVE  Base(s, b) = n /\ Replayed(s, b, a, 0) = n
BY DEF Base, Replayed, State

(* The migration leaves an exact state in the new running block.           *)
LEMMA MigrateIs ==
    ASSUME NEW s \in Contents, NEW t \in Tables, Distinct(t), NEW src \in Nat, NEW dst \in Nat,
           src <= dst, 0 < dst, dst + 1 <= Len(t), t[dst] # Null, t[dst + 1] # Null,
           NEW bias \in Nat, NEW n \in 0 .. MaxLen,
           src > 0 => /\ t[src] # Null /\ (bias > 0 => t[src + 1] # Null)
                      /\ Replayed(s, t[src], t[src + 1], bias) = n
    PROVE  LET u == Migrate(s, t, src, dst, bias)
           IN  /\ u \in Contents
               /\ \A b \in Slots : b \notin {t[dst], t[dst + 1]} => u[b] = s[b]
               /\ src > 0 =>
                    Replayed(u, t[dst], t[dst + 1], IF src = dst THEN bias ELSE 0) = n
               /\ src \notin {0, dst} => Base(u, t[dst]) = n
<1> DEFINE u == Migrate(s, t, src, dst, bias)
<1>1. CASE src \in {0, dst}
  BY <1>1 DEF Migrate
<1>2. CASE src \notin {0, dst}
  <2> DEFINE v == Written(s, t[dst], State(n))
             w == Written(v, t[dst + 1], ZeroHeader)
  <2>1. t[dst] \in Slots /\ t[dst + 1] \in Slots /\ t[dst] # t[dst + 1] /\ Null \notin Slots
    BY TableIs, Sizes
  <2>2. u = w
    BY <1>2, <2>1 DEF Migrate, Invalidated
  <2>3. ZeroHeader \in Content
    BY StashIs, Sizes DEF ZeroHeader
  <2>4. v \in Contents /\ v[t[dst]] = State(n) /\ \A a \in Slots : a # t[dst] => v[a] = s[a]
    BY <2>1, StateIs, WrittenIs
  <2>5. w \in Contents /\ \A a \in Slots : a # t[dst + 1] => w[a] = v[a]
    BY <2>1, <2>3, <2>4, WrittenIs
  <2>6. w[t[dst]] = State(n)
    BY <2>1, <2>4, <2>5
  <2> HIDE DEF v, w
  <2>7. Base(w, t[dst]) = n /\ Replayed(w, t[dst], t[dst + 1], 0) = n
    BY <2>1, <2>5, <2>6, ReplayedState
  <2> QED
    BY <1>2, <2>2, <2>4, <2>5, <2>7
<1> QED
  BY <1>1, <1>2

LEMMA UpdateIs ==
    ASSUME NEW u \in Contents, NEW t \in Tables, Distinct(t), NEW c \in Nat, 0 < c,
           c + 1 <= Len(t), t[c] # Null, t[c + 1] # Null, NEW n \in Nat, n + 1 <= MaxLen,
           NEW a \in Nat, NEW good \in 0 .. Drafts,
           Replayed(u, t[c], t[c + 1], a - 1) = n
    PROVE  LET v == Update(u, t, c, n, a, good)
           IN  /\ v \in Contents
               /\ v[t[c]] = State(n + 1) /\ v[t[c + 1]] = Stash(t[c], n + 1, good)
               /\ \A b \in Slots : b \notin {t[c], t[c + 1]} => v[b] = u[b]
<1> DEFINE x == State(n + 1)
           y == Stash(t[c], n + 1, good)
<1>1. t[c] \in Slots /\ t[c + 1] \in Slots /\ t[c] # t[c + 1] /\ Null \notin Slots
  BY TableIs, Sizes
<1>2. x \in Content /\ y \in Content
  <2>1. n + 1 \in 0 .. MaxLen
    BY Sizes
  <2>2. x \in Content
    BY <2>1, StateIs
  <2>3. y \in Content
    BY <1>1, <2>1, StashIs
  <2> QED
    BY <2>2, <2>3
<1>3. Update(u, t, c, n, a, good) = [u EXCEPT ![t[c]] = x, ![t[c + 1]] = y]
  BY <1>1 DEF Update
<1> HIDE DEF x, y
<1> QED
  BY <1>1, <1>2, <1>3 DEF Contents, x, y

PrefillOK(u, t, c, n, m) ==
    LET v == Prefill(u, t, c, n, m)
    IN  /\ v \in Contents /\ v[t[c]] = State(m)
        /\ \A b \in Slots : b \notin {t[c], t[c + 1]} => v[b] = u[b]

LEMMA PrefillIs ==
    ASSUME NEW u \in Contents, NEW t \in Tables, Distinct(t), NEW c \in Nat, 0 < c,
           c + 1 <= Len(t), t[c] # Null, t[c + 1] # Null, NEW n \in Nat, NEW m \in 0 .. MaxLen,
           n > 0 => Base(u, t[c]) = n
    PROVE  PrefillOK(u, t, c, n, m)
<1> DEFINE x == State(m)
<1>1. t[c] \in Slots /\ t[c + 1] \in Slots /\ t[c] # t[c + 1] /\ Null \notin Slots
  BY TableIs, Sizes
<1>2. x \in Content /\ ZeroHeader \in Content
  BY StateIs, StashIs, Sizes DEF ZeroHeader
<1>3. Prefill(u, t, c, n, m) = [u EXCEPT ![t[c]] = x, ![t[c + 1]] = ZeroHeader]
  <2>1. (IF n = 0 THEN 0 ELSE Base(u, t[c])) = n
    OBVIOUS
  <2> QED
    BY <1>1, <2>1 DEF Prefill
<1> HIDE DEF x
<1> QED
  BY <1>1, <1>2, <1>3 DEF Contents, x, PrefillOK

\* The boundary the accepted tokens have crossed ends the running block.
Own(m, accepted, c) == Crossed(m, accepted) /\ Aligned(m) \div BlockSize = c

CheckpointOK(v, t, c, n, good, m) ==
    LET w   == Checkpoint(v, t, c, m, good + 1)
        acc == IF Own(m, good + 1, c) THEN 1 ELSE good + 1
    IN  /\ w \in Contents
        /\ \A b \in Slots : (\A j \in 1 .. Len(t) : t[j] = b => End(j) <= n) => w[b] = v[b]
        /\ Replayed(w, t[c], t[c + 1], acc - 1) = m
        /\ \A j \in 1 .. Len(t) :
             n < End(j) /\ End(j) <= m /\ t[j] # Null => w[t[j]] = State(End(j))

(* After a decode step: what the checkpoint leaves.                        *)
LEMMA CheckpointIs ==
    ASSUME NEW v \in Contents, NEW t \in Tables, Distinct(t), NEW c \in Nat, 0 < c,
           c + 1 <= Len(t), t[c] # Null, t[c + 1] # Null,
           NEW n \in Nat, NEW good \in 0 .. Drafts,
           NEW m \in Nat, m = n + 1 + good, m <= End(c), m <= MaxLen,
           v[t[c]] = State(n + 1), v[t[c + 1]] = Stash(t[c], n + 1, good)
    PROVE  CheckpointOK(v, t, c, n, good, m)
<1> DEFINE w     == Checkpoint(v, t, c, m, good + 1)
           acc   == IF Own(m, good + 1, c) THEN 1 ELSE good + 1
           q     == Aligned(m) \div BlockSize
           count == End(q) - (n + 1)
<1> SUFFICES /\ w \in Contents
             /\ \A b \in Slots : (\A j \in 1 .. Len(t) : t[j] = b => End(j) <= n) => w[b] = v[b]
             /\ Replayed(w, t[c], t[c + 1], acc - 1) = m
             /\ \A j \in 1 .. Len(t) :
                  n < End(j) /\ End(j) <= m /\ t[j] # Null => w[t[j]] = State(End(j))
  BY DEF CheckpointOK
<1>0. /\ m \in Nat /\ m - (good + 1) + 1 = n + 1 /\ n \in Nat /\ good \in Nat /\ good <= Drafts
      /\ m <= MaxLen /\ m <= End(c) /\ n < m /\ m <= n + BlockSize /\ 1 <= c /\ c <= Len(t)
      /\ End(c) \in Nat /\ MaxLen \in Nat /\ BlockSize \in Nat /\ Len(t) \in Nat
  <2>1. /\ End(c) \in Nat /\ MaxLen \in Nat /\ BlockSize \in Nat /\ Len(t) \in Nat
    BY Sizes, EndIs DEF Tables
  <2>2. /\ good \in Nat /\ good <= Drafts /\ good < BlockSize
    BY Sizes
  <2>3. /\ m - (good + 1) + 1 = n + 1 /\ n < m /\ m <= n + BlockSize /\ 1 <= c /\ c <= Len(t)
    BY <2>1, <2>2
  <2> QED
    BY <2>1, <2>2, <2>3
<1>1. t[c] \in Slots /\ t[c + 1] \in Slots /\ t[c] # t[c + 1] /\ Null \notin Slots
  BY TableIs, Sizes
<1>2. q \in Nat /\ Aligned(m) = End(q) /\ End(q) <= m /\ m < End(q) + BlockSize /\ End(q) \in Nat
  BY <1>0, AlignedIs
<1>3. q <= c
  <2>1. End(q) <= End(c)
    BY <1>0, <1>2
  <2> QED
    BY <1>0, <1>2, <2>1, Ends
<1>4. Crossed(m, good + 1) <=> End(q) >= n + 1
  BY <1>0, <1>2 DEF Crossed
<1>5. w = IF \/ ~Crossed(m, good + 1) \/ (q = c /\ count = 0) \/ Null \in {t[c], t[q]}
              \/ (t[c + 1] = Null /\ count > 0)
          THEN v ELSE Written(v, t[q], State(Replayed(v, t[c], t[c + 1], count)))
  BY <1>0, <1>2 DEF Checkpoint
<1> HIDE DEF q, Own
<1>6. Crossed(m, good + 1) => Replayed(v, t[c], t[c + 1], count) = End(q) /\ q > 0 /\ End(q) \in 0 .. MaxLen
  <2> SUFFICES ASSUME Crossed(m, good + 1)
               PROVE  Replayed(v, t[c], t[c + 1], count) = End(q) /\ q > 0 /\ End(q) \in 0 .. MaxLen
    OBVIOUS
  <2>0. PICK x \in Nat : x = End(q)
    BY <1>2
  <2>1. count \in Nat /\ count <= good /\ n + 1 + count = End(q) /\ End(q) <= MaxLen
    <3>1. n + 1 <= x /\ x <= m /\ count = x - (n + 1)
      BY <1>2, <1>4, <2>0
    <3>2. n \in Nat /\ good \in Nat /\ m = n + 1 + good /\ m \in Nat /\ m <= MaxLen /\ MaxLen \in Nat
      BY <1>0
    <3> HIDE DEF count
    <3>3. count \in Nat /\ n + 1 + count = x
      BY <3>1, <3>2
    <3>4. count <= good /\ x <= MaxLen
      BY <3>1, <3>2
    <3> QED
      BY <2>0, <3>3, <3>4
  <2>2. Base(v, t[c]) = n + 1
    BY <1>1, ReplayedState
  <2>3. /\ v[t[c + 1]].kind = "stash" /\ v[t[c + 1]].base = t[c]
        /\ v[t[c + 1]].at = n + 1 /\ v[t[c + 1]].good = good
    BY DEF Stash
  <2>4. q # 0
    <3>1. End(0) = 0
      BY Ends
    <3>2. End(q) >= n + 1 /\ n \in Nat
      BY <1>0, <1>4
    <3>3. ~(0 >= n + 1)
      BY <3>2
    <3> QED
      BY <3>1, <3>2, <3>3
  <2> HIDE DEF count
  <2>5. Replayed(v, t[c], t[c + 1], count) = End(q)
    <3>1. CASE count = 0
      BY <2>1, <2>2, <3>1 DEF Replayed
    <3>2. CASE count # 0
      BY <1>1, <2>1, <2>2, <2>3, <3>2 DEF Replayed
    <3> QED
      BY <3>1, <3>2
  <2> QED
    BY <1>2, <2>1, <2>4, <2>5
<1>7. CASE ~Crossed(m, good + 1) \/ (q = c /\ count = 0) \/ t[q] = Null
  <2>1. w = v
    BY <1>5, <1>7
  <2>2. Base(v, t[c]) = n + 1 /\ Replayed(v, t[c], t[c + 1], 0) = n + 1
    BY <1>1, ReplayedState
  <2>3. Replayed(v, t[c], t[c + 1], good) = m
    <3>1. /\ v[t[c + 1]].kind = "stash" /\ v[t[c + 1]].base = t[c]
          /\ v[t[c + 1]].at = n + 1 /\ v[t[c + 1]].good = good
      BY DEF Stash
    <3>2. CASE good = 0
      BY <1>0, <2>2, <3>2
    <3>3. CASE good # 0
      <4>1. good <= good /\ good \in Nat
        BY <1>0
      <4> QED
        BY <1>1, <2>2, <3>1, <3>3, <4>1 DEF Replayed
    <3> QED
      BY <3>2, <3>3
  <2>4. Crossed(m, good + 1) /\ q = c => m = n + 1 /\ count = 0
    <3> SUFFICES ASSUME Crossed(m, good + 1), q = c
                 PROVE  m = n + 1 /\ count = 0
      OBVIOUS
    <3>1. count = 0
      BY <1>1, <1>7
    <3>2. PICK x \in Nat : x = End(q)
      BY <1>2
    <3>3. x = n + 1
      BY <1>0, <3>1, <3>2
    <3> QED
      BY <1>0, <1>2, <3>1, <3>2, <3>3
  <2>5. ASSUME NEW j \in 1 .. Len(t), n < End(j), End(j) <= m, t[j] # Null
        PROVE  v[t[j]] = State(End(j))
    <3>1. q = j
      <4>1. j \in Nat /\ End(j) \in Nat
        BY <1>0, EndIs
      <4>2. m < End(j) + BlockSize
        BY <1>0, <2>5, <4>1
      <4> QED
        BY <1>0, <2>5, <4>1, <4>2, AlignedOnly DEF q
    <3>2. count = 0 /\ q = c
      BY <1>2, <1>4, <1>7, <2>5, <3>1, <1>0
    <3> QED
      BY <3>1, <3>2, <1>0, <1>2
  <2>6. Replayed(v, t[c], t[c + 1], acc - 1) = m
    <3>1. good + 1 - 1 = good /\ 1 - 1 = 0
      BY <1>0
    <3> QED
      BY <2>2, <2>3, <2>4, <3>1 DEF q, Own, acc
  <2> QED
    BY <2>1, <2>5, <2>6
<1>8. CASE Crossed(m, good + 1) /\ ~(q = c /\ count = 0) /\ t[q] # Null
  <2>1. w = Written(v, t[q], State(End(q))) /\ q \in 1 .. Len(t) /\ t[q] \in Slots
    <3>1. q \in 1 .. Len(t)
      BY <1>0, <1>2, <1>3, <1>6, <1>8
    <3>2. t[q] \in Slots /\ t[c] # Null /\ t[c + 1] # Null
      BY <1>1, <1>8, <3>1, TableIs
    <3>3. w = Written(v, t[q], State(Replayed(v, t[c], t[c + 1], count)))
      BY <1>1, <1>5, <1>8, <3>2
    <3> QED
      BY <1>6, <1>8, <3>1, <3>2, <3>3
  <2>2. w \in Contents /\ w[t[q]] = State(End(q)) /\ \A a \in Slots : a # t[q] => w[a] = v[a]
    BY <1>6, <1>8, <2>1, StateIs, WrittenIs
  <2>3. ASSUME NEW b \in Slots, \A j \in 1 .. Len(t) : t[j] = b => End(j) <= n
        PROVE  w[b] = v[b]
    <3>1. End(q) >= n + 1
      BY <1>4, <1>8
    <3>2. t[q] # b
      BY <1>0, <1>2, <2>1, <2>3, <3>1
    <3> QED
      BY <2>2, <3>2
  <2>4. ASSUME NEW j \in 1 .. Len(t), n < End(j), End(j) <= m, t[j] # Null
        PROVE  w[t[j]] = State(End(j))
    <3>1. q = j
      <4>1. j \in Nat /\ End(j) \in Nat
        BY <1>0, EndIs
      <4>2. m < End(j) + BlockSize
        BY <1>0, <2>4, <4>1
      <4> QED
        BY <1>0, <2>4, <4>1, <4>2, AlignedOnly DEF q
    <3> QED
      BY <2>2, <3>1
  <2>5. CASE q = c
    <3>1. End(q) = m
      BY <1>0, <1>2, <2>5
    <3>2. Replayed(w, t[c], t[c + 1], 0) = m
      BY <1>1, <2>2, <2>5, <3>1, ReplayedState
    <3>3. acc - 1 = 0
      BY <1>8, <2>5 DEF q, Own, acc
    <3> QED
      BY <2>2, <2>3, <2>4, <3>2, <3>3
  <2>6. CASE q # c
    <3>1. t[q] # t[c] /\ t[q] # t[c + 1]
      <4>0. c \in Nat /\ 1 <= c /\ c + 1 <= Len(t) /\ Len(t) \in Nat
        BY <1>0
      <4>1. q < c /\ c \in 1 .. Len(t) /\ c + 1 \in 1 .. Len(t) /\ q # c + 1
        <5>1. q \in Nat /\ q <= c /\ q # c
          BY <1>2, <1>3, <2>6
        <5>2. q < c /\ q # c + 1
          BY <4>0, <5>1
        <5>3. c \in 1 .. Len(t) /\ c + 1 \in 1 .. Len(t)
          BY <4>0
        <5> QED
          BY <5>2, <5>3
      <4> QED
        BY <1>8, <2>1, <2>6, <4>1, TableIs
    <3>2. w[t[c]] = State(n + 1) /\ w[t[c + 1]] = Stash(t[c], n + 1, good)
      BY <1>1, <2>2, <3>1
    <3>3. Base(w, t[c]) = n + 1
      BY <1>1, <2>2, <3>2, ReplayedState
    <3>4. /\ w[t[c + 1]].kind = "stash" /\ w[t[c + 1]].base = t[c]
          /\ w[t[c + 1]].at = n + 1 /\ w[t[c + 1]].good = good
      BY <3>2 DEF Stash
    <3>5. Replayed(w, t[c], t[c + 1], good) = m
      <4>1. CASE good = 0
        BY <1>0, <3>3, <4>1 DEF Replayed
      <4>2. CASE good # 0
        <5>1. good <= good /\ good \in Nat
          BY <1>0
        <5> QED
          BY <1>1, <3>3, <3>4, <4>2, <5>1 DEF Replayed
      <4> QED
        BY <4>1, <4>2
    <3>6. acc - 1 = good
      BY <1>0, <2>6 DEF q, Own, acc
    <3> QED
      BY <2>2, <2>3, <2>4, <3>5, <3>6
  <2> QED
    BY <2>5, <2>6
<1> QED
  BY <1>7, <1>8

(* A checkpoint after a prefill finds the boundary in the running block.   *)
LEMMA NoCheckpoint ==
    ASSUME NEW v, NEW t, NEW c \in Nat, NEW m \in Nat, Column(m) = c
    PROVE  Checkpoint(v, t, c, m, 1) = v
<1> DEFINE q == Aligned(m) \div BlockSize
<1>1. q \in Nat /\ Aligned(m) = End(q) /\ End(q) <= m /\ End(q) \in Nat
  BY AlignedIs, Ends
<1>2. Crossed(m, 1) => End(q) = m
  BY <1>1 DEF Crossed
<1>3. Crossed(m, 1) => q = c
  BY <1>1, <1>2, Columns
<1>4. End(q) = m => Aligned(m) - (m - 1 + 1) = 0
  BY <1>1
<1> HIDE DEF q
<1> QED
  BY <1>2, <1>3, <1>4 DEF Checkpoint, q

-----------------------------------------------------------------------------
(* The step that is next.                                                  *)

LEMMA TypesAre ==
    ASSUME Types, NEW r \in Requests
    PROVE  /\ computed[r] \in Nat /\ computed[r] <= MaxLen
           /\ col[r] \in Nat /\ col[r] <= MaxLen
           /\ nacc[r] \in 1 .. 1 + Drafts /\ nacc[r] \in Nat /\ nacc[r] >= 1
           /\ known[r] \in Nat /\ known[r] <= MaxLen
           /\ flight[r] \in Nat /\ flight[r] <= MaxLen
           /\ retired[r] \in Nat /\ retired[r] <= MaxLen
           /\ prompt[r] \in Nat /\ prompt[r] <= MaxLen
           /\ bt[r] \in Tables /\ Len(bt[r]) \in Nat
           /\ \A j \in 1 .. Len(bt[r]) : bt[r][j] \in Slots \cup {Null}
<1>1. /\ {prompt, known, flight, retired, computed, col} \subseteq [Requests -> 0 .. MaxLen]
      /\ nacc \in [Requests -> 1 .. 1 + Drafts] /\ bt \in [Requests -> Tables]
  BY DEF Types
<1>2. /\ prompt[r] \in 0 .. MaxLen /\ known[r] \in 0 .. MaxLen /\ flight[r] \in 0 .. MaxLen
      /\ retired[r] \in 0 .. MaxLen /\ computed[r] \in 0 .. MaxLen /\ col[r] \in 0 .. MaxLen
      /\ nacc[r] \in 1 .. 1 + Drafts /\ bt[r] \in Tables
  BY <1>1
<1>3. Len(bt[r]) \in Nat /\ \A j \in 1 .. Len(bt[r]) : bt[r][j] \in Slots \cup {Null}
  BY <1>2 DEF Tables
<1>4. MaxLen \in Nat /\ Drafts \in Nat
  BY Sizes
<1> QED
  BY <1>2, <1>3, <1>4

LEMMA QueueIs ==
    ASSUME Types
    PROVE  /\ Len(queue) \in 0 .. 2 /\ Len(done) \in 0 .. 2 /\ Len(queue) + Len(done) <= 2
           /\ queue # << >> <=> Len(queue) >= 1
           /\ queue # << >> => Head(queue) = queue[1]
           /\ \A i \in 1 .. Len(queue) :
                /\ queue[i] \in Entry /\ queue[i].req \in Requests /\ queue[i].n \in 1 .. MaxLen
                /\ queue[i].t \in Tables /\ queue[i].decode \in BOOLEAN /\ Len(queue[i].t) \in Nat
                /\ \A j \in 1 .. Len(queue[i].t) : queue[i].t[j] \in Slots \cup {Null}
           /\ \A i \in 1 .. Len(done) :
                /\ done[i].req \in Requests /\ done[i].n \in 1 .. MaxLen
                /\ done[i].accepted \in 1 .. MaxLen /\ done[i].accepted <= done[i].n
<1>1. /\ Len(queue) \in Nat /\ Len(done) \in Nat /\ Len(queue) + Len(done) <= 2
      /\ queue # << >> <=> Len(queue) >= 1
      /\ queue # << >> => Head(queue) = queue[1]
      /\ \A i \in 1 .. Len(queue) : queue[i] \in Entry
      /\ \A i \in 1 .. Len(done) : done[i] \in Outcome /\ done[i].accepted <= done[i].n
  <2>1. /\ queue \in Seq(Entry) /\ done \in Seq(Outcome) /\ Len(queue) + Len(done) <= 2
        /\ \A i \in 1 .. Len(done) : done[i].accepted <= done[i].n
    BY DEF Types
  <2>2. Len(queue) \in Nat /\ \A i \in 1 .. Len(queue) : queue[i] \in Entry
    BY <2>1
  <2>3. Len(done) \in Nat /\ \A i \in 1 .. Len(done) : done[i] \in Outcome
    BY <2>1
  <2>4. (queue # << >> <=> Len(queue) >= 1) /\ (queue # << >> => Head(queue) = queue[1])
    BY <2>1
  <2> QED
    BY <2>1, <2>2, <2>3, <2>4
<1>2. \A e \in Entry : /\ e.req \in Requests /\ e.n \in 1 .. MaxLen
                       /\ e.t \in Tables /\ e.decode \in BOOLEAN
  BY DEF Entry
<1>3. \A o \in Outcome : /\ o.req \in Requests /\ o.n \in 1 .. MaxLen
                         /\ o.accepted \in 1 .. MaxLen
  BY DEF Outcome
<1>4. \A t \in Tables : Len(t) \in Nat /\ \A j \in 1 .. Len(t) : t[j] \in Slots \cup {Null}
  <2> SUFFICES ASSUME NEW t \in Tables, NEW j \in 1 .. Len(t)
               PROVE  t[j] \in Slots \cup {Null}
    BY DEF Tables
  <2> QED
    BY DEF Tables
<1>5. Len(queue) \in 0 .. 2 /\ Len(done) \in 0 .. 2
  <2>1. Len(queue) \in Nat /\ Len(done) \in Nat /\ Len(queue) + Len(done) <= 2
    BY <1>1
  <2>2. PICK a \in Nat, b \in Nat : a = Len(queue) /\ b = Len(done)
    BY <2>1
  <2>3. a \in 0 .. 2 /\ b \in 0 .. 2
    BY <2>1, <2>2
  <2> QED
    BY <2>2, <2>3
<1> QED
  BY <1>1, <1>2, <1>3, <1>4, <1>5

\* A step e of r that is next, and ends in column c.
StepOK(e, r, c) ==
    /\ 1 \in 1 .. Len(queue) /\ e = Head(queue) /\ r \in Requests /\ c = Running(e)
    /\ e.n \in Nat /\ e.n > 0 /\ e.t \in Tables /\ e.decode \in BOOLEAN /\ Distinct(e.t)
    /\ computed[r] \in Nat /\ computed[r] + e.n <= MaxLen
    /\ col[r] \in Nat /\ computed[r] <= End(col[r]) /\ col[r] <= c
    /\ c \in Nat /\ 0 < c /\ c + 1 <= Len(e.t) /\ e.t[c] # Null /\ e.t[c + 1] # Null
    /\ nacc[r] \in 1 .. 1 + Drafts
    /\ col[r] > 0 => e.t[col[r]] # Null /\ (nacc[r] > 1 => e.t[col[r] + 1] # Null)
    /\ col[r] > 0 => Replayed(slot, e.t[col[r]], e.t[col[r] + 1], nacc[r] - 1) = computed[r]
    /\ computed[r] > 0 <=> col[r] > 0
    /\ e.decode => e.n = 1 + Drafts /\ computed[r] > 0 /\ Full(e.t, col[r])
    /\ ~e.decode => /\ End(col[r]) = computed[r] /\ col[r] < c /\ nacc[r] = 1
                    /\ Len(e.t) = c + 1
                    /\ \A j \in col[r] + 1 .. c - 1 : e.t[j] = Null

LEMMA NextStep ==
    ASSUME IInv, queue # << >>,
           NEW e, e = queue[1], NEW r, r = e.req, NEW c, c = Column(computed[r] + e.n)
    PROVE  StepOK(e, r, c)
<1>1. /\ 1 \in 1 .. Len(queue) /\ e = Head(queue) /\ r \in Requests /\ c = Running(e)
      /\ e.n \in 1 .. MaxLen /\ e.t \in Tables /\ e.decode \in BOOLEAN /\ Len(e.t) \in Nat
  BY QueueIs DEF IInv, Running
<1>2. EntryOK(1) /\ RequestOK(r) /\ Queued(r)
  BY <1>1 DEF IInv, Queued
<1>3. ~Follows(1) /\ Lo(1) = computed[r] /\ Hi(1) = computed[r] /\ Src(1) = col[r]
  <2>1. /\ ~Follows(1) /\ computed[r] \in Nat
    BY <1>1 DEF IInv, Types, Follows
  <2> QED
    BY <2>1 DEF Lo, Hi, Src
<1>4. /\ computed[r] \in Nat /\ col[r] \in Nat /\ nacc[r] \in 1 .. 1 + Drafts
      /\ e.n \in Nat /\ e.n > 0 /\ MaxLen \in Nat /\ Drafts \in Nat
  BY <1>1, Sizes, TypesAre DEF IInv
<1>5. /\ Distinct(e.t) /\ computed[r] + e.n <= MaxLen /\ computed[r] <= End(col[r])
      /\ col[r] <= c /\ c + 1 <= Len(e.t) /\ (col[r] > 0 => e.t[col[r]] # Null)
      /\ e.decode => e.n = 1 + Drafts /\ computed[r] > 0 /\ Full(e.t, col[r])
      /\ ~e.decode =>
           /\ End(col[r]) = computed[r] /\ Len(e.t) = c + 1 /\ e.t[c] # Null /\ e.t[c + 1] # Null
           /\ \A j \in col[r] + 1 .. c - 1 : e.t[j] = Null
           /\ nacc[r] = 1
  <2>1. /\ Distinct(e.t) /\ Hi(1) + e.n <= MaxLen /\ Hi(1) <= End(Src(1))
        /\ Src(1) <= Column(Lo(1) + e.n) /\ Column(Hi(1) + e.n) + 1 <= Len(e.t)
        /\ Src(1) > 0 => e.t[Src(1)] # Null
        /\ e.decode => e.n = 1 + Drafts /\ Lo(1) > 0 /\ Full(e.t, Src(1))
    BY <1>2 DEF EntryOK
  <2>2. ~e.decode =>
           LET s == Src(1)
               k == Column(Lo(1) + e.n)
           IN  /\ End(s) = Lo(1) /\ Len(e.t) = k + 1 /\ e.t[k] # Null /\ e.t[k + 1] # Null
               /\ \A j \in s + 1 .. k - 1 : e.t[j] = Null
               /\ ~Follows(1) => nacc[r] = 1
    BY <1>2 DEF EntryOK
  <2> QED
    BY <1>3, <2>1, <2>2
<1>6. c \in Nat /\ 0 < c
  <2>1. computed[r] + e.n \in Nat /\ computed[r] + e.n > 0
    BY <1>4
  <2> QED
    BY <2>1, Columns
<1>7. /\ End(0) = 0 /\ End(col[r]) \in Nat
      /\ col[r] > 0 => End(col[r]) > 0
  <2>1. 0 \in Nat /\ End(0) = 0 /\ End(col[r]) \in Nat /\ (col[r] <= 0 <=> End(col[r]) <= End(0))
    BY <1>4, Ends
  <2> QED
    BY <1>4, <2>1
<1>8. computed[r] > 0 <=> col[r] > 0
  BY <1>1, <1>4, <1>5, <1>7
<1>9. e.t[c] # Null /\ e.t[c + 1] # Null
  <2>1. CASE e.decode
    <3>1. c \in col[r] .. Len(e.t) /\ c + 1 \in col[r] .. Len(e.t)
      BY <1>1, <1>4, <1>5, <1>6
    <3> QED
      BY <2>1, <1>5, <3>1 DEF Full
  <2> QED
    BY <2>1, <1>5
<1>10. nacc[r] > 1 => e.t[col[r] + 1] # Null
  <2> SUFFICES ASSUME nacc[r] > 1 PROVE e.t[col[r] + 1] # Null
    OBVIOUS
  <2>1. e.decode
    BY <1>4, <1>5
  <2>2. col[r] + 1 \in col[r] .. Len(e.t)
    BY <1>1, <1>4, <1>5, <1>6
  <2> QED
    BY <2>1, <2>2, <1>5 DEF Full
<1>11. ~e.decode => col[r] < c
  <2> SUFFICES ASSUME ~e.decode PROVE col[r] < c
    OBVIOUS
  <2>1. End(col[r]) = computed[r] /\ col[r] <= c
    BY <1>1, <1>5
  <2>2. PICK x \in Nat, y \in Nat : x = computed[r] /\ y = e.n /\ y > 0 /\ c = Column(x + y)
    BY <1>4
  <2>3. x + y \in Nat /\ x + y > x
    BY <2>2
  <2>4. x + y <= End(c)
    BY <2>2, <2>3, Columns
  <2>5. c # col[r]
    BY <2>1, <2>2, <2>3, <2>4
  <2>6. col[r] \in Nat
    BY <1>4
  <2> QED
    BY <1>6, <2>1, <2>5, <2>6
<1>12. col[r] > 0 => Replayed(slot, e.t[col[r]], e.t[col[r] + 1], nacc[r] - 1) = computed[r]
  <2> SUFFICES ASSUME col[r] > 0
               PROVE  Replayed(slot, e.t[col[r]], e.t[col[r] + 1], nacc[r] - 1) = computed[r]
    OBVIOUS
  <2>1. FirstOf(r) = 1 /\ Table(r) = e.t /\ FirstOf(r) - 1 = 0
    BY <1>1 DEF FirstOf, Table
  <2>2. \/ Replayed(slot, e.t[col[r]], e.t[col[r] + 1], nacc[r] - 1) = computed[r]
        \/ nacc[r] = 1 /\ Good(0, e.t[col[r]], computed[r])
    BY <1>2, <1>8, <2>1 DEF RequestOK, SourceOK
  <2>3. CASE nacc[r] = 1 /\ Good(0, e.t[col[r]], computed[r])
    <3>1. slot[e.t[col[r]]] = State(computed[r])
      BY <2>3 DEF Good
    <3>2. nacc[r] - 1 = 0
      BY <2>3
    <3> QED
      BY <3>1, <3>2 DEF Replayed, Base, State
  <2> QED
    BY <2>2, <2>3
<1> QED
  BY <1>1, <1>4, <1>5, <1>6, <1>8, <1>9, <1>10, <1>11, <1>12 DEF StepOK

(* The state it starts from, once the migration before it has been made.   *)
LEMMA StartsExact ==
    ASSUME IInv, queue # << >>,
           NEW e, e = queue[1], NEW r, r = e.req, NEW c, c = Column(computed[r] + e.n)
    PROVE  /\ Migrated(e) \in Contents
           /\ \A b \in Slots : b \notin {e.t[c], e.t[c + 1]} => Migrated(e)[b] = slot[b]
           /\ computed[r] > 0 =>
                /\ Replayed(Migrated(e), e.t[c], e.t[c + 1], Accepted(e) - 1) = computed[r]
                /\ ~e.decode => Base(Migrated(e), e.t[c]) = computed[r]
           /\ Accepted(e) \in Nat
<1>0. StepOK(e, r, c)
  BY NextStep
<1>1. PICK t : t = e.t
  OBVIOUS
<1>a. /\ t \in Tables /\ Distinct(t) /\ c = Running(e) /\ e.decode \in BOOLEAN /\ r = e.req
      /\ computed[r] \in Nat /\ computed[r] <= MaxLen /\ nacc[r] \in 1 .. 1 + Drafts
      /\ c \in Nat /\ 0 < c /\ c + 1 <= Len(t) /\ t[c] # Null /\ t[c + 1] # Null
  <2>1. computed[r] <= MaxLen
    BY <1>0, TypesAre DEF IInv, StepOK
  <2> QED
    BY <1>0, <1>1, <2>1 DEF StepOK
<1>b. /\ col[r] \in Nat /\ col[r] <= c /\ (computed[r] > 0 <=> col[r] > 0)
      /\ ~e.decode => col[r] < c
  BY <1>0 DEF StepOK
<1>c. col[r] > 0 => /\ t[col[r]] # Null /\ (nacc[r] > 1 => t[col[r] + 1] # Null)
                    /\ Replayed(slot, t[col[r]], t[col[r] + 1], nacc[r] - 1) = computed[r]
  BY <1>0, <1>1 DEF StepOK
<1>2. nacc[r] - 1 \in Nat /\ computed[r] \in 0 .. MaxLen /\ (nacc[r] - 1 > 0 <=> nacc[r] > 1)
  <2>1. PICK a \in Nat, k \in Nat : a = nacc[r] /\ k = Drafts /\ a \in 1 .. 1 + k
    BY <1>a, Sizes
  <2>2. a - 1 \in Nat /\ (a - 1 > 0 <=> a > 1)
    BY <2>1
  <2>3. computed[r] \in 0 .. MaxLen
    BY <1>a, Sizes
  <2> QED
    BY <2>1, <2>2, <2>3
<1>3. slot \in Contents
  BY DEF IInv, Types, Contents
<1>4. Migrated(e) = Migrate(slot, t, col[r], c, nacc[r] - 1)
  BY <1>1, <1>a DEF Migrated
<1>5. /\ Migrated(e) \in Contents
      /\ \A b \in Slots : b \notin {t[c], t[c + 1]} => Migrated(e)[b] = slot[b]
      /\ col[r] > 0 =>
           Replayed(Migrated(e), t[c], t[c + 1], IF col[r] = c THEN nacc[r] - 1 ELSE 0)
             = computed[r]
      /\ col[r] \notin {0, c} => Base(Migrated(e), t[c]) = computed[r]
  <2> DEFINE n == computed[r]
             bias == nacc[r] - 1
             src == col[r]
  <2>1. /\ src \in Nat /\ src <= c /\ bias \in Nat /\ n \in 0 .. MaxLen
        /\ src > 0 => /\ t[src] # Null /\ (bias > 0 => t[src + 1] # Null)
                      /\ Replayed(slot, t[src], t[src + 1], bias) = n
    BY <1>a, <1>b, <1>c, <1>2
  <2> HIDE DEF n, bias, src
  <2>2. LET u == Migrate(slot, t, src, c, bias)
        IN  /\ u \in Contents
            /\ \A b \in Slots : b \notin {t[c], t[c + 1]} => u[b] = slot[b]
            /\ src > 0 =>
                 Replayed(u, t[c], t[c + 1], IF src = c THEN bias ELSE 0) = n
            /\ src \notin {0, c} => Base(u, t[c]) = n
    <3>1. /\ slot \in Contents /\ t \in Tables /\ Distinct(t) /\ src \in Nat /\ c \in Nat
          /\ src <= c /\ 0 < c /\ c + 1 <= Len(t) /\ t[c] # Null /\ t[c + 1] # Null
          /\ bias \in Nat /\ n \in 0 .. MaxLen
          /\ src > 0 => /\ t[src] # Null /\ (bias > 0 => t[src + 1] # Null)
                        /\ Replayed(slot, t[src], t[src + 1], bias) = n
      BY <1>a, <1>3, <2>1
    <3> QED
      BY <3>1, MigrateIs
  <2>3. /\ Migrated(e) = Migrate(slot, t, src, c, bias)
        /\ n = computed[r] /\ bias = nacc[r] - 1 /\ src = col[r]
    BY <1>4 DEF n, bias, src
  <2> QED
    BY <2>2, <2>3
<1>6. Accepted(e) \in Nat /\ (col[r] > 0 => Accepted(e) - 1 = IF col[r] = c THEN nacc[r] - 1 ELSE 0)
  BY <1>a, <1>b, <1>c, <1>2 DEF Accepted, Moved
<1>7. /\ Migrated(e) \in Contents
      /\ \A b \in Slots : b \notin {e.t[c], e.t[c + 1]} => Migrated(e)[b] = slot[b]
  BY <1>1, <1>5
<1>8. ASSUME computed[r] > 0
      PROVE  /\ Replayed(Migrated(e), t[c], t[c + 1], Accepted(e) - 1) = computed[r]
             /\ ~e.decode => Base(Migrated(e), t[c]) = computed[r]
  <2>1. col[r] > 0 /\ (~e.decode => col[r] \notin {0, c})
    BY <1>8, <1>a, <1>b
  <2>2. Accepted(e) - 1 = IF col[r] = c THEN nacc[r] - 1 ELSE 0
    BY <1>6, <2>1
  <2>3. Replayed(Migrated(e), t[c], t[c + 1], Accepted(e) - 1) = computed[r]
    BY <1>5, <2>1, <2>2
  <2> QED
    BY <1>5, <2>1, <2>3
<1> QED
  BY <1>1, <1>6, <1>7, <1>8

LEMMA ExactSteps == ASSUME IInv PROVE StepsExact
<1> SUFFICES ASSUME queue # << >> PROVE StepsExact
  BY DEF StepsExact
<1> DEFINE e == queue[1]
           r == e.req
           c == Column(computed[r] + e.n)
<1>1. e = Head(queue) /\ c = Running(e) /\ e.decode \in BOOLEAN
  BY NextStep DEF StepOK
<1>2. computed[r] > 0 =>
        /\ Replayed(Migrated(e), e.t[c], e.t[c + 1], Accepted(e) - 1) = computed[r]
        /\ ~e.decode => Base(Migrated(e), e.t[c]) = computed[r]
  BY StartsExact
<1> HIDE DEF e, c
<1> QED
  BY <1>1, <1>2 DEF StepsExact

-----------------------------------------------------------------------------
(* What a step leaves.                                                     *)

RanOK(e, r, c) ==
    /\ slot' \in Contents
    /\ \A b \in Slots \ Writes(1) : slot'[b] = slot[b]
    /\ Replayed(slot', e.t[c], e.t[c + 1], nacc'[r] - 1) = computed'[r]
    /\ \A j \in 1 .. Len(e.t) :
          computed[r] < End(j) /\ End(j) <= computed'[r] /\ e.t[j] # Null
             => slot'[e.t[j]] = State(End(j))
    /\ computed'[r] \in Nat /\ nacc'[r] \in 1 .. 1 + Drafts /\ col'[r] = c
    /\ computed[r] + Least(e) <= computed'[r] /\ computed'[r] <= computed[r] + e.n
    /\ ~e.decode => computed'[r] = computed[r] + e.n /\ nacc'[r] = 1
    /\ computed' = [computed EXCEPT ![r] = computed'[r]]
    /\ nacc' = [nacc EXCEPT ![r] = nacc'[r]]
    /\ col' = [col EXCEPT ![r] = c]
    /\ queue' = Tail(queue)
    /\ done' = Append(done, [req |-> r, n |-> e.n, accepted |-> computed'[r] - computed[r]])
    /\ UNCHANGED schedVars

LEMMA OldBlocks ==
    ASSUME IInv, queue # << >>,
           NEW e, e = queue[1], NEW r, r = e.req, NEW c, c = Column(computed[r] + e.n),
           NEW b \in Slots \ Writes(1)
    PROVE  /\ \A j \in 1 .. Len(e.t) : e.t[j] = b => End(j) <= computed[r]
           /\ b # e.t[c] /\ b # e.t[c + 1]
<1>1. /\ computed[r] \in Nat /\ e.n \in Nat /\ e.n > 0 /\ c \in Nat /\ 0 < c /\ c + 1 <= Len(e.t)
      /\ r \in Requests
  BY NextStep DEF StepOK
<1>2. Lo(1) = computed[r]
  BY <1>1 DEF Lo, Follows
<1>3. Len(e.t) \in Nat /\ 1 \in 1 .. Len(queue)
  BY QueueIs DEF IInv
<1>4. ASSUME NEW j \in 1 .. Len(e.t), e.t[j] = b PROVE End(j) <= computed[r]
  <2>1. ~(End(j) > computed[r])
    BY <1>2, <1>4 DEF Writes
  <2>2. End(j) \in Nat
    BY <1>3, EndIs
  <2> QED
    BY <1>1, <2>1, <2>2
<1>5. End(c) > computed[r] /\ End(c + 1) > computed[r]
  <2>0. PICK x \in Nat : x = computed[r] + e.n
    BY <1>1
  <2>1. x <= End(c)
    BY <2>0, Columns
  <2>2. End(c) \in Nat /\ End(c + 1) = End(c) + BlockSize
    BY <1>1, Ends
  <2> QED
    BY <1>1, <2>0, <2>1, <2>2, Sizes
<1>6. c \in 1 .. Len(e.t) /\ c + 1 \in 1 .. Len(e.t)
  <2>1. PICK l \in Nat : l = Len(e.t)
    BY <1>3
  <2>2. c \in Nat /\ 0 < c /\ c + 1 <= l
    BY <1>1, <2>1
  <2>3. c \in 1 .. l /\ c + 1 \in 1 .. l
    BY <2>2
  <2> QED
    BY <2>1, <2>3
<1>7. End(c) \in Nat /\ End(c + 1) \in Nat
  BY <1>1, EndIs
<1>8. ASSUME NEW i \in {c, c + 1} PROVE b # e.t[i]
  <2> SUFFICES ASSUME e.t[i] = b PROVE FALSE
    OBVIOUS
  <2>1. i \in 1 .. Len(e.t) /\ End(i) > computed[r] /\ End(i) \in Nat
    BY <1>5, <1>6, <1>7
  <2>2. End(i) <= computed[r]
    BY <1>4, <2>1
  <2>3. PICK x \in Nat, y \in Nat : x = End(i) /\ y = computed[r]
    BY <1>1, <2>1
  <2> QED
    BY <2>1, <2>2, <2>3
<1> QED
  BY <1>4, <1>8

LEMMA DecodeRuns ==
    ASSUME IInv, NEW good \in 0 .. Drafts, RunStep(good),
           NEW e, e = queue[1], NEW r, r = e.req, NEW c, c = Column(computed[r] + e.n), e.decode
    PROVE  RanOK(e, r, c)
<1>0. queue # << >>
  BY DEF RunStep
<1>1. StepOK(e, r, c)
  BY <1>0, NextStep
<1>2. PICK t \in Tables, n \in Nat : t = e.t /\ n = computed[r]
  BY <1>1 DEF StepOK
<1>3. /\ r \in Requests /\ n > 0 /\ e.n = 1 + Drafts /\ n + e.n <= MaxLen
      /\ c \in Nat /\ 0 < c /\ c + 1 <= Len(t) /\ t \in Tables /\ Distinct(t)
      /\ t[c] # Null /\ t[c + 1] # Null
  BY <1>1, <1>2 DEF StepOK
<1>4. PICK m \in Nat : m = n + 1 + good
  OBVIOUS
<1>5. /\ good \in Nat /\ good <= Drafts /\ m = n + (good + 1) /\ m <= n + e.n
      /\ m <= MaxLen /\ n + 1 <= MaxLen /\ MaxLen \in Nat /\ m - n = good + 1
      /\ n + Least(e) <= m /\ good + 1 \in 1 .. 1 + Drafts /\ 1 \in 1 .. 1 + Drafts
      /\ n + 1 + good <= MaxLen /\ e.n \in Nat
  BY <1>3, <1>4, Sizes DEF Least
<1>6. m <= End(c) /\ n + 1 + good <= End(c)
  <2>1. PICK x \in Nat : x = n + e.n
    BY <1>5
  <2>2. x <= End(c) /\ End(c) \in Nat
    BY <1>2, <1>3, <2>1, Columns, EndIs
  <2> QED
    BY <1>4, <1>5, <2>1, <2>2
<1>7. PICK run, acc : /\ run = Update(Migrated(e), t, c, n, Accepted(e), good)
                      /\ acc = IF Own(m, good + 1, c) THEN 1 ELSE good + 1
  OBVIOUS
<1>8. /\ slot' = Checkpoint(run, t, c, m, good + 1)
      /\ computed' = [computed EXCEPT ![r] = m]
      /\ nacc' = [nacc EXCEPT ![r] = acc]
      /\ col' = [col EXCEPT ![r] = c]
      /\ queue' = Tail(queue)
      /\ done' = Append(done, [req |-> r, n |-> e.n, accepted |-> good + 1])
      /\ UNCHANGED schedVars
  <2>1. e = Head(queue) /\ c = Running(e)
    BY <1>1 DEF StepOK
  <2> QED
    BY <1>2, <1>5, <1>7, <2>1 DEF RunStep, Own
<1>9. /\ Migrated(e) \in Contents /\ Accepted(e) \in Nat
      /\ \A b \in Slots : b \notin {t[c], t[c + 1]} => Migrated(e)[b] = slot[b]
      /\ Replayed(Migrated(e), t[c], t[c + 1], Accepted(e) - 1) = n
  <2>1. /\ Migrated(e) \in Contents /\ Accepted(e) \in Nat
        /\ \A b \in Slots : b \notin {e.t[c], e.t[c + 1]} => Migrated(e)[b] = slot[b]
        /\ computed[r] > 0 => Replayed(Migrated(e), e.t[c], e.t[c + 1], Accepted(e) - 1) = computed[r]
    BY <1>0, StartsExact
  <2> QED
    BY <1>2, <1>3, <2>1
<1>10. /\ run \in Contents /\ run[t[c]] = State(n + 1) /\ run[t[c + 1]] = Stash(t[c], n + 1, good)
       /\ \A b \in Slots : b \notin {t[c], t[c + 1]} => run[b] = Migrated(e)[b]
  <2>1. LET v == Update(Migrated(e), t, c, n, Accepted(e), good)
        IN  /\ v \in Contents
            /\ v[t[c]] = State(n + 1) /\ v[t[c + 1]] = Stash(t[c], n + 1, good)
            /\ \A b \in Slots : b \notin {t[c], t[c + 1]} => v[b] = Migrated(e)[b]
    <3>1. /\ Migrated(e) \in Contents /\ t \in Tables /\ Distinct(t) /\ c \in Nat /\ 0 < c
          /\ c + 1 <= Len(t) /\ t[c] # Null /\ t[c + 1] # Null /\ n \in Nat /\ n + 1 <= MaxLen
          /\ Accepted(e) \in Nat /\ good \in 0 .. Drafts
          /\ Replayed(Migrated(e), t[c], t[c + 1], Accepted(e) - 1) = n
      BY <1>3, <1>5, <1>9
    <3> QED
      BY <3>1, UpdateIs
  <2> QED
    BY <1>7, <2>1
<1>11. /\ slot' \in Contents
       /\ \A b \in Slots : (\A j \in 1 .. Len(t) : t[j] = b => End(j) <= n) => slot'[b] = run[b]
       /\ Replayed(slot', t[c], t[c + 1], acc - 1) = m
       /\ \A j \in 1 .. Len(t) :
            n < End(j) /\ End(j) <= m /\ t[j] # Null => slot'[t[j]] = State(End(j))
  <2>1. CheckpointOK(run, t, c, n, good, m)
    <3>1. /\ run \in Contents /\ t \in Tables /\ Distinct(t) /\ c \in Nat /\ 0 < c
          /\ c + 1 <= Len(t) /\ t[c] # Null /\ t[c + 1] # Null
          /\ m = n + 1 + good /\ m <= End(c) /\ m <= MaxLen
          /\ run[t[c]] = State(n + 1) /\ run[t[c + 1]] = Stash(t[c], n + 1, good)
      BY <1>3, <1>4, <1>5, <1>6, <1>10
    <3> QED
      BY <3>1, CheckpointIs
  <2> QED
    BY <1>7, <1>8, <2>1 DEF CheckpointOK
<1>12. ASSUME NEW b \in Slots \ Writes(1) PROVE slot'[b] = slot[b]
  <2>1. /\ \A j \in 1 .. Len(t) : t[j] = b => End(j) <= n
        /\ b # t[c] /\ b # t[c + 1]
    BY <1>0, <1>2, OldBlocks
  <2> QED
    BY <1>9, <1>10, <1>11, <2>1
<1>13. computed'[r] = m /\ nacc'[r] = acc /\ col'[r] = c
  <2>1. /\ computed \in [Requests -> 0 .. MaxLen] /\ nacc \in [Requests -> 1 .. 1 + Drafts]
        /\ col \in [Requests -> 0 .. MaxLen]
    BY DEF IInv, Types
  <2> QED
    BY <1>3, <1>8, <2>1
<1>14. /\ computed'[r] \in Nat /\ nacc'[r] \in 1 .. 1 + Drafts /\ computed'[r] - n = good + 1
       /\ n + Least(e) <= computed'[r] /\ computed'[r] <= n + e.n
  BY <1>5, <1>7, <1>13
<1>15. /\ computed' = [computed EXCEPT ![r] = computed'[r]]
       /\ nacc' = [nacc EXCEPT ![r] = nacc'[r]]
       /\ done' = Append(done, [req |-> r, n |-> e.n, accepted |-> computed'[r] - n])
  BY <1>8, <1>13, <1>14
<1>16. Replayed(slot', t[c], t[c + 1], nacc'[r] - 1) = computed'[r]
  BY <1>11, <1>13
<1>17. \A j \in 1 .. Len(t) :
          n < End(j) /\ End(j) <= computed'[r] /\ t[j] # Null => slot'[t[j]] = State(End(j))
  BY <1>11, <1>13
<1>18. /\ Replayed(slot', e.t[c], e.t[c + 1], nacc'[r] - 1) = computed'[r]
       /\ \A j \in 1 .. Len(e.t) :
            computed[r] < End(j) /\ End(j) <= computed'[r] /\ e.t[j] # Null
               => slot'[e.t[j]] = State(End(j))
  BY <1>2, <1>16, <1>17
<1>19. /\ computed'[r] \in Nat /\ nacc'[r] \in 1 .. 1 + Drafts /\ col'[r] = c
       /\ computed[r] + Least(e) <= computed'[r] /\ computed'[r] <= computed[r] + e.n
       /\ ~e.decode => computed'[r] = computed[r] + e.n /\ nacc'[r] = 1
  BY <1>2, <1>13, <1>14
<1>20. done' = Append(done, [req |-> r, n |-> e.n, accepted |-> computed'[r] - computed[r]])
  BY <1>2, <1>15
<1> QED
  BY <1>8, <1>11, <1>12, <1>15, <1>18, <1>19, <1>20 DEF RanOK

LEMMA PrefillRuns ==
    ASSUME IInv, NEW good \in 0 .. Drafts, RunStep(good),
           NEW e, e = queue[1], NEW r, r = e.req, NEW c, c = Column(computed[r] + e.n), ~e.decode
    PROVE  RanOK(e, r, c)
<1>0. queue # << >>
  BY DEF RunStep
<1>1. StepOK(e, r, c)
  BY <1>0, NextStep
<1>2. PICK t \in Tables, n \in Nat : t = e.t /\ n = computed[r]
  BY <1>1 DEF StepOK
<1>3. /\ r \in Requests /\ e.n \in Nat /\ e.n > 0 /\ n + e.n <= MaxLen
      /\ c \in Nat /\ 0 < c /\ c + 1 <= Len(t) /\ t \in Tables /\ Distinct(t)
      /\ t[c] # Null /\ t[c + 1] # Null /\ Len(t) = c + 1
      /\ col[r] \in Nat /\ End(col[r]) = n /\ col[r] < c
      /\ \A j \in col[r] + 1 .. c - 1 : t[j] = Null
  BY <1>1, <1>2 DEF StepOK
<1>4. PICK m \in Nat : m = n + e.n
  BY <1>3
<1>5. /\ m <= MaxLen /\ MaxLen \in Nat /\ m - n = e.n /\ n + Least(e) <= m /\ m \in 0 .. MaxLen
      /\ 1 \in 1 .. 1 + Drafts /\ n < m
  <2>1. PICK k \in Nat, a \in Nat, z \in Nat : k = MaxLen /\ a = e.n /\ z = Drafts
    BY <1>3, Sizes
  <2>2. m = n + a /\ a > 0 /\ m <= k
    BY <1>3, <1>4, <2>1
  <2>3. m <= k /\ m - n = a /\ m \in 0 .. k /\ 1 \in 1 .. 1 + z /\ n < m /\ n + a <= m
    BY <2>2
  <2>4. Least(e) = e.n
    BY DEF Least
  <2> QED
    BY <2>1, <2>3, <2>4
<1>6. m <= End(c) /\ Column(m) = c /\ End(c) \in Nat
  BY <1>2, <1>3, <1>4, Columns, EndIs
<1>7. PICK run : run = Prefill(Migrated(e), t, c, n, m)
  OBVIOUS
<1>8. /\ slot' = run
      /\ computed' = [computed EXCEPT ![r] = m]
      /\ nacc' = [nacc EXCEPT ![r] = 1]
      /\ col' = [col EXCEPT ![r] = c]
      /\ queue' = Tail(queue)
      /\ done' = Append(done, [req |-> r, n |-> e.n, accepted |-> e.n])
      /\ UNCHANGED schedVars
  <2>1. e = Head(queue) /\ c = Running(e)
    BY <1>1 DEF StepOK
  <2>2. Checkpoint(run, t, c, m, 1) = run
    BY <1>3, <1>6, NoCheckpoint
  <2>3. /\ slot' = Checkpoint(run, t, c, m, 1)
        /\ nacc' = [nacc EXCEPT ![r] = IF Own(m, 1, c) THEN 1 ELSE 1]
        /\ computed' = [computed EXCEPT ![r] = m]
        /\ col' = [col EXCEPT ![r] = c]
        /\ queue' = Tail(queue)
        /\ done' = Append(done, [req |-> r, n |-> e.n, accepted |-> e.n])
        /\ UNCHANGED schedVars
    BY <1>2, <1>4, <1>7, <2>1 DEF RunStep, Own
  <2> QED
    BY <2>2, <2>3
<1>9. /\ Migrated(e) \in Contents
      /\ \A b \in Slots : b \notin {t[c], t[c + 1]} => Migrated(e)[b] = slot[b]
      /\ n > 0 => Base(Migrated(e), t[c]) = n
  <2>1. /\ Migrated(e) \in Contents
        /\ \A b \in Slots : b \notin {e.t[c], e.t[c + 1]} => Migrated(e)[b] = slot[b]
        /\ computed[r] > 0 => Base(Migrated(e), e.t[c]) = computed[r]
    BY <1>0, StartsExact
  <2> QED
    BY <1>2, <2>1
<1>10. /\ run \in Contents /\ run[t[c]] = State(m)
       /\ \A b \in Slots : b \notin {t[c], t[c + 1]} => run[b] = Migrated(e)[b]
  <2>1. PICK u \in Contents : u = Migrated(e) /\ (n > 0 => Base(u, t[c]) = n)
    BY <1>9
  <2>2. PrefillOK(u, t, c, n, m)
    <3>1. /\ Distinct(t) /\ c \in Nat /\ 0 < c /\ c + 1 <= Len(t) /\ t[c] # Null /\ t[c + 1] # Null
          /\ m \in 0 .. MaxLen
      BY <1>3, <1>5
    <3> QED
      BY <2>1, <3>1, PrefillIs
  <2> QED
    BY <1>7, <2>1, <2>2 DEF PrefillOK
<1>11. ASSUME NEW b \in Slots \ Writes(1) PROVE slot'[b] = slot[b]
  <2>1. b # t[c] /\ b # t[c + 1]
    BY <1>0, <1>2, OldBlocks
  <2> QED
    BY <1>8, <1>9, <1>10, <2>1
<1>12. Replayed(slot', t[c], t[c + 1], 1 - 1) = m
  <2>1. t[c] \in Slots
    BY <1>3, TableIs
  <2>2. Replayed(run, t[c], t[c + 1], 0) = m
    BY <1>10, <2>1, ReplayedState
  <2> QED
    BY <1>8, <2>2
<1>13. ASSUME NEW j \in 1 .. Len(t), n < End(j), End(j) <= m, t[j] # Null
       PROVE  slot'[t[j]] = State(End(j))
  <2>0. j \in Nat /\ End(j) \in Nat /\ n < End(j) /\ End(j) <= m
    BY <1>13, EndIs
  <2>1. j \in Nat /\ End(j) \in Nat /\ End(j) <= End(c) /\ End(col[r]) < End(j)
    <3>1. m <= End(c) /\ End(c) \in Nat /\ m \in Nat /\ End(col[r]) = n
      BY <1>3, <1>4, <1>6
    <3>2. End(j) <= End(c)
      BY <2>0, <3>1
    <3> QED
      BY <2>0, <3>1, <3>2
  <2>2. j <= c
    BY <1>3, <2>1, Ends
  <2>3. col[r] < j
    <3>1. j <= col[r] => End(j) <= End(col[r])
      BY <1>3, <2>1, Ends
    <3> QED
      BY <1>3, <1>2, <2>1, <3>1
  <2>4. j = c
    <3>1. PICK i \in Nat, k \in Nat, a \in Nat : i = j /\ k = c /\ a = col[r] /\ i <= k /\ a < i
      BY <1>3, <2>0, <2>2, <2>3
    <3>2. i \in a + 1 .. k - 1 \/ i = k
      BY <3>1
    <3>3. j \notin col[r] + 1 .. c - 1
      BY <1>3, <1>13
    <3> QED
      BY <3>1, <3>2, <3>3
  <2>5. End(j) = m
    BY <1>6, <1>13, <2>1, <2>4
  <2> QED
    BY <1>8, <1>10, <2>4, <2>5
<1>14. computed'[r] = m /\ nacc'[r] = 1 /\ col'[r] = c
  <2>1. /\ computed \in [Requests -> 0 .. MaxLen] /\ nacc \in [Requests -> 1 .. 1 + Drafts]
        /\ col \in [Requests -> 0 .. MaxLen]
    BY DEF IInv, Types
  <2> QED
    BY <1>3, <1>8, <2>1
<1>15. /\ Replayed(slot', e.t[c], e.t[c + 1], nacc'[r] - 1) = computed'[r]
       /\ \A j \in 1 .. Len(e.t) :
            computed[r] < End(j) /\ End(j) <= computed'[r] /\ e.t[j] # Null
               => slot'[e.t[j]] = State(End(j))
  BY <1>2, <1>12, <1>13, <1>14
<1>16. /\ computed'[r] \in Nat /\ nacc'[r] \in 1 .. 1 + Drafts /\ col'[r] = c
       /\ computed[r] + Least(e) <= computed'[r] /\ computed'[r] <= computed[r] + e.n
       /\ computed'[r] = computed[r] + e.n /\ nacc'[r] = 1
  BY <1>2, <1>3, <1>4, <1>5, <1>14
<1>17. /\ computed' = [computed EXCEPT ![r] = computed'[r]]
       /\ nacc' = [nacc EXCEPT ![r] = nacc'[r]]
       /\ done' = Append(done, [req |-> r, n |-> e.n, accepted |-> computed'[r] - computed[r]])
  BY <1>2, <1>5, <1>8, <1>14
<1> QED
  BY <1>8, <1>10, <1>11, <1>15, <1>16, <1>17 DEF RanOK

-----------------------------------------------------------------------------
(* A step runs: the second step moves up.                                  *)

LEMMA StepRuns ==
    ASSUME IInv, NEW good \in 0 .. Drafts, RunStep(good),
           NEW e, e = queue[1], NEW r, r = e.req, NEW c, c = Column(computed[r] + e.n)
    PROVE  RanOK(e, r, c) /\ StepOK(e, r, c)
<1>1. StepOK(e, r, c)
  BY NextStep DEF RunStep
<1>2. e.decode \in BOOLEAN
  BY <1>1 DEF StepOK
<1>3. CASE e.decode
  BY <1>1, <1>3, DecodeRuns
<1>4. CASE ~e.decode
  BY <1>1, <1>4, PrefillRuns
<1> QED
  BY <1>2, <1>3, <1>4

\* The queue and the requests after the step.
MovedUp(e, r, c) ==
    /\ Len(queue') = Len(queue) - 1 /\ queue' \in Seq(Entry)
    /\ Len(queue) = 2 => queue'[1] = queue[2]
    /\ \A q \in Requests : q # r => /\ computed'[q] = computed[q] /\ nacc'[q] = nacc[q]
                                    /\ col'[q] = col[q]
    /\ Lo(1) = computed[r] /\ ~Follows(1) /\ ~Follows(1)'
    /\ Len(queue) = 2 =>
         /\ Lo(1)' \in Nat /\ Lo(2) \in Nat /\ Hi(2) \in Nat
         /\ Lo(1)' = computed'[queue[2].req] /\ Hi(1)' = Lo(1)'
         /\ Lo(2) <= Lo(1)' /\ Lo(1)' <= Hi(2) /\ (Exact(2) => Lo(1)' = Lo(2))
         /\ Src(1)' = Src(2)

LEMMA MovesUp ==
    ASSUME IInv, queue # << >>,
           NEW e, e = queue[1], NEW r, r = e.req, NEW c, c = Column(computed[r] + e.n),
           RanOK(e, r, c), StepOK(e, r, c)
    PROVE  MovedUp(e, r, c)
<1>1. /\ queue' = Tail(queue) /\ queue \in Seq(Entry) /\ Len(queue) \in 1 .. 2
  <2>1. Types
    BY DEF IInv
  <2>2. queue' = Tail(queue) /\ queue \in Seq(Entry)
    BY <2>1 DEF RanOK, Types
  <2>3. Len(queue) \in 0 .. 2 /\ Len(queue) >= 1
    BY <2>1, QueueIs
  <2> QED
    BY <2>2, <2>3
<1>2. /\ Len(queue') = Len(queue) - 1 /\ queue' \in Seq(Entry)
      /\ Len(queue) = 2 => queue'[1] = queue[2]
  BY <1>1
<1>3. /\ computed \in [Requests -> 0 .. MaxLen] /\ nacc \in [Requests -> 1 .. 1 + Drafts]
      /\ col \in [Requests -> 0 .. MaxLen]
  BY DEF IInv, Types
<1>4. \A q \in Requests : q # r => /\ computed'[q] = computed[q] /\ nacc'[q] = nacc[q]
                                   /\ col'[q] = col[q]
  BY <1>3 DEF RanOK
<1>5. Lo(1) = computed[r] /\ ~Follows(1) /\ ~Follows(1)'
  BY DEF Lo, Follows, StepOK
<1>6. ASSUME Len(queue) = 2
      PROVE  /\ Lo(1)' \in Nat /\ Lo(2) \in Nat /\ Hi(2) \in Nat
             /\ Lo(1)' = computed'[queue[2].req] /\ Hi(1)' = Lo(1)'
             /\ Lo(2) <= Lo(1)' /\ Lo(1)' <= Hi(2) /\ (Exact(2) => Lo(1)' = Lo(2))
             /\ Src(1)' = Src(2)
  <2>1. PICK q \in Requests : q = queue[2].req
    BY <1>6, QueueIs DEF IInv
  <2>2. computed[q] \in Nat /\ computed'[q] \in Nat /\ computed[r] \in Nat /\ e.n \in Nat
    <3>1. computed[q] \in Nat
      <4>1. Types
        BY DEF IInv
      <4> QED
        BY <4>1, TypesAre
    <3>2. computed'[r] \in Nat /\ computed[r] \in Nat /\ e.n \in Nat
      BY DEF RanOK, StepOK
    <3> QED
      BY <1>4, <3>1, <3>2
  <2>3. Lo(1)' = computed'[q] /\ Hi(1)' = computed'[q] /\ Src(1)' = col'[q]
    <3>1. queue'[1].req = q
      BY <1>2, <1>6, <2>1
    <3> QED
      BY <1>5, <2>2, <3>1 DEF Lo, Hi, Src
  <2>4. CASE q = r
    <3>1. Follows(2)
      BY <2>1, <2>4 DEF Follows
    <3>2. Lo(2) = computed[r] + Least(e) /\ Hi(2) = computed[r] + e.n /\ Src(2) = c
      BY <2>1, <2>4, <3>1 DEF Lo, Hi, Src
    <3>3. /\ computed[r] + Least(e) <= computed'[r] /\ computed'[r] <= computed[r] + e.n
          /\ col'[r] = c /\ e.decode \in BOOLEAN
          /\ ~e.decode => computed'[r] = computed[r] + e.n
      BY DEF RanOK, StepOK
    <3>4. Exact(2) => ~e.decode
      BY <3>1 DEF Exact
    <3>5. Least(e) \in Nat /\ (~e.decode => Least(e) = e.n)
      BY <2>2 DEF Least
    <3> QED
      <4>1. PICK n \in Nat, m \in Nat, x \in Nat, y \in Nat :
              n = computed[r] /\ m = computed'[r] /\ x = e.n /\ y = Least(e)
        BY <2>2, <2>4, <3>5
      <4>2. Lo(2) = n + y /\ Hi(2) = n + x /\ Lo(1)' = m /\ Hi(1)' = m
        BY <2>3, <2>4, <3>2, <4>1
      <4>3. n + y <= m /\ m <= n + x /\ (~e.decode => m = n + x /\ y = x)
        BY <3>3, <3>5, <4>1
      <4>4. n + y \in Nat /\ n + x \in Nat
        OBVIOUS
      <4>5. Src(1)' = Src(2) /\ Lo(1)' = computed'[queue[2].req]
        BY <2>1, <2>3, <2>4, <3>2, <3>3
      <4> QED
        BY <3>4, <4>2, <4>3, <4>4, <4>5
  <2>5. CASE q # r
    <3>1. ~Follows(2)
      BY <2>1, <2>5 DEF Follows
    <3>2. Lo(2) = computed[q] /\ Hi(2) = computed[q] /\ Src(2) = col[q]
      BY <2>1, <2>2, <3>1 DEF Lo, Hi, Src
    <3> QED
      BY <1>4, <2>1, <2>2, <2>3, <2>5, <3>2
  <2> QED
    BY <2>4, <2>5
<1> QED
  BY <1>2, <1>4, <1>5, <1>6 DEF MovedUp

LEMMA WritesShift ==
    ASSUME IInv, Len(queue) = 2, NEW e, NEW r, NEW c, MovedUp(e, r, c)
    PROVE  /\ Writes(1)' \subseteq Writes(2)
           /\ \A b, p : Makes(2, b, p) => Makes(1, b, p)'
<1>1. queue'[1] = queue[2]
  BY DEF MovedUp
<1>2. /\ Lo(1)' \in Nat /\ Lo(2) \in Nat /\ Lo(2) <= Lo(1)' /\ (Exact(2) => Lo(1)' = Lo(2))
      /\ ~Follows(1)'
  BY DEF MovedUp
<1>3. \A j \in 1 .. Len(queue[2].t) : End(j) \in Nat
  <2>1. Len(queue[2].t) \in Nat
    BY QueueIs DEF IInv
  <2> QED
    BY <2>1, EndIs
<1>4. PICK x \in Nat, y \in Nat : x = Lo(1)' /\ y = Lo(2)
  BY <1>2
<1>5. Writes(1)' = {b \in Slots : \E j \in 1 .. Len(queue[2].t) : queue[2].t[j] = b /\ End(j) > x}
  BY <1>1, <1>4 DEF Writes
<1>6. Writes(2) = {b \in Slots : \E j \in 1 .. Len(queue[2].t) : queue[2].t[j] = b /\ End(j) > y}
  BY <1>4 DEF Writes
<1>7. Writes(1)' \subseteq Writes(2)
  BY <1>2, <1>3, <1>4, <1>5, <1>6
<1>8. ASSUME NEW b, NEW p, Makes(2, b, p) PROVE Makes(1, b, p)'
  <2>1. Exact(1)'
    BY <1>2 DEF Exact
  <2> QED
    BY <1>1, <1>2, <1>8, <2>1 DEF Makes
<1> QED
  BY <1>7, <1>8

LEMMA GoodShifts ==
    ASSUME IInv, queue # << >>,
           NEW e, e = queue[1], NEW r, r = e.req, NEW c, c = Column(computed[r] + e.n),
           RanOK(e, r, c), StepOK(e, r, c), MovedUp(e, r, c),
           NEW b \in Slots, NEW p \in Nat, NEW k \in 1 .. Len(queue), Good(k, b, p)
    PROVE  Good(k - 1, b, p)'
<1>1. Len(queue) \in 1 .. 2
  BY QueueIs DEF IInv
<1>2. b \notin Writes(1) => slot'[b] = slot[b]
  BY DEF RanOK
<1>3. Makes(1, b, p) => slot'[b] = State(p)
  <2> SUFFICES ASSUME Makes(1, b, p) PROVE slot'[b] = State(p)
    OBVIOUS
  <2>1. PICK j \in 1 .. Len(e.t) : e.t[j] = b /\ p = End(j)
    BY DEF Makes
  <2>2. computed[r] < p /\ p = computed[r] + Least(e)
    BY DEF Makes, MovedUp, StepOK
  <2>3. b # Null
    BY Sizes
  <2>4. computed[r] < End(j) /\ End(j) <= computed'[r] /\ e.t[j] # Null
    BY <2>1, <2>2, <2>3 DEF RanOK
  <2> QED
    BY <2>1, <2>4 DEF RanOK
<1>4. CASE k = 1
  <2>1. slot'[b] = State(p)
    BY <1>2, <1>3, <1>4 DEF Good
  <2> QED
    BY <1>4, <2>1 DEF Good
<1>5. CASE k = 2
  <2>1. Len(queue) = 2
    BY <1>1, <1>5
  <2>2. Writes(1)' \subseteq Writes(2) /\ (Makes(2, b, p) => Makes(1, b, p)')
    BY <2>1, WritesShift
  <2>3. \/ slot[b] = State(p) /\ b \notin Writes(1) /\ b \notin Writes(2)
        \/ Makes(1, b, p) /\ b \notin Writes(2)
        \/ Makes(2, b, p)
    BY <1>5 DEF Good
  <2>4. (slot'[b] = State(p) /\ b \notin Writes(1)') \/ Makes(1, b, p)'
    BY <1>2, <1>3, <2>2, <2>3
  <2> QED
    BY <1>5, <2>4 DEF Good
<1>6. k = 1 \/ k = 2
  <2>1. PICK l \in 1 .. 2 : l = Len(queue)
    BY <1>1
  <2>2. k \in 1 .. l
    BY <2>1
  <2> QED
    BY <2>2
<1> QED
  BY <1>4, <1>5, <1>6

-----------------------------------------------------------------------------
(* A step runs: the entries of the queue and the sources.                  *)

LEMMA EntryMoves ==
    ASSUME IInv, Len(queue) = 2,
           NEW e, e = queue[1], NEW r, r = e.req, NEW c, c = Column(computed[r] + e.n),
           RanOK(e, r, c), StepOK(e, r, c), MovedUp(e, r, c)
    PROVE  EntryOK(1)'
<1>1. PICK q \in Requests, t \in Tables, n \in Nat :
         q = queue[2].req /\ t = queue[2].t /\ n = queue[2].n /\ n > 0
  BY QueueIs, Sizes DEF IInv
<1>2. /\ queue'[1] = queue[2] /\ queue[2].decode \in BOOLEAN
  BY QueueIs DEF IInv, MovedUp
<1>3. PICK lo \in Nat, lo1 \in Nat, hi \in Nat :
         /\ lo = Lo(2) /\ lo1 = Lo(1)' /\ hi = Hi(2) /\ lo <= lo1 /\ lo1 <= hi
         /\ Hi(1)' = lo1 /\ (Exact(2) => lo1 = lo)
  BY DEF MovedUp
<1>4. PICK s \in Nat : s = Src(2) /\ s = Src(1)'
  <2>1. Src(1)' = Src(2)
    BY DEF MovedUp
  <2>2. Src(2) \in Nat
    <3>1. col[q] \in Nat /\ computed[q] \in Nat
      BY TypesAre DEF IInv
    <3>2. e.n \in Nat
      BY DEF StepOK
    <3>3. Column(computed[q] + e.n) \in Nat
      BY <3>1, <3>2, Columns
    <3> QED
      BY <1>1, <3>1, <3>3 DEF Src
  <2> QED
    BY <2>1, <2>2
<1>5. EntryOK(2)
  BY DEF IInv
<1>6. /\ Distinct(t) /\ hi + n <= MaxLen /\ hi <= End(s) /\ s <= Column(lo + n)
      /\ Column(hi + n) + 1 <= Len(t) /\ (s > 0 => t[s] # Null)
      /\ queue[2].decode => n = 1 + Drafts /\ lo > 0 /\ Full(t, s)
      /\ ~queue[2].decode =>
           LET k == Column(lo + n)
           IN  /\ Exact(2) /\ End(s) = lo /\ Len(t) = k + 1 /\ t[k] # Null /\ t[k + 1] # Null
               /\ \A j \in s + 1 .. k - 1 : t[j] = Null
               /\ ~Follows(2) => nacc[q] = 1
  BY <1>1, <1>3, <1>4, <1>5 DEF EntryOK
<1>7. /\ lo1 + n <= MaxLen /\ lo1 <= End(s) /\ s <= Column(lo1 + n)
      /\ Column(lo1 + n) + 1 <= Len(t)
  <2>1. PICK x \in Nat, y \in Nat, z \in Nat :
           x = lo + n /\ y = lo1 + n /\ z = hi + n /\ x <= y /\ y <= z
    <3>1. lo + n \in Nat /\ lo1 + n \in Nat /\ hi + n \in Nat /\ lo + n <= lo1 + n /\ lo1 + n <= hi + n
      BY <1>3
    <3> QED
      BY <3>1
  <2>2. Column(x) <= Column(y) /\ Column(y) <= Column(z)
    BY <2>1, ColumnGrows
  <2>3. Column(x) \in Nat /\ Column(y) \in Nat /\ Column(z) \in Nat
    BY <2>1, Columns
  <2>4. PICK a \in Nat, b \in Nat, d \in Nat, l \in Nat, w \in Nat, k \in Nat :
           /\ a = Column(x) /\ b = Column(y) /\ d = Column(z) /\ l = Len(t) /\ w = End(s) /\ k = MaxLen
    <3>1. End(s) \in Nat
      BY EndIs
    <3>2. MaxLen \in Nat /\ Len(t) \in Nat
      BY Sizes DEF Tables
    <3> QED
      BY <2>3, <3>1, <3>2
  <2>5. z <= k /\ hi <= w /\ s <= a /\ d + 1 <= l /\ a <= b /\ b <= d /\ y <= z /\ lo1 <= hi
    BY <1>3, <1>6, <2>1, <2>2, <2>4
  <2>6. y <= k /\ lo1 <= w /\ s <= b /\ b + 1 <= l
    <3>1. hi \in Nat /\ lo1 \in Nat
      BY <1>3
    <3>2. y <= k
      BY <2>1, <2>4, <2>5
    <3>3. lo1 <= w
      BY <2>4, <2>5, <3>1
    <3>4. s <= b /\ b + 1 <= l
      <4>1. PICK i \in Nat : i = s
        BY <1>3
      <4>2. i <= a /\ a <= b /\ b <= d /\ d + 1 <= l
        BY <2>5, <4>1
      <4>3. i <= b /\ b + 1 <= l
        BY <4>2
      <4> QED
        BY <4>1, <4>3
    <3> QED
      BY <3>2, <3>3, <3>4
  <2> QED
    BY <2>1, <2>4, <2>6
<1>8. queue[2].decode => n = 1 + Drafts /\ lo1 > 0 /\ Full(t, s)
  BY <1>3, <1>6
<1>9. ~queue[2].decode => lo1 = lo /\ nacc'[q] = 1 /\ Exact(1)'
  <2> SUFFICES ASSUME ~queue[2].decode PROVE lo1 = lo /\ nacc'[q] = 1 /\ Exact(1)'
    OBVIOUS
  <2>1. Exact(2) /\ lo1 = lo /\ Exact(1)'
    BY <1>3, <1>6 DEF MovedUp, Exact
  <2>2. CASE q = r
    <3>1. ~e.decode
      BY <1>1, <2>1, <2>2 DEF Exact, Follows
    <3> QED
      BY <2>1, <2>2, <3>1 DEF RanOK
  <2>3. CASE q # r
    <3>1. ~Follows(2)
      BY <1>1, <2>3 DEF Follows
    <3> QED
      BY <1>6, <2>1, <2>3, <3>1 DEF MovedUp
  <2> QED
    BY <2>2, <2>3
<1>10. ~queue[2].decode =>
           LET k == Column(lo1 + n)
           IN  /\ Exact(1)' /\ End(s) = lo1 /\ Len(t) = k + 1 /\ t[k] # Null /\ t[k + 1] # Null
               /\ \A j \in s + 1 .. k - 1 : t[j] = Null
               /\ nacc'[q] = 1
  BY <1>6, <1>9
<1>11. queue'[1].t = t /\ queue'[1].n = n /\ queue'[1].req = q /\ queue'[1].decode = queue[2].decode
  BY <1>1, <1>2
<1> QED
  BY <1>3, <1>4, <1>6, <1>7, <1>8, <1>10, <1>11 DEF EntryOK

-----------------------------------------------------------------------------
(* A step runs: what the requests have.                                    *)

LEMMA CertainIs ==
    ASSUME Types, NEW r \in Requests
    PROVE  Certain(r) \in Nat /\ computed[r] <= Certain(r)
<1>1. computed[r] \in Nat
  BY TypesAre
<1>2. \A i \in 1 .. Len(queue) : Least(queue[i]) \in Nat
  BY QueueIs, Sizes DEF Least
<1>3. Len(queue) \in 0 .. 2
  BY QueueIs
<1>4. Len(queue) >= 1 => Least(queue[1]) \in Nat
  BY <1>2, <1>3
<1>5. Len(queue) >= 2 => Least(queue[2]) \in Nat
  BY <1>2, <1>3
<1>6. PICK a \in Nat : a = IF Len(queue) >= 1 /\ queue[1].req = r THEN Least(queue[1]) ELSE 0
  BY <1>4
<1>7. PICK b \in Nat : b = IF Len(queue) >= 2 /\ queue[2].req = r /\ Exact(2)
                           THEN Least(queue[2]) ELSE 0
  BY <1>5
<1>8. Certain(r) = computed[r] + a + b
  BY <1>6, <1>7 DEF Certain
<1> QED
  BY <1>1, <1>8

\* What a step has left to run, and may have left, of q.
MovedCertain(e, r, q) ==
    /\ Certain(q) \in Nat /\ Certain(q)' \in Nat /\ Certain(q) <= Certain(q)'
    /\ q # r => Certain(q)' = Certain(q)
    /\ ~(Len(queue) = 2 /\ queue[2].req = r) => Certain(r)' = computed'[r]
    /\ Len(queue) = 2 /\ queue[2].req = r =>
         /\ Certain(r)' = computed'[r] + Least(queue[2])
         /\ ~e.decode => Certain(r)' = Certain(r)

LEMMA CertainGrows ==
    ASSUME IInv, queue # << >>,
           NEW e, e = queue[1], NEW r, r = e.req, NEW c, c = Column(computed[r] + e.n),
           RanOK(e, r, c), StepOK(e, r, c), MovedUp(e, r, c), NEW q \in Requests
    PROVE  MovedCertain(e, r, q)
<1>1. PICK l \in 1 .. 2 : l = Len(queue)
  <2>1. Len(queue) \in 0 .. 2 /\ Len(queue) >= 1
    BY QueueIs DEF IInv
  <2> QED
    BY <2>1
<1>2. /\ Len(queue') = l - 1 /\ (l = 2 => queue'[1] = queue[2]) /\ r \in Requests
      /\ ~Follows(1)' /\ (q # r => computed'[q] = computed[q])
  BY <1>1 DEF MovedUp, StepOK
<1>3. PICK n \in Nat, m \in Nat, x \in Nat :
         n = computed[q] /\ m = computed'[q] /\ x = Least(e)
  <2>1. computed[q] \in Nat
    BY TypesAre DEF IInv
  <2>2. computed'[q] \in Nat
    BY <1>2, <2>1 DEF RanOK
  <2>3. Least(e) \in Nat
    BY DEF StepOK, Least
  <2> QED
    BY <2>1, <2>2, <2>3
<1>4. PICK y \in Nat : l = 2 => y = Least(queue[2])
  <2>1. CASE l = 2
    <3>1. queue[2].n \in Nat
      BY <1>1, <2>1, QueueIs, Sizes DEF IInv
    <3>2. Least(queue[2]) \in Nat
      BY <3>1 DEF Least
    <3> QED
      BY <3>2
  <2>2. CASE l # 2
    BY <2>2
  <2> QED
    BY <2>1, <2>2
<1>5. CASE l = 1
  <2>1. Certain(q) = n + (IF q = r THEN x ELSE 0)
    BY <1>1, <1>3, <1>5 DEF Certain
  <2>2. Len(queue') = 0
    BY <1>2, <1>5
  <2>3. Certain(q)' = m
    BY <2>2, <1>3 DEF Certain
  <2>4. q # r => m = n
    BY <1>2, <1>3
  <2>5. q = r => n + x <= m
    BY <1>3 DEF RanOK
  <2>6. Certain(q) <= Certain(q)' /\ (q # r => Certain(q)' = Certain(q)) /\ Certain(q) \in Nat
    BY <2>1, <2>3, <2>4, <2>5
  <2>7. Certain(r)' = computed'[r]
    <3>1. computed'[r] \in Nat
      BY DEF RanOK
    <3> QED
      BY <2>2, <3>1 DEF Certain
  <2> QED
    BY <1>1, <1>5, <2>3, <2>6, <2>7 DEF MovedCertain
<1>6. CASE l = 2
  <2>1. Exact(1)' /\ Len(queue') = 1
    BY <1>2, <1>6 DEF Exact
  <2>2. ASSUME NEW p \in Requests
        PROVE  Certain(p)' = computed'[p] + (IF queue[2].req = p THEN y ELSE 0)
    <3>2. computed'[p] \in Nat
      <4>1. computed[p] \in Nat
        BY TypesAre DEF IInv
      <4> QED
        BY <4>1 DEF RanOK, MovedUp
    <3>3. (Least(queue[1]))' = y
      BY <1>2, <1>4, <1>6 DEF Least
    <3>4. Certain(p)' = computed'[p] + (IF queue[2].req = p THEN (Least(queue[1]))' ELSE 0) + 0
      BY <1>2, <1>6, <2>1 DEF Certain
    <3> QED
      BY <3>2, <3>3, <3>4
  <2>3. Certain(q) = n + (IF q = r THEN x ELSE 0) + (IF queue[2].req = q /\ Exact(2) THEN y ELSE 0)
    BY <1>1, <1>3, <1>4, <1>6 DEF Certain
  <2>4. Certain(q)' = m + (IF queue[2].req = q THEN y ELSE 0)
    BY <1>3, <2>2
  <2>5. q # r => Exact(2) \/ queue[2].req # q
    BY <1>2, <1>3 DEF Exact, Follows
  <2>6. q = r => n + x <= m
    BY <1>3 DEF RanOK
  <2>7. q # r => m = n
    BY <1>2, <1>3
  <2>8. Certain(q) \in Nat /\ Certain(q)' \in Nat /\ Certain(q) <= Certain(q)'
    <3>1. CASE q = r
      BY <2>3, <2>4, <2>6, <3>1
    <3>2. CASE q # r
      BY <2>3, <2>4, <2>5, <2>7, <3>2
    <3> QED
      BY <3>1, <3>2
  <2>9. q # r => Certain(q)' = Certain(q)
    <3> SUFFICES ASSUME q # r PROVE Certain(q)' = Certain(q)
      OBVIOUS
    <3>1. m = n /\ Certain(q) = n + 0 + (IF queue[2].req = q THEN y ELSE 0)
      BY <2>3, <2>5, <2>7
    <3> QED
      BY <2>4, <3>1
  <2>10. r \in Requests /\ computed'[r] \in Nat /\ computed[r] \in Nat
    BY DEF StepOK, RanOK
  <2>11. Certain(r)' = computed'[r] + (IF queue[2].req = r THEN y ELSE 0)
    BY <2>2, <2>10
  <2>12. queue[2].req = r /\ ~e.decode => Certain(r)' = Certain(r)
    <3> SUFFICES ASSUME queue[2].req = r, ~e.decode PROVE Certain(r)' = Certain(r)
      OBVIOUS
    <3>1. Exact(2)
      BY DEF Exact
    <3>2. Certain(r) = computed[r] + x + y
      BY <1>1, <1>3, <1>4, <1>6, <3>1 DEF Certain
    <3>3. computed'[r] = computed[r] + x
      BY <1>3 DEF RanOK, Least
    <3> QED
      BY <2>10, <2>11, <3>2, <3>3
  <2> QED
    BY <1>1, <1>4, <1>6, <2>8, <2>9, <2>10, <2>11, <2>12 DEF MovedCertain
<1> QED
  BY <1>1, <1>5, <1>6

LEMMA SumsAre ==
    ASSUME Types, NEW r \in Requests
    PROVE  /\ QueuedTokens(r) \in Nat /\ DoneTokens(r) \in Nat /\ DoneAccepted(r) \in Nat
           /\ DoneAccepted(r) <= DoneTokens(r)
<1>1. Len(queue) \in 0 .. 2 /\ Len(done) \in 0 .. 2 /\ MaxLen \in Nat
  BY QueueIs, Sizes
<1>2. PICK a \in Nat : a = IF Len(queue) >= 1 /\ queue[1].req = r THEN queue[1].n ELSE 0
  <2>1. Len(queue) >= 1 => queue[1].n \in Nat
    BY <1>1, QueueIs
  <2> QED
    BY <2>1
<1>3. PICK b \in Nat : b = IF Len(queue) >= 2 /\ queue[2].req = r THEN queue[2].n ELSE 0
  <2>1. Len(queue) >= 2 => queue[2].n \in Nat
    BY <1>1, QueueIs
  <2> QED
    BY <2>1
<1>4. PICK x \in Nat, y \in Nat :
         /\ x = IF Len(done) >= 1 /\ done[1].req = r THEN done[1].n ELSE 0
         /\ y = IF Len(done) >= 1 /\ done[1].req = r THEN done[1].accepted ELSE 0
         /\ y <= x
  <2>1. Len(done) >= 1 => done[1].n \in Nat /\ done[1].accepted \in Nat /\ done[1].accepted <= done[1].n
    BY <1>1, QueueIs
  <2> QED
    BY <2>1
<1>5. PICK z \in Nat, w \in Nat :
         /\ z = IF Len(done) >= 2 /\ done[2].req = r THEN done[2].n ELSE 0
         /\ w = IF Len(done) >= 2 /\ done[2].req = r THEN done[2].accepted ELSE 0
         /\ w <= z
  <2>1. Len(done) >= 2 => done[2].n \in Nat /\ done[2].accepted \in Nat /\ done[2].accepted <= done[2].n
    BY <1>1, QueueIs
  <2> QED
    BY <2>1
<1>6. QueuedTokens(r) = a + b /\ DoneTokens(r) = x + z /\ DoneAccepted(r) = y + w
  <2>1. QueuedTokens(r) = a + b
    BY <1>2, <1>3 DEF QueuedTokens
  <2>2. DoneTokens(r) = x + z
    BY <1>4, <1>5 DEF DoneTokens
  <2>3. DoneAccepted(r) = y + w
    BY <1>4, <1>5 DEF DoneAccepted
  <2> QED
    BY <2>1, <2>2, <2>3
<1>7. y <= x /\ w <= z
  BY <1>4, <1>5
<1> QED
  BY <1>6, <1>7

\* What is queued, done and accepted of q, after a step of r.
MovedSums(e, r, q) ==
    /\ q # r => /\ QueuedTokens(q)' = QueuedTokens(q) /\ DoneTokens(q)' = DoneTokens(q)
                /\ DoneAccepted(q)' = DoneAccepted(q)
    /\ q = r => /\ QueuedTokens(r)' = QueuedTokens(r) - e.n
                /\ DoneTokens(r)' = DoneTokens(r) + e.n
                /\ DoneAccepted(r)' = DoneAccepted(r) + (computed'[r] - computed[r])

LEMMA SumsMove ==
    ASSUME IInv, queue # << >>,
           NEW e, e = queue[1], NEW r, r = e.req, NEW c, c = Column(computed[r] + e.n),
           RanOK(e, r, c), StepOK(e, r, c), MovedUp(e, r, c), NEW q \in Requests
    PROVE  MovedSums(e, r, q)
<1>1. PICK l \in 1 .. 2 : l = Len(queue)
  <2>1. Len(queue) \in 0 .. 2 /\ Len(queue) >= 1
    BY QueueIs DEF IInv
  <2> QED
    BY <2>1
<1>2. PICK d \in 0 .. 1 : d = Len(done)
  <2>1. Len(queue) + Len(done) <= 2 /\ Len(done) \in 0 .. 2
    BY QueueIs DEF IInv
  <2> QED
    BY <1>1, <2>1
<1>3. Len(queue') = l - 1 /\ (l = 2 => queue'[1] = queue[2])
  BY <1>1 DEF MovedUp
<1>4. PICK u \in Nat, v \in Nat : u = e.n /\ v = computed'[r] - computed[r]
  <2>1. e.n \in Nat /\ computed[r] \in Nat /\ computed'[r] \in Nat /\ Least(e) \in Nat
    BY DEF StepOK, RanOK, Least
  <2>2. computed[r] + Least(e) <= computed'[r]
    BY DEF RanOK
  <2>3. computed'[r] - computed[r] \in Nat
    BY <2>1, <2>2
  <2> QED
    BY <2>1, <2>3
<1>5. PICK o : o = [req |-> r, n |-> u, accepted |-> v]
  OBVIOUS
<1>6. /\ Len(done') = d + 1 /\ done'[d + 1] = o /\ (d = 1 => done'[1] = done[1])
  <2>1. done' = Append(done, o) /\ done \in Seq(Outcome)
    BY <1>4, <1>5 DEF RanOK, IInv, Types
  <2> QED
    BY <1>2, <2>1
<1>7. o.req = r /\ o.n = u /\ o.accepted = v
  BY <1>5
<1>8. PICK a \in Nat : l = 2 => a = queue[2].n
  <2>1. l = 2 => queue[2].n \in Nat
    BY <1>1, QueueIs, Sizes DEF IInv
  <2> QED
    BY <2>1
<1>9. PICK x \in Nat, y \in Nat : d = 1 => x = done[1].n /\ y = done[1].accepted
  <2>1. d = 1 => done[1].n \in Nat /\ done[1].accepted \in Nat
    BY <1>2, QueueIs, Sizes DEF IInv
  <2> QED
    BY <2>1
<1>10. QueuedTokens(q) = (IF q = r THEN u ELSE 0) + (IF l = 2 /\ queue[2].req = q THEN a ELSE 0)
  BY <1>1, <1>4, <1>8 DEF QueuedTokens
<1>11. QueuedTokens(q)' = IF l = 2 /\ queue[2].req = q THEN a ELSE 0
  BY <1>1, <1>3, <1>8 DEF QueuedTokens
<1>12. /\ DoneTokens(q) = IF d = 1 /\ done[1].req = q THEN x ELSE 0
       /\ DoneAccepted(q) = IF d = 1 /\ done[1].req = q THEN y ELSE 0
  BY <1>2, <1>9 DEF DoneTokens, DoneAccepted
<1>13. /\ DoneTokens(q)' = (IF d = 1 /\ done[1].req = q THEN x ELSE 0) + (IF q = r THEN u ELSE 0)
       /\ DoneAccepted(q)' = (IF d = 1 /\ done[1].req = q THEN y ELSE 0) + (IF q = r THEN v ELSE 0)
  <2>1. CASE d = 0
    <3>1. Len(done') = 1 /\ done'[1].req = r /\ done'[1].n = u /\ done'[1].accepted = v
      BY <1>6, <1>7, <2>1
    <3>2. DoneTokens(q)' = IF q = r THEN u ELSE 0
      BY <3>1 DEF DoneTokens
    <3>3. DoneAccepted(q)' = IF q = r THEN v ELSE 0
      BY <3>1 DEF DoneAccepted
    <3> QED
      BY <2>1, <3>2, <3>3
  <2>2. CASE d = 1
    <3>1. /\ Len(done') = 2 /\ done'[1] = done[1]
          /\ done'[2].req = r /\ done'[2].n = u /\ done'[2].accepted = v
      BY <1>6, <1>7, <2>2
    <3>2. DoneTokens(q)' = (IF done[1].req = q THEN x ELSE 0) + (IF q = r THEN u ELSE 0)
      BY <1>9, <2>2, <3>1 DEF DoneTokens
    <3>3. DoneAccepted(q)' = (IF done[1].req = q THEN y ELSE 0) + (IF q = r THEN v ELSE 0)
      BY <1>9, <2>2, <3>1 DEF DoneAccepted
    <3> QED
      BY <2>2, <3>2, <3>3
  <2> QED
    BY <1>2, <2>1, <2>2
<1>14. CASE q = r
  BY <1>4, <1>10, <1>11, <1>12, <1>13, <1>14 DEF MovedSums
<1>15. CASE q # r
  <2>1. QueuedTokens(q)' = QueuedTokens(q)
    BY <1>10, <1>11, <1>15
  <2>2. DoneTokens(q)' = DoneTokens(q) /\ DoneAccepted(q)' = DoneAccepted(q)
    BY <1>12, <1>13, <1>15
  <2> QED
    BY <1>15, <2>1, <2>2 DEF MovedSums
<1> QED
  BY <1>14, <1>15

LEMMA RanTables ==
    ASSUME IInv, queue # << >>,
           NEW e, e = queue[1], NEW r, r = e.req, NEW c, c = Column(computed[r] + e.n),
           RanOK(e, r, c), StepOK(e, r, c), MovedUp(e, r, c),
           NEW q \in Requests, TableOK(q)
    PROVE  TableOK(q)'
<1>1. PICK l \in 1 .. 2 : l = Len(queue)
  <2>1. Len(queue) \in 0 .. 2 /\ Len(queue) >= 1
    BY QueueIs DEF IInv
  <2> QED
    BY <2>1
<1>2. /\ Len(queue') = l - 1 /\ (l = 2 => queue'[1] = queue[2]) /\ r \in Requests
      /\ q # r => computed'[q] = computed[q] /\ nacc'[q] = nacc[q] /\ col'[q] = col[q]
  BY <1>1 DEF MovedUp, StepOK
<1>3. bt' = bt /\ known' = known /\ flight' = flight /\ prompt' = prompt /\ begun' = begun
  BY DEF RanOK, schedVars
<1>4. /\ Distinct(bt[q]) /\ TotalsOK(q) /\ LastOK(q) /\ IdleOK(q) /\ FreshOK(q)
      /\ PromptOK(q) /\ GrownOK(q)
  BY DEF TableOK
<1>5. MovedSums(e, r, q) /\ MovedCertain(e, r, q)
  BY SumsMove, CertainGrows
<1>6. /\ Queued(q)' <=> l = 2 /\ queue[2].req = q
      /\ Queued(q) <=> q = r \/ (l = 2 /\ queue[2].req = q)
  <2>1. Queued(q)' <=> \E i \in 1 .. l - 1 : queue'[i].req = q
    BY <1>2 DEF Queued
  <2>2. Queued(q) <=> \E i \in 1 .. l : queue[i].req = q
    BY <1>1 DEF Queued
  <2>3. CASE l = 1
    BY <2>1, <2>2, <2>3
  <2>4. CASE l = 2
    BY <1>2, <2>1, <2>2, <2>4
  <2> QED
    BY <2>3, <2>4
<1>7. Distinct(bt[q])'
  BY <1>3, <1>4 DEF Distinct
<1>8. TotalsOK(q)'
  <2>0. /\ QueuedTokens(q) \in Nat /\ DoneTokens(q) \in Nat /\ DoneAccepted(q) \in Nat
        /\ computed[q] \in Nat /\ known[q] \in Nat
    BY SumsAre, TypesAre DEF IInv
  <2>1. /\ known[q] = computed[q] + QueuedTokens(q) + DoneTokens(q) - DoneAccepted(q)
        /\ flight[q] = QueuedTokens(q) + DoneTokens(q) /\ Committed(q) >= 0
    BY <1>4 DEF TotalsOK
  <2>2. Committed(q)' = Committed(q)
    BY <1>3 DEF Committed
  <2>3. /\ known[q] = computed'[q] + QueuedTokens(q)' + DoneTokens(q)' - DoneAccepted(q)'
        /\ flight[q] = QueuedTokens(q)' + DoneTokens(q)'
    <3>1. CASE q = r
      <4>1. e.n \in Nat /\ computed[r] \in Nat /\ computed'[r] \in Nat
        BY DEF StepOK, RanOK
      <4>2. /\ QueuedTokens(r)' = QueuedTokens(r) - e.n
            /\ DoneTokens(r)' = DoneTokens(r) + e.n
            /\ DoneAccepted(r)' = DoneAccepted(r) + (computed'[r] - computed[r])
        BY <1>5, <3>1 DEF MovedSums
      <4>3. /\ known[r] = computed[r] + QueuedTokens(r) + DoneTokens(r) - DoneAccepted(r)
            /\ flight[r] = QueuedTokens(r) + DoneTokens(r)
            /\ QueuedTokens(r) \in Nat /\ DoneTokens(r) \in Nat /\ DoneAccepted(r) \in Nat
        BY <2>0, <2>1, <3>1
      <4>4. /\ known[r] = computed'[r] + QueuedTokens(r)' + DoneTokens(r)' - DoneAccepted(r)'
            /\ flight[r] = QueuedTokens(r)' + DoneTokens(r)'
        <5>1. PICK k \in Nat, a \in Nat, b \in Nat, d \in Nat, f \in Nat, g \in Nat :
                 /\ k = e.n /\ a = computed[r] /\ b = computed'[r] /\ d = QueuedTokens(r)
                 /\ f = DoneTokens(r) /\ g = DoneAccepted(r)
          BY <4>1, <4>3
        <5>2. /\ QueuedTokens(r)' = d - k /\ DoneTokens(r)' = f + k
              /\ DoneAccepted(r)' = g + (b - a)
          BY <4>2, <5>1
        <5>3. known[r] = a + d + f - g /\ flight[r] = d + f
          BY <4>3, <5>1
        <5>4. a + d + f - g = b + (d - k) + (f + k) - (g + (b - a)) /\ d + f = (d - k) + (f + k)
          OBVIOUS
        <5> QED
          BY <5>1, <5>2, <5>3, <5>4
      <4> QED
        BY <3>1, <4>4, Zenon
    <3>2. CASE q # r
      BY <1>2, <1>5, <2>1, <3>2 DEF MovedSums
    <3> QED
      BY <3>1, <3>2
  <2> QED
    BY <1>3, <2>1, <2>2, <2>3 DEF TotalsOK
<1>9. LastOK(q)'
  <2> SUFFICES ASSUME NEW i \in 1 .. l - 1, queue'[i].req = q PROVE bt[q] = queue'[i].t
    BY <1>2, <1>3 DEF LastOK
  <2>1. i = 1 /\ l = 2
    BY <1>1
  <2>2. queue[2].req = q /\ 2 \in 1 .. Len(queue) /\ \A h \in 2 + 1 .. Len(queue) : queue[h].req # q
    BY <1>1, <1>2, <2>1
  <2>3. bt[q] = queue[2].t
    BY <1>4, <2>2 DEF LastOK
  <2> QED
    BY <1>2, <2>1, <2>3
<1>10. q = r /\ ~Queued(q)' => bt[r] = e.t
  <2> SUFFICES ASSUME q = r, ~Queued(q)' PROVE bt[r] = e.t
    OBVIOUS
  <2>1. 1 \in 1 .. Len(queue) /\ \A h \in 1 + 1 .. Len(queue) : queue[h].req # r
    BY <1>1, <1>6
  <2> QED
    BY <1>4, <2>1 DEF LastOK
<1>11. q # r /\ ~Queued(q)' => ~Queued(q)
  BY <1>6
<1>12. IdleOK(q)'
  <2> SUFFICES ASSUME ~Queued(q)'
               PROVE  /\ computed'[q] <= End(col'[q]) /\ col'[q] <= Column(computed'[q] + Drafts)
                      /\ col'[q] <= Len(bt[q]) /\ (col'[q] > 0 => bt[q][col'[q]] # Null)
                      /\ q \in begun => col'[q] > 0 /\ Full(bt[q], col'[q]) /\ col'[q] < Len(bt[q])
    BY <1>3 DEF IdleOK, Full
  <2>1. CASE q # r
    BY <1>2, <1>4, <1>11, <2>1 DEF IdleOK
  <2>2. CASE q = r
    <3>1. PICK t \in Tables : t = e.t /\ t = bt[q]
      <4>1. e.t \in Tables
        BY DEF StepOK
      <4> QED
        BY <1>10, <2>2, <4>1
    <3>2. PICK n \in Nat, x \in Nat, m \in Nat : n = computed[r] /\ x = e.n /\ m = computed'[r]
      <4>1. computed[r] \in Nat /\ e.n \in Nat
        BY DEF StepOK
      <4>2. computed'[r] \in Nat
        BY DEF RanOK
      <4> QED
        BY <4>1, <4>2
    <3>3. c \in Nat /\ 0 < c /\ c + 1 <= Len(t) /\ t[c] # Null /\ t[c + 1] # Null /\ col'[r] = c
      BY <3>1 DEF StepOK, RanOK
    <3>4. PICK y \in Nat : y = n + x /\ c = Column(y)
      BY <3>2
    <3>5. m <= y /\ y <= m + Drafts
      <4>1. n + Least(e) <= m /\ m <= n + x /\ (~e.decode => m = n + x)
        BY <3>2 DEF RanOK
      <4>2. e.decode => x = 1 + Drafts
        BY <3>2 DEF StepOK
      <4> QED
        <5>1. PICK k \in Nat : k = Drafts
          BY Sizes
        <5>2. e.decode => n + 1 <= m /\ m <= n + x /\ x = 1 + k
          BY <4>1, <4>2, <5>1 DEF Least
        <5>3. CASE e.decode
          <6>1. y <= m + k
            BY <3>4, <5>2, <5>3
          <6> QED
            BY <3>4, <5>1, <5>2, <5>3, <6>1
        <5>4. CASE ~e.decode
          <6>1. m = y /\ y <= y + k
            BY <3>4, <4>1, <5>4
          <6> QED
            BY <5>1, <6>1
        <5> QED
          BY <5>3, <5>4
    <3>6. m <= End(c)
      <4>1. y <= End(c) /\ End(c) \in Nat
        BY <3>3, <3>4, Columns, EndIs
      <4> QED
        BY <3>2, <3>5, <4>1
    <3>7. c <= Column(m + Drafts)
      <4>1. m + Drafts \in Nat
        BY Sizes
      <4> QED
        BY <3>4, <3>5, <4>1, ColumnGrows
    <3>8. Full(t, c) /\ Len(t) \in Nat
      <4>1. Len(t) \in Nat /\ col[r] \in Nat /\ col[r] <= c /\ (e.decode => Full(t, col[r]))
            /\ (~e.decode => Len(t) = c + 1)
        BY <3>1 DEF StepOK, Tables
      <4>2. CASE e.decode
        BY <3>3, <4>1, <4>2 DEF Full
      <4>3. CASE ~e.decode
        <5> SUFFICES ASSUME NEW j \in c .. c + 1 PROVE t[j] # Null
          BY <4>1, <4>3 DEF Full
        <5>1. j = c \/ j = c + 1
          BY <3>3
        <5> QED
          BY <3>3, <5>1
      <4> QED
        BY <4>1, <4>2, <4>3
    <3> QED
      BY <2>2, <3>1, <3>2, <3>3, <3>6, <3>7, <3>8
  <2> QED
    BY <2>1, <2>2
<1>13. FreshOK(q)'
  <2> SUFFICES ASSUME q \notin begun
               PROVE  /\ ~Queued(q)' /\ Len(bt[q]) = col'[q] /\ known[q] = computed'[q]
                      /\ known[q] < prompt[q]
    BY <1>3 DEF FreshOK
  <2>1. ~Queued(q) /\ Len(bt[q]) = col[q] /\ known[q] = computed[q] /\ known[q] < prompt[q]
    BY <1>4 DEF FreshOK
  <2>2. q # r /\ ~Queued(q)'
    BY <1>6, <2>1
  <2> QED
    BY <1>2, <2>1, <2>2
<1>14. PromptOK(q)'
  <2> SUFFICES ASSUME known[q] < prompt[q]
               PROVE  /\ q \in begun => Len(bt[q]) = Column(known[q]) + 1
                      /\ \A i \in 1 .. Len(queue') : queue'[i].req = q => ~queue'[i].decode
                      /\ \A i \in 1 .. Len(done') : done'[i].req = q => done'[i].accepted = done'[i].n
                      /\ known[q] = End(Column(known[q]))
                      /\ ~Queued(q)' => nacc'[q] = 1 /\ End(col'[q]) = computed'[q]
    BY <1>3 DEF PromptOK, Column, End
  <2>1. /\ q \in begun => Len(bt[q]) = Column(known[q]) + 1
        /\ \A i \in 1 .. Len(queue) : queue[i].req = q => ~queue[i].decode
        /\ \A i \in 1 .. Len(done) : done[i].req = q => done[i].accepted = done[i].n
        /\ known[q] = End(Column(known[q]))
        /\ ~Queued(q) => nacc[q] = 1 /\ End(col[q]) = computed[q]
    BY <1>4 DEF PromptOK
  <2>2. \A i \in 1 .. Len(queue') : queue'[i].req = q => ~queue'[i].decode
    <3> SUFFICES ASSUME NEW i \in 1 .. l - 1, queue'[i].req = q PROVE ~queue'[i].decode
      BY <1>2
    <3>1. i = 1 /\ l = 2 /\ 2 \in 1 .. Len(queue)
      BY <1>1
    <3> QED
      BY <1>2, <2>1, <3>1
  <2>3. q = r => ~e.decode /\ nacc'[r] = 1 /\ computed'[r] = computed[r] + e.n
    <3>1. 1 \in 1 .. Len(queue)
      BY <1>1
    <3> QED
      BY <2>1, <3>1 DEF RanOK
  <2>4. \A i \in 1 .. Len(done') : done'[i].req = q => done'[i].accepted = done'[i].n
    <3>1. PICK a : a = computed'[r] - computed[r]
      OBVIOUS
    <3>2. q = r => a = e.n
      <4>1. e.n \in Nat /\ computed[r] \in Nat
        BY DEF StepOK
      <4> QED
        BY <2>3, <3>1, <4>1
    <3>3. PICK o : o = [req |-> r, n |-> e.n, accepted |-> a]
      OBVIOUS
    <3>4. done' = Append(done, o) /\ done \in Seq(Outcome) /\ Len(done) \in Nat
      <4>1. done' = Append(done, [req |-> r, n |-> e.n, accepted |-> computed'[r] - computed[r]])
        BY DEF RanOK
      <4>2. done \in Seq(Outcome)
        BY DEF IInv, Types
      <4> QED
        BY <3>1, <3>3, <4>1, <4>2
    <3>5. o.req = q => o.accepted = o.n
      BY <3>2, <3>3
    <3>6. \A i \in 1 .. Len(done') : IF i = Len(done) + 1 THEN done'[i] = o
                                     ELSE i \in 1 .. Len(done) /\ done'[i] = done[i]
      BY <3>4
    <3> QED
      BY <2>1, <3>5, <3>6
  <2>5. ~Queued(q)' => nacc'[q] = 1 /\ End(col'[q]) = computed'[q]
    <3> SUFFICES ASSUME ~Queued(q)' PROVE nacc'[q] = 1 /\ End(col'[q]) = computed'[q]
      OBVIOUS
    <3>1. CASE q # r
      BY <1>2, <1>11, <2>1, <3>1
    <3>2. CASE q = r
      <4>1. computed[r] + e.n = known[r]
        <5>1. /\ known[r] = computed[r] + QueuedTokens(r) + DoneTokens(r) - DoneAccepted(r)
          BY <1>4, <3>2 DEF TotalsOK
        <5>2. DoneTokens(r) = DoneAccepted(r) /\ DoneTokens(r) \in Nat
          <6>1. DoneTokens(r) \in Nat /\ Len(done) \in 0 .. 2
            BY <3>2, SumsAre, QueueIs DEF IInv
          <6>2. Len(done) >= 1 /\ done[1].req = r => done[1].accepted = done[1].n
            BY <2>1, <3>2, <6>1
          <6>3. Len(done) >= 2 /\ done[2].req = r => done[2].accepted = done[2].n
            BY <2>1, <3>2, <6>1
          <6> QED
            BY <6>1, <6>2, <6>3 DEF DoneTokens, DoneAccepted
        <5>3. QueuedTokens(r) = e.n
          <6>1. ~(l = 2 /\ queue[2].req = r) /\ e.n \in Nat
            BY <1>6, <3>2 DEF StepOK
          <6> QED
            BY <1>1, <6>1 DEF QueuedTokens
        <5>4. computed[r] \in Nat /\ e.n \in Nat
          BY DEF StepOK
        <5> QED
          BY <5>1, <5>2, <5>3, <5>4
      <4>2. col'[r] = c /\ c = Column(known[r])
        BY <4>1 DEF RanOK
      <4> QED
        BY <2>1, <2>3, <3>2, <4>1, <4>2
    <3> QED
      BY <3>1, <3>2
  <2> QED
    BY <2>1, <2>2, <2>4, <2>5
<1>15. GrownOK(q)'
  <2> SUFFICES ASSUME known[q] >= prompt[q]
               PROVE  Certain(q)' >= prompt[q] /\ Len(bt[q]) >= Column(known[q]) + 1
    BY <1>3 DEF GrownOK, Column
  <2>1. Certain(q) >= prompt[q] /\ Len(bt[q]) >= Column(known[q]) + 1
    BY <1>4 DEF GrownOK
  <2>2. Certain(q) \in Nat /\ Certain(q)' \in Nat /\ Certain(q) <= Certain(q)' /\ prompt[q] \in Nat
    BY <1>5, TypesAre DEF MovedCertain, IInv
  <2> QED
    BY <2>1, <2>2
<1> QED
  BY <1>7, <1>8, <1>9, <1>12, <1>13, <1>14, <1>15 DEF TableOK

LEMMA RanOwn ==
    ASSUME IInv, queue # << >>,
           NEW e, e = queue[1], NEW r, r = e.req, NEW c, c = Column(computed[r] + e.n),
           RanOK(e, r, c), StepOK(e, r, c), MovedUp(e, r, c),
           NEW q \in Requests, Here(q)
    PROVE  OwnOK(q)'
<1>1. PICK l \in 1 .. 2 : l = Len(queue)
  <2>1. Len(queue) \in 0 .. 2 /\ Len(queue) >= 1
    BY QueueIs DEF IInv
  <2> QED
    BY <2>1
<1>2. /\ Len(queue') = l - 1 /\ (l = 2 => queue'[1] = queue[2]) /\ r \in Requests /\ bt' = bt
      /\ l - 1 \in Nat
  <2>1. Len(queue') = Len(queue) - 1 /\ (Len(queue) = 2 => queue'[1] = queue[2])
    BY DEF MovedUp
  <2>2. r \in Requests
    BY DEF StepOK
  <2>3. bt' = bt
    BY DEF RanOK, schedVars
  <2> QED
    BY <1>1, <2>1, <2>2, <2>3
<1>3. OwnOK(q) /\ TableOK(q)
  BY DEF IInv, RequestOK
<1>4. MovedCertain(e, r, q)
  BY CertainGrows
<1>5. SUFFICES ASSUME NEW j \in 1 .. Len(bt[q]), bt[q][j] # Null, End(j) <= Certain(q)'
               PROVE  Good(l - 1, bt[q][j], End(j))'
  BY <1>2 DEF OwnOK, End
<1>6. PICK b \in Slots : b = bt[q][j]
  BY <1>5, TypesAre DEF IInv
<1>7. j \in Nat /\ j >= 1
  BY TypesAre DEF IInv
<1>8. PICK p \in Nat : p = End(j)
  <2>1. End(j) \in Nat
    BY <1>7, EndIs
  <2> QED
    BY <2>1
<1>a. SUFFICES Good(l - 1, b, p)'
  BY <1>2, <1>6, <1>8, Zenon DEF Good, Writes, Makes, Lo, Exact, Follows, Least, End
<1>9. CASE p <= Certain(q)
  <2>1. Good(l, b, p)
    BY <1>1, <1>3, <1>5, <1>6, <1>8, <1>9 DEF OwnOK
  <2>2. l \in 1 .. Len(queue)
    BY <1>1
  <2> QED
    BY <2>1, <2>2, GoodShifts
<1>10. CASE Certain(q) < p
  <2>1. q = r /\ Certain(q) < p /\ p <= Certain(r)' /\ Certain(r) \in Nat
    <3>1. Certain(q) \in Nat /\ Certain(q)' \in Nat /\ (q # r => Certain(q)' = Certain(q))
      BY <1>4, Zenon DEF MovedCertain
    <3> QED
      BY <1>5, <1>8, <1>10, <3>1
  <2>2. PICK n \in Nat, m \in Nat : n = computed[r] /\ m = computed'[r]
    BY DEF StepOK, RanOK
  <2>3. n < p
    <3>1. n <= Certain(r)
      BY <2>2, CertainIs, <1>2 DEF IInv
    <3> QED
      BY <2>1, <2>2, <3>1
  <2>4. PICK t \in Tables : t = e.t /\ Distinct(t)
    BY DEF StepOK
  <2>5. ASSUME NEW i \in 1 .. Len(t), t[i] = b, End(i) = p, p <= m
        PROVE  slot'[b] = State(p)
    <3>1. computed[r] < End(i) /\ End(i) <= computed'[r] /\ e.t[i] # Null
      BY <2>2, <2>3, <2>4, <2>5, <1>6, Sizes
    <3> QED
      BY <2>4, <2>5, <3>1 DEF RanOK
  <2>6. CASE ~(l = 2 /\ queue[2].req = r)
    <3>1. t = bt[r]
      <4>1. TableOK(r) /\ 1 \in 1 .. Len(queue) /\ \A h \in 1 + 1 .. Len(queue) : queue[h].req # r
        BY <1>1, <1>3, <2>1, <2>6
      <4> QED
        BY <2>4, <4>1 DEF TableOK, LastOK
    <3>2. p <= m
      BY <1>1, <1>4, <2>1, <2>2, <2>6 DEF MovedCertain
    <3>3. slot'[b] = State(p) /\ j \in 1 .. Len(t) /\ t[j] = b
      BY <1>6, <1>8, <2>1, <2>5, <3>1, <3>2
    <3>4. l = 2 => b \notin Writes(1)'
      <4> SUFFICES ASSUME l = 2 PROVE b \notin Writes(1)'
        OBVIOUS
      <4>1. ~Follows(2)
        BY <2>6 DEF Follows
      <4>2. \A i \in 1 .. Len(queue[1].t) : queue[1].t[i] \notin Writes(2)
        BY <1>1, <2>1, <4>1 DEF IInv, PairOK
      <4>3. b \notin Writes(2)
        BY <2>4, <3>3, <4>2
      <4>4. Writes(1)' \subseteq Writes(2)
        BY <1>1, WritesShift
      <4> QED
        BY <4>3, <4>4
    <3>5. \A i \in 1 .. l - 1 : l = 2 /\ i = 1
      BY <1>1
    <3>6. \A i \in 1 .. l - 1 : b \notin Writes(i)'
      BY <3>4, <3>5
    <3> QED
      BY <3>3, <3>6 DEF Good
  <2>7. CASE l = 2 /\ queue[2].req = r
    <3>1. Follows(2)
      BY <2>7 DEF Follows
    <3>2. e.decode /\ e.decode \in BOOLEAN
      BY <1>1, <1>4, <2>1, <2>7 DEF MovedCertain, StepOK
    <3>3. queue[2].decode
      <4>1. EntryOK(2) /\ queue[2].decode \in BOOLEAN
        BY <1>1, <2>7, QueueIs DEF IInv
      <4>2. ~Exact(2)
        BY <3>1, <3>2 DEF Exact
      <4> QED
        BY <4>1, <4>2 DEF EntryOK
    <3>4. p <= m + 1
      BY <1>1, <1>4, <2>1, <2>2, <2>7, <3>3 DEF MovedCertain, Least
    <3>5. PICK u \in Tables : u = queue[2].t /\ u = bt[r] /\ Distinct(u)
      <4>1. 2 \in 1 .. Len(queue) /\ \A h \in 2 + 1 .. Len(queue) : queue[h].req # r
        BY <1>1, <2>7
      <4>2. bt[r] = queue[2].t /\ Distinct(bt[r])
        BY <1>3, <2>1, <2>7, <4>1 DEF TableOK, LastOK
      <4> QED
        BY <4>1, <4>2, QueueIs DEF IInv
    <3>6. Lo(1)' = m /\ Exact(1)' /\ queue'[1] = queue[2]
      <4>1. Lo(1)' = computed'[queue[2].req] /\ ~Follows(1)'
        BY <1>1, <2>7 DEF MovedUp
      <4> QED
        BY <1>2, <2>2, <2>7, <4>1 DEF Exact
    <3>7. u[j] = b /\ j \in 1 .. Len(u) /\ p = End(j)
      BY <1>6, <1>8, <2>1, <3>5
    <3>8. CASE p = m + 1
      <4>1. Makes(1, b, p)'
        <5>1. p > m /\ p = m + 1
          BY <3>8
        <5>2. (Least(queue[1]))' = 1
          BY <3>3, <3>6 DEF Least
        <5>3. \E i \in 1 .. Len(queue'[1].t) : queue'[1].t[i] = b /\ p = i * BlockSize
          BY <3>5, <3>6, <3>7 DEF End
        <5> QED
          BY <3>6, <5>1, <5>2, <5>3 DEF Makes, End
      <4>2. l - 1 = 1
        BY <2>7
      <4>3. Good(1, b, p)'
        BY <4>1 DEF Good
      <4> QED
        BY <4>2, <4>3
    <3>9. CASE p <= m
      <4>1. PICK s \in Nat : s = Src(2) /\ s = c /\ p <= End(s)
        <5>1. Src(2) = c /\ c \in Nat
          <6>1. Src(2) = c
            BY <2>7, <3>1 DEF Src
          <6>2. c \in Nat
            BY DEF StepOK
          <6> QED
            BY <6>1, <6>2
        <5>2. PICK x \in Nat : x = n + e.n /\ c = Column(x) /\ m <= x
          <6>1. e.n \in Nat /\ m <= n + e.n
            BY <2>2 DEF StepOK, RanOK
          <6>2. n + e.n \in Nat
            BY <6>1
          <6> QED
            BY <2>2, <6>1, <6>2
        <5>3. x <= End(c) /\ End(c) \in Nat
          BY <5>1, <5>2, Columns, EndIs
        <5>4. p <= End(c)
          BY <3>9, <5>2, <5>3
        <5> QED
          BY <5>1, <5>4
      <4>2. j <= s
        BY <1>7, <1>8, <4>1, Ends
      <4>3. u[j] \in {Null, t[j]}
        <5>1. j \in 1 .. Src(2)
          BY <1>7, <4>1, <4>2
        <5> QED
          BY <1>1, <2>4, <2>7, <3>1, <3>5, <5>1 DEF IInv, PairOK
      <4>4. t[j] = b /\ j \in 1 .. Len(t)
        <5>1. c + 1 <= Len(t) /\ Len(t) \in Nat
          <6>1. c + 1 <= Len(t) /\ t \in Tables
            BY <2>4 DEF StepOK
          <6> QED
            BY <6>1 DEF Tables
        <5> QED
          BY <1>7, <3>7, <4>1, <4>2, <4>3, <5>1, Sizes
      <4>5. slot'[b] = State(p)
        BY <1>8, <2>5, <3>9, <4>4
      <4>6. b \notin Writes(1)'
        <5> SUFFICES ASSUME NEW i \in 1 .. Len(u), u[i] = b, End(i) > m PROVE FALSE
          BY <3>5, <3>6 DEF Writes, End
        <5>1. i = j
          BY <3>5, <3>7, Sizes DEF Distinct
        <5> QED
          BY <2>2, <3>7, <3>9, <5>1
      <4>7. l - 1 = 1
        BY <2>7
      <4>8. Good(1, b, p)'
        <5>1. \A i \in 1 .. 1 : i = 1
          OBVIOUS
        <5>2. \A i \in 1 .. 1 : b \notin Writes(i)'
          BY <4>6, <5>1
        <5> QED
          BY <4>5, <5>2 DEF Good
      <4> QED
        BY <4>7, <4>8
    <3> QED
      BY <2>2, <3>4, <3>8, <3>9
  <2> QED
    BY <2>6, <2>7
<1> QED
  BY <1>4, <1>8, <1>9, <1>10 DEF MovedCertain

(* The state at the head of a block, or that of its stash, was not written. *)
LEMMA ReplayedKept ==
    ASSUME NEW s, NEW u, NEW b, u[b] = s[b], NEW w, NEW k \in Nat, k > 0 /\ w # Null => u[w] = s[w]
    PROVE  Replayed(u, b, w, k) = Replayed(s, b, w, k)
BY DEF Replayed, Base

LEMMA RanSource ==
    ASSUME IInv, queue # << >>,
           NEW e, e = queue[1], NEW r, r = e.req, NEW c, c = Column(computed[r] + e.n),
           RanOK(e, r, c), StepOK(e, r, c), MovedUp(e, r, c),
           NEW q \in Requests, SourceOK(q), Here(q) \/ Queued(q)'
    PROVE  SourceOK(q)'
<1>1. PICK l \in 1 .. 2 : l = Len(queue)
  <2>1. Len(queue) \in 0 .. 2 /\ Len(queue) >= 1
    BY QueueIs DEF IInv
  <2> QED
    BY <2>1
<1>2. /\ Len(queue') = l - 1 /\ (l = 2 => queue'[1] = queue[2]) /\ r \in Requests /\ bt' = bt
      /\ prompt' = prompt /\ l - 1 \in Nat
      /\ q # r => computed'[q] = computed[q] /\ nacc'[q] = nacc[q] /\ col'[q] = col[q]
  <2>1. /\ Len(queue') = Len(queue) - 1 /\ (Len(queue) = 2 => queue'[1] = queue[2])
        /\ q # r => computed'[q] = computed[q] /\ nacc'[q] = nacc[q] /\ col'[q] = col[q]
    BY DEF MovedUp
  <2>2. r \in Requests
    BY DEF StepOK
  <2>3. bt' = bt /\ prompt' = prompt
    BY DEF RanOK, schedVars
  <2> QED
    BY <1>1, <2>1, <2>2, <2>3
<1>3. Queued(q)' <=> l = 2 /\ queue[2].req = q
  <2>1. Queued(q)' <=> \E i \in 1 .. l - 1 : queue'[i].req = q
    BY <1>2 DEF Queued
  <2>2. CASE l = 1
    BY <2>1, <2>2
  <2>3. CASE l = 2
    BY <1>2, <2>1, <2>3
  <2> QED
    BY <2>2, <2>3
<1>4. /\ (FirstOf(q) - 1)' = IF l = 2 /\ queue[2].req = q THEN 0 ELSE l - 1
      /\ Table(q)' = IF l = 2 /\ queue[2].req = q THEN queue[2].t ELSE bt[q]
  <2>1. CASE l = 2 /\ queue[2].req = q
    <3>1. FirstOf(q)' = 1
      BY <1>2, <2>1 DEF FirstOf
    <3>2. Table(q)' = queue[2].t
      BY <1>2, <2>1, <3>1 DEF Table
    <3> QED
      BY <2>1, <3>1, <3>2
  <2>2. CASE ~(l = 2 /\ queue[2].req = q)
    <3>1. FirstOf(q)' = l - 1 + 1
      <4>1. CASE l = 1
        BY <1>2, <4>1 DEF FirstOf
      <4>2. CASE l = 2
        BY <1>2, <2>2, <4>2 DEF FirstOf
      <4> QED
        BY <4>1, <4>2
    <3>2. Table(q)' = bt[q]
      BY <1>2, <3>1 DEF Table
    <3> QED
      BY <1>2, <2>2, <3>1, <3>2
  <2> QED
    BY <2>1, <2>2
<1>a. PICK k \in 0 .. 1 :
         /\ k = IF l = 2 /\ queue[2].req = q THEN 0 ELSE l - 1
         /\ k = 1 => l = 2
  BY <1>1
<1>c. k = (FirstOf(q) - 1)'
  BY <1>4, <1>a
<1>b. PICK t : t = Table(q)' /\ t = IF l = 2 /\ queue[2].req = q THEN queue[2].t ELSE bt[q]
  BY <1>4
<1>5. t \in Tables
  <2>1. bt[q] \in Tables
    BY TypesAre DEF IInv
  <2>2. l = 2 => queue[2].t \in Tables
    BY <1>1, QueueIs DEF IInv
  <2> QED
    BY <1>b, <2>1, <2>2
<1>6. \A i \in 1 .. k : i = 1 /\ k = 1
  OBVIOUS
<1>7. PICK s \in Nat, x \in Nat, m \in Nat :
         s = col'[q] /\ x = nacc'[q] /\ m = computed'[q] /\ x >= 1
  <2>1. col'[r] \in Nat /\ nacc'[r] \in Nat /\ nacc'[r] >= 1 /\ computed'[r] \in Nat
    <3>1. col'[r] = c /\ nacc'[r] \in 1 .. 1 + Drafts /\ computed'[r] \in Nat
      BY DEF RanOK
    <3>2. c \in Nat
      BY DEF StepOK
    <3> QED
      BY <3>1, <3>2, Sizes
  <2>2. col[q] \in Nat /\ nacc[q] \in Nat /\ nacc[q] >= 1 /\ computed[q] \in Nat
    BY TypesAre DEF IInv
  <2>3. q # r => col'[q] \in Nat /\ nacc'[q] \in Nat /\ nacc'[q] >= 1 /\ computed'[q] \in Nat
    BY <1>2, <2>2
  <2> QED
    BY <2>1, <2>3
<1>8. SUFFICES ASSUME m > 0
               PROVE  /\ s \in 1 .. Len(t) /\ t[s] # Null /\ (x > 1 => s + 1 <= Len(t))
                      /\ \/ /\ Replayed(slot', t[s], t[s + 1], x - 1) = m
                            /\ k = 1 => t[s] \notin Writes(1)'
                                        /\ (x > 1 => t[s + 1] \notin Writes(1)')
                         \/ x = 1 /\ End(s) = m /\ Good(k, t[s], m)'
  <2> SUFFICES ASSUME m > 0 PROVE SourceOK(q)'
    BY <1>7 DEF SourceOK
  <2>1. s \in 1 .. Len(t) /\ t[s] # Null /\ (x > 1 => s + 1 <= Len(t))
    BY Zenon
  <2>2. CASE /\ Replayed(slot', t[s], t[s + 1], x - 1) = m
             /\ k = 1 => t[s] \notin Writes(1)' /\ (x > 1 => t[s + 1] \notin Writes(1)')
    <3>1. \A i \in 1 .. k : t[s] \notin Writes(i)' /\ (x > 1 => t[s + 1] \notin Writes(i)')
      <4> SUFFICES ASSUME NEW i \in 1 .. k
                   PROVE  t[s] \notin Writes(i)' /\ (x > 1 => t[s + 1] \notin Writes(i)')
        OBVIOUS
      <4>1. i = 1 /\ k = 1
        BY <1>6, Zenon
      <4> QED
        BY <2>2, <4>1
    <3> QED
      BY <1>b, <1>c, <1>7, <2>1, <2>2, <3>1, Zenon DEF SourceOK, Replayed, Base
  <2>3. CASE x = 1 /\ End(s) = m /\ Good(k, t[s], m)'
    BY <1>b, <1>c, <1>7, <2>1, <2>3 DEF SourceOK, Good, Makes, Least, End
  <2> QED
    BY <2>2, <2>3
<1>9. CASE q # r
  <2>1. /\ FirstOf(q) - 1 = k + 1 /\ Table(q) = t /\ k + 1 \in 1 .. l
    <3>1. CASE l = 2 /\ queue[2].req = q
      <4>1. FirstOf(q) = 2
        BY <1>1, <1>9, <3>1 DEF FirstOf
      <4>2. k = 0 /\ t = queue[2].t
        BY <1>a, <1>b, <3>1
      <4>3. Table(q) = t
        BY <1>1, <3>1, <4>1, <4>2 DEF Table
      <4> QED
        BY <3>1, <4>1, <4>2, <4>3
    <3>2. CASE ~(l = 2 /\ queue[2].req = q)
      <4>1. FirstOf(q) = l + 1
        BY <1>1, <1>9, <3>2 DEF FirstOf
      <4>2. k = l - 1 /\ t = bt[q]
        BY <1>a, <1>b, <3>2
      <4>3. Table(q) = t
        BY <1>1, <4>1, <4>2 DEF Table
      <4> QED
        BY <1>1, <4>1, <4>2, <4>3
    <3> QED
      BY <3>1, <3>2
  <2>2. s = col[q] /\ x = nacc[q] /\ m = computed[q]
    BY <1>2, <1>7, <1>9
  <2>3. /\ s \in 1 .. Len(t) /\ t[s] # Null /\ (x > 1 => s + 1 <= Len(t))
        /\ \/ /\ Replayed(slot, t[s], t[s + 1], x - 1) = m
              /\ \A i \in 1 .. k + 1 : t[s] \notin Writes(i)
                                      /\ (x > 1 => t[s + 1] \notin Writes(i))
           \/ x = 1 /\ End(s) = m /\ Good(k + 1, t[s], m)
    BY <1>8, <2>1, <2>2 DEF SourceOK
  <2>4. t[s] \in Slots
    BY <1>5, <2>3 DEF Tables
  <2>5. CASE /\ Replayed(slot, t[s], t[s + 1], x - 1) = m
             /\ \A i \in 1 .. k + 1 : t[s] \notin Writes(i)
                                     /\ (x > 1 => t[s + 1] \notin Writes(i))
    <3>1. 1 \in 1 .. k + 1 /\ (k = 1 => 2 \in 1 .. k + 1)
      OBVIOUS
    <3>2. t[s] \notin Writes(1) /\ (x > 1 => t[s + 1] \notin Writes(1))
      BY <2>5, <3>1
    <3>3. slot'[t[s]] = slot[t[s]]
      BY <2>4, <3>2 DEF RanOK
    <3>4. x - 1 > 0 /\ t[s + 1] # Null => slot'[t[s + 1]] = slot[t[s + 1]]
      <4> SUFFICES ASSUME x - 1 > 0, t[s + 1] # Null PROVE slot'[t[s + 1]] = slot[t[s + 1]]
        OBVIOUS
      <4>1. x > 1
        BY <1>7
      <4>2. s + 1 \in 1 .. Len(t)
        BY <1>7, <2>3, <4>1, <1>5 DEF Tables
      <4>3. t[s + 1] \in Slots
        BY <1>5, <4>2 DEF Tables
      <4> QED
        BY <3>2, <4>1, <4>3 DEF RanOK
    <3>5. Replayed(slot', t[s], t[s + 1], x - 1) = m
      <4>1. x - 1 \in Nat
        BY <1>7
      <4>2. PICK y \in Nat : y = x - 1
        BY <4>1
      <4>5. PICK w, b, u, v : w = t[s + 1] /\ b = t[s] /\ u = slot' /\ v = slot
        OBVIOUS
      <4>3. u[b] = v[b] /\ (y > 0 /\ w # Null => u[w] = v[w])
        BY <3>3, <3>4, <4>2, <4>5
      <4>4. Replayed(u, b, w, y) = Replayed(v, b, w, y)
        BY <4>3, ReplayedKept
      <4> QED
        BY <2>5, <4>2, <4>4, <4>5
    <3>6. k = 1 => t[s] \notin Writes(1)' /\ (x > 1 => t[s + 1] \notin Writes(1)')
      <4> SUFFICES ASSUME k = 1
                   PROVE  t[s] \notin Writes(1)' /\ (x > 1 => t[s + 1] \notin Writes(1)')
        OBVIOUS
      <4>1. t[s] \notin Writes(2) /\ (x > 1 => t[s + 1] \notin Writes(2))
        BY <2>5, <3>1
      <4>2. Writes(1)' \subseteq Writes(2)
        <5>1. Len(queue) = 2
          BY <1>1, <2>1
        <5> QED
          BY <5>1, WritesShift
      <4> QED
        BY <4>1, <4>2
    <3> QED
      BY <2>3, <3>5, <3>6
  <2>6. CASE x = 1 /\ End(s) = m /\ Good(k + 1, t[s], m)
    <3>1. Good(k + 1 - 1, t[s], m)'
      <4>1. k + 1 \in 1 .. Len(queue)
        BY <1>1, <2>1
      <4>2. PICK b \in Slots, h \in 1 .. Len(queue) : b = t[s] /\ h = k + 1
        BY <2>4, <4>1
      <4>3. Good(h - 1, b, m)'
        BY <2>6, <4>2, GoodShifts
      <4> QED
        BY <4>2, <4>3
    <3>2. k + 1 - 1 = k
      OBVIOUS
    <3> QED
      BY <2>3, <2>6, <3>1, <3>2
  <2> QED
    BY <2>3, <2>5, <2>6
<1>10. CASE q = r
  <2>1. s = c
    BY <1>7, <1>10 DEF RanOK
  <2>2. PICK u \in Tables : u = e.t
    BY DEF StepOK
  <2>3. /\ c \in Nat /\ 0 < c /\ c + 1 <= Len(u) /\ u[c] # Null /\ u[c + 1] # Null /\ Len(u) \in Nat
        /\ Replayed(slot', u[c], u[c + 1], x - 1) = m
    <3>1. Len(u) \in Nat
      BY DEF Tables
    <3>2. c \in Nat /\ 0 < c /\ c + 1 <= Len(u) /\ u[c] # Null /\ u[c + 1] # Null
      BY <2>2 DEF StepOK
    <3>3. Replayed(slot', e.t[c], e.t[c + 1], nacc'[r] - 1) = computed'[r]
      BY DEF RanOK
    <3> QED
      BY <1>7, <1>10, <2>2, <3>1, <3>2, <3>3
  <2>4. CASE l = 2 /\ queue[2].req = r
    <3>1. Follows(2) /\ t = queue[2].t /\ k = 0
      BY <1>a, <1>b, <1>10, <2>4 DEF Follows
    <3>2. Src(2) = c
      BY <2>4, <3>1 DEF Src
    <3>3. /\ t[c] = u[c] /\ (queue[2].decode => t[c + 1] = u[c + 1])
      BY <1>1, <2>2, <2>4, <3>1, <3>2 DEF IInv, PairOK
    <3>4. c + 1 <= Len(t)
      <4>1. PICK n \in Nat, y \in Nat, z \in Nat : n = queue[2].n /\ y = Lo(2) /\ z = Hi(2) /\ y <= z
        <5>1. queue[2].n \in Nat
          BY <1>1, <2>4, QueueIs, Sizes DEF IInv
        <5>2. Lo(2) \in Nat /\ Hi(2) \in Nat /\ Lo(1)' \in Nat /\ Lo(2) <= Lo(1)' /\ Lo(1)' <= Hi(2)
          BY <1>1, <2>4 DEF MovedUp
        <5>3. Lo(2) <= Hi(2)
          <6>1. PICK a \in Nat, b \in Nat, d \in Nat : a = Lo(2) /\ b = Hi(2) /\ d = Lo(1)'
            BY <5>2
          <6>2. a <= d /\ d <= b
            BY <5>2, <6>1
          <6> QED
            BY <6>1, <6>2
        <5> QED
          BY <5>1, <5>2, <5>3
      <4>2. c <= Column(y + n) /\ Column(z + n) + 1 <= Len(t)
        <5>1. EntryOK(2)
          BY <1>1, <2>4 DEF IInv
        <5> QED
          BY <3>1, <3>2, <4>1, <5>1 DEF EntryOK
      <4>3. Column(y + n) <= Column(z + n) /\ Column(y + n) \in Nat /\ Column(z + n) \in Nat
        <5>1. y + n \in Nat /\ z + n \in Nat /\ y + n <= z + n
          <6>1. PICK a \in Nat, b \in Nat, d \in Nat : a = y /\ b = z /\ d = n /\ a <= b
            BY <4>1
          <6>2. a + d \in Nat /\ b + d \in Nat /\ a + d <= b + d
            BY <6>1
          <6> QED
            BY <6>1, <6>2
        <5> QED
          BY <5>1, ColumnGrows, Columns
      <4>4. Len(t) \in Nat
        BY <1>5 DEF Tables
      <4> QED
        BY <2>3, <4>2, <4>3, <4>4
    <3>5. Replayed(slot', t[c], t[c + 1], x - 1) = m
      <4>1. CASE queue[2].decode
        BY <2>3, <3>3, <4>1
      <4>2. CASE ~queue[2].decode
        <5>1. EntryOK(2)
          BY <1>1, <2>4 DEF IInv
        <5>2. Exact(2)
          BY <4>2, <5>1 DEF EntryOK
        <5>3. ~e.decode
          BY <3>1, <5>2 DEF Exact
        <5>4. x = 1
          BY <1>7, <1>10, <5>3 DEF RanOK
        <5>5. x - 1 = 0
          BY <5>4
        <5> QED
          BY <2>3, <3>3, <5>5 DEF Replayed, Base
      <4> QED
        BY <4>1, <4>2
    <3>6. c \in 1 .. Len(t) /\ t[c] # Null
      BY <2>3, <3>3, <3>4, <1>5 DEF Tables
    <3> QED
      BY <2>1, <3>1, <3>4, <3>5, <3>6, SMTT(20)
  <2>5. CASE ~(l = 2 /\ queue[2].req = r)
    <3>1. Here(r) /\ t = bt[r]
      BY <1>3, <1>b, <1>10, <2>5
    <3>2. t = u
      <4>1. 1 \in 1 .. Len(queue) /\ \A h \in 1 + 1 .. Len(queue) : queue[h].req # r
        BY <1>1, <2>5
      <4>2. TableOK(r)
        BY <1>2, <3>1 DEF IInv, RequestOK
      <4> QED
        BY <2>2, <3>1, <4>1, <4>2 DEF TableOK, LastOK
    <3>3. k = 1 => u[c] \notin Writes(1)' /\ u[c + 1] \notin Writes(1)'
      <4> SUFFICES ASSUME k = 1 PROVE u[c] \notin Writes(1)' /\ u[c + 1] \notin Writes(1)'
        OBVIOUS
      <4>1. l = 2
        BY <1>a
      <4>2. ~Follows(2)
        BY <2>5, <4>1 DEF Follows
      <4>3. \A i \in 1 .. Len(u) : u[i] \notin Writes(2)
        BY <1>1, <2>2, <3>1, <4>1, <4>2 DEF IInv, PairOK
      <4>4. c \in 1 .. Len(u) /\ c + 1 \in 1 .. Len(u)
        BY <2>3
      <4>5. Writes(1)' \subseteq Writes(2)
        BY <1>1, <4>1, WritesShift
      <4> QED
        BY <4>3, <4>4, <4>5
    <3>4. c \in 1 .. Len(u)
      BY <2>3
    <3> QED
      BY <2>1, <2>3, <3>2, <3>3, <3>4
  <2> QED
    BY <2>4, <2>5
<1> QED
  BY <1>9, <1>10

LEMMA RanShared ==
    ASSUME IInv, queue # << >>,
           NEW e, e = queue[1], NEW r, r = e.req, NEW c, c = Column(computed[r] + e.n),
           RanOK(e, r, c), StepOK(e, r, c), MovedUp(e, r, c),
           NEW q \in Requests, Here(q)
    PROVE  SharedOK(q)'
<1>1. bt' = bt /\ prompt' = prompt
  BY DEF RanOK, schedVars
<1>2. SharedOK(q) /\ MovedCertain(e, r, q)
  BY CertainGrows DEF IInv, RequestOK
<1>3. SUFFICES ASSUME NEW o \in Requests \ {q}, Here(o),
                      NEW j \in 1 .. Len(bt[q]), NEW i \in 1 .. Len(bt[o]),
                      bt[q][j] # Null, bt[q][j] = bt[o][i]
               PROVE  i = j /\ End(j) <= Certain(q)'
  BY <1>1 DEF SharedOK, Here, End
<1>4. i = j /\ End(j) <= Certain(q)
  BY <1>2, <1>3 DEF SharedOK
<1>5. Certain(q) \in Nat /\ Certain(q)' \in Nat /\ Certain(q) <= Certain(q)'
  BY <1>2 DEF MovedCertain
<1>6. End(j) \in Nat
  <2>1. j \in Nat
    BY TypesAre DEF IInv
  <2> QED
    BY <2>1, EndIs
<1> QED
  BY <1>4, <1>5, <1>6

LEMMA RanCached ==
    ASSUME IInv, queue # << >>,
           NEW e, e = queue[1], NEW r, r = e.req, NEW c, c = Column(computed[r] + e.n),
           RanOK(e, r, c), StepOK(e, r, c), MovedUp(e, r, c),
           NEW p \in 1 .. MaxLen
    PROVE  CachedOK(p)'
<1>1. /\ bt' = bt /\ prompt' = prompt /\ cached' = cached /\ Len(queue') = Len(queue) - 1
      /\ cached \in [1 .. MaxLen -> Slots \cup {Null}]
  BY DEF RanOK, schedVars, MovedUp, IInv, Types
<1>2. CASE cached[p] = Null
  BY <1>1, <1>2 DEF CachedOK
<1>3. CASE cached[p] # Null
  <2>1. PICK b \in Slots : b = cached[p]
    BY <1>1, <1>3
  <2>2. /\ p = End(Column(p)) /\ Good(Len(queue), b, p)
        /\ \A o \in 1 .. MaxLen : cached[o] = b => o = p
        /\ \A q \in Requests : Here(q) =>
              \A j \in 1 .. Len(bt[q]) : bt[q][j] = b => p = End(j) /\ p <= Certain(q)
    BY <1>3, <2>1 DEF IInv, CachedOK
  <2>3. p \in Nat
    BY Sizes
  <2>4. PICK l \in 1 .. Len(queue) : l = Len(queue)
    <3>1. Len(queue) >= 1 /\ Len(queue) \in Nat
      BY QueueIs DEF IInv
    <3> QED
      BY <3>1
  <2>5. Good(l - 1, b, p)'
    BY <2>2, <2>3, <2>4, GoodShifts
  <2>6. ASSUME NEW q \in Requests, Here(q), NEW j \in 1 .. Len(bt[q]), bt[q][j] = b
        PROVE  p = End(j) /\ p <= Certain(q)'
    <3>1. p = End(j) /\ p <= Certain(q)
      BY <2>2, <2>6
    <3>2. Certain(q) \in Nat /\ Certain(q)' \in Nat /\ Certain(q) <= Certain(q)'
      <4>1. MovedCertain(e, r, q)
        BY CertainGrows
      <4> QED
        BY <4>1 DEF MovedCertain
    <3> QED
      BY <2>3, <3>1, <3>2
  <2>7. Good(Len(queue), cached[p], p)'
    BY <1>1, <2>1, <2>4, <2>5 DEF Good, Makes, Writes, Lo, Exact, Follows, Least
  <2>8. /\ p = End(Column(p))
        /\ \A o \in 1 .. MaxLen : cached'[o] = cached'[p] => o = p
        /\ \A q \in Requests : Here(q)' =>
              \A j \in 1 .. Len(bt'[q]) : bt'[q][j] = cached'[p] => p = End(j) /\ p <= Certain(q)'
    BY <1>1, <2>1, <2>2, <2>6 DEF Here
  <2> QED
    BY <2>7, <2>8 DEF CachedOK, End, Column
<1> QED
  BY <1>2, <1>3

LEMMA RanTypes ==
    ASSUME IInv, queue # << >>,
           NEW e, e = queue[1], NEW r, r = e.req, NEW c, c = Column(computed[r] + e.n),
           RanOK(e, r, c), StepOK(e, r, c), MovedUp(e, r, c)
    PROVE  Types'
<1>1. Types
  BY DEF IInv
<1>2. UNCHANGED <<cached, bt, begun, prompt, known, flight, retired, turns>>
  BY DEF RanOK, schedVars
<1>3. slot' \in [Slots -> Content]
  BY DEF RanOK, Contents
<1>4. PICK n \in Nat, m \in Nat, x \in Nat :
         n = computed[r] /\ m = computed'[r] /\ x = e.n /\ n < m /\ m <= n + x /\ n + x <= MaxLen
  <2>1. /\ computed[r] \in Nat /\ computed'[r] \in Nat /\ e.n \in Nat /\ Least(e) \in Nat
        /\ Least(e) > 0
    <3>1. computed[r] \in Nat /\ e.n \in Nat /\ e.n > 0
      BY DEF StepOK
    <3>2. computed'[r] \in Nat
      BY DEF RanOK
    <3>3. Least(e) \in {1, e.n}
      <4>1. Least(e) = IF e.decode THEN 1 ELSE e.n
        BY DEF Least
      <4> QED
        BY <4>1
    <3> QED
      BY <3>1, <3>2, <3>3
  <2>2. /\ computed[r] + Least(e) <= computed'[r] /\ computed'[r] <= computed[r] + e.n
        /\ computed[r] + e.n <= MaxLen
    BY DEF StepOK, RanOK
  <2>3. computed[r] < computed'[r]
    BY <2>1, <2>2
  <2> QED
    BY <2>1, <2>2, <2>3
<1>5. m \in 0 .. MaxLen /\ m - n \in 1 .. MaxLen /\ m - n <= x /\ MaxLen \in Nat /\ r \in Requests
  <2>1. MaxLen \in Nat /\ r \in Requests
    BY Sizes DEF StepOK
  <2>2. m - n \in Nat /\ m - n > 0 /\ m - n <= x /\ m <= MaxLen /\ m - n <= MaxLen
    BY <1>4, <2>1
  <2> QED
    BY <1>4, <2>1, <2>2
<1>6. c \in 0 .. MaxLen
  <2>1. PICK y \in Nat : y = n + x
    BY <1>4
  <2>2. Column(y) \in Nat /\ Column(y) <= y
    BY Columns
  <2> QED
    BY <1>4, <1>5, <2>1, <2>2
<1>7. /\ computed' \in [Requests -> 0 .. MaxLen] /\ nacc' \in [Requests -> 1 .. 1 + Drafts]
      /\ col' \in [Requests -> 0 .. MaxLen]
  <2>1. computed \in [Requests -> 0 .. MaxLen] /\ computed' = [computed EXCEPT ![r] = m]
    BY <1>1, <1>4 DEF Types, RanOK
  <2>2. PICK a \in 1 .. 1 + Drafts : a = nacc'[r]
    BY DEF RanOK
  <2>3. nacc \in [Requests -> 1 .. 1 + Drafts] /\ nacc' = [nacc EXCEPT ![r] = a]
    BY <1>1, <2>2 DEF Types, RanOK
  <2>4. col \in [Requests -> 0 .. MaxLen] /\ col' = [col EXCEPT ![r] = c]
    BY <1>1 DEF Types, RanOK
  <2> QED
    BY <1>5, <1>6, <2>1, <2>3, <2>4
<1>8. /\ queue' \in Seq(Entry) /\ done' \in Seq(Outcome) /\ Len(queue') + Len(done') <= 2
      /\ \A i \in 1 .. Len(done') : done'[i].accepted <= done'[i].n
  <2>1. PICK o : o = [req |-> r, n |-> x, accepted |-> m - n]
    OBVIOUS
  <2>2. x \in 1 .. MaxLen
    <3>1. x > 0 /\ x <= MaxLen
      BY <1>4, <1>5
    <3> QED
      BY <1>5, <3>1
  <2>3. o \in Outcome /\ o.accepted <= o.n
    BY <1>5, <2>1, <2>2 DEF Outcome
  <2>4. /\ done \in Seq(Outcome) /\ Len(queue) + Len(done) <= 2 /\ Len(done) \in Nat
        /\ \A i \in 1 .. Len(done) : done[i].accepted <= done[i].n
    BY <1>1 DEF Types
  <2>5. done' = Append(done, o)
    BY <1>4, <2>1 DEF RanOK
  <2>6. /\ done' \in Seq(Outcome) /\ Len(done') = Len(done) + 1
        /\ \A i \in 1 .. Len(done') : IF i = Len(done) + 1 THEN done'[i] = o
                                      ELSE i \in 1 .. Len(done) /\ done'[i] = done[i]
    BY <2>3, <2>4, <2>5
  <2>7. queue' \in Seq(Entry) /\ Len(queue') = Len(queue) - 1 /\ Len(queue) \in Nat
    BY <1>1, QueueIs DEF MovedUp
  <2>8. Len(queue') + Len(done') <= 2
    BY <2>4, <2>6, <2>7
  <2> QED
    BY <2>3, <2>4, <2>6, <2>7, <2>8
<1>9. /\ cached \in [1 .. MaxLen -> Slots \cup {Null}]
      /\ bt \in [Requests -> Tables]
      /\ begun \subseteq Requests
      /\ prompt \in [Requests -> 0 .. MaxLen] /\ known \in [Requests -> 0 .. MaxLen]
      /\ flight \in [Requests -> 0 .. MaxLen] /\ retired \in [Requests -> 0 .. MaxLen]
      /\ turns \in 0 .. MaxTurns
  BY <1>1 DEF Types
<1> QED
  BY <1>2, <1>3, <1>7, <1>8, <1>9 DEF Types, Tables

LEMMA RunStepKeeps ==
    ASSUME IInv, NEW good \in 0 .. Drafts, RunStep(good)
    PROVE  IInv'
<1>1. queue # << >>
  BY DEF RunStep
<1>2. PICK e : e = queue[1]
  OBVIOUS
<1>3. PICK r : r = e.req
  OBVIOUS
<1>4. PICK c : c = Column(computed[r] + e.n)
  OBVIOUS
<1>5. RanOK(e, r, c) /\ StepOK(e, r, c)
  BY <1>2, <1>3, <1>4, StepRuns
<1>6. MovedUp(e, r, c)
  BY <1>1, <1>2, <1>3, <1>4, <1>5, MovesUp
<1>7. PICK l \in 1 .. 2 : l = Len(queue)
  <2>1. Len(queue) \in 0 .. 2 /\ Len(queue) >= 1
    BY <1>1, QueueIs DEF IInv
  <2> QED
    BY <2>1
<1>8. Len(queue') = l - 1
  BY <1>6, <1>7 DEF MovedUp
<1>9. Types'
  BY <1>1, <1>2, <1>3, <1>4, <1>5, <1>6, RanTypes
<1>10. PairOK'
  <2>1. Len(queue') # 2
    BY <1>7, <1>8
  <2> QED
    BY <2>1 DEF PairOK
<1>11. \A i \in 1 .. Len(queue') : EntryOK(i)'
  <2> SUFFICES ASSUME NEW i \in 1 .. l - 1 PROVE EntryOK(i)'
    BY <1>8
  <2>1. i = 1 /\ Len(queue) = 2
    BY <1>7
  <2> QED
    BY <1>2, <1>3, <1>4, <1>5, <1>6, <2>1, EntryMoves
<1>12. ASSUME NEW q \in Requests PROVE RequestOK(q)'
  <2>1. RequestOK(q)
    BY DEF IInv
  <2>2. bt' = bt /\ prompt' = prompt /\ begun' = begun /\ retired' = retired
    BY <1>5 DEF RanOK, schedVars
  <2>3. Here(q)' <=> Here(q)
    BY <2>2 DEF Here
  <2>4. Queued(q)' => Queued(q)
    <3>0. Queued(q)' <=> \E i \in 1 .. l - 1 : queue'[i].req = q
      BY <1>8 DEF Queued
    <3> SUFFICES ASSUME Queued(q)' PROVE Queued(q)
      OBVIOUS
    <3>a. PICK i \in 1 .. l - 1 : queue'[i].req = q
      BY <3>0
    <3>b. i = 1 /\ l = 2
      BY <1>7, <3>a
    <3>1. i = 1 /\ l = 2 /\ queue'[1] = queue[2] /\ 2 \in 1 .. Len(queue)
      <4>1. Len(queue) = 2 /\ queue'[1] = queue[2]
        BY <1>6, <1>7, <3>b DEF MovedUp
      <4> QED
        BY <3>b, <4>1
    <3> QED
      BY <3>a, <3>1 DEF Queued
  <2>5. Here(q)' \/ Queued(q)' => SourceOK(q)'
    <3> SUFFICES ASSUME Here(q) \/ Queued(q)' PROVE SourceOK(q)'
      BY <2>3
    <3>1. SourceOK(q)
      BY <2>1, <2>4 DEF RequestOK
    <3> QED
      BY <1>1, <1>2, <1>3, <1>4, <1>5, <1>6, <3>1, RanSource
  <2>6. Here(q)' => TableOK(q)' /\ OwnOK(q)' /\ SharedOK(q)'
    <3> SUFFICES ASSUME Here(q) PROVE TableOK(q)' /\ OwnOK(q)' /\ SharedOK(q)'
      BY <2>3
    <3>1. TableOK(q)
      BY <2>1 DEF RequestOK
    <3>2. TableOK(q)'
      BY <1>1, <1>2, <1>3, <1>4, <1>5, <1>6, <3>1, RanTables
    <3>3. OwnOK(q)'
      BY <1>1, <1>2, <1>3, <1>4, <1>5, <1>6, RanOwn
    <3>4. SharedOK(q)'
      BY <1>1, <1>2, <1>3, <1>4, <1>5, <1>6, RanShared
    <3> QED
      BY <3>2, <3>3, <3>4
  <2>7. (~Here(q) => bt[q] = << >> /\ q \notin begun) /\ retired[q] <= Len(bt[q])
    BY <2>1 DEF RequestOK
  <2>8. (~Here(q)' => bt'[q] = << >> /\ q \notin begun') /\ retired'[q] <= Len(bt'[q])
    BY <2>2, <2>3, <2>7
  <2> QED
    BY <2>5, <2>6, <2>8 DEF RequestOK
<1>13. \A p \in 1 .. MaxLen : CachedOK(p)'
  BY <1>1, <1>2, <1>3, <1>4, <1>5, <1>6, RanCached
<1> QED
  BY <1>9, <1>10, <1>11, <1>12, <1>13 DEF IInv

-----------------------------------------------------------------------------
(* What does not change the steps of the queue.                            *)

Frame ==
    /\ slot' = slot
    /\ \A i \in 1 .. Len(queue) :
         LET q == queue[i].req
         IN  /\ queue'[i] = queue[i] /\ computed'[q] = computed[q] /\ nacc'[q] = nacc[q]
             /\ col'[q] = col[q]

\* Step i is as it was.
Kept(i) ==
    /\ Lo(i)' = Lo(i) /\ Hi(i)' = Hi(i) /\ Src(i)' = Src(i) /\ Writes(i)' = Writes(i)
    /\ Exact(i)' <=> Exact(i)
    /\ EntryOK(i) => EntryOK(i)'

LEMMA StepsKept ==
    ASSUME Types, Frame, NEW i \in 1 .. Len(queue)
    PROVE  /\ Kept(i)
           /\ \A b, p : Makes(i, b, p)' <=> Makes(i, b, p)
<1>1. /\ queue'[i] = queue[i] /\ computed'[queue[i].req] = computed[queue[i].req]
      /\ nacc'[queue[i].req] = nacc[queue[i].req] /\ col'[queue[i].req] = col[queue[i].req]
  BY DEF Frame
<1>2. i = 2 => queue'[1] = queue[1] /\ queue'[2] = queue[2]
  <2>1. Len(queue) \in Nat
    BY QueueIs
  <2>2. i = 2 => 1 \in 1 .. Len(queue)
    BY <2>1
  <2> QED
    BY <1>1, <2>2 DEF Frame
<1>3. Follows(i)' <=> Follows(i)
  BY <1>2 DEF Follows
<1>4. Follows(i) => i = 2 /\ queue'[1] = queue[1]
  BY <1>2 DEF Follows
<1>5. Exact(i)' <=> Exact(i)
  BY <1>3, <1>4 DEF Exact
<1>6. Lo(i)' = Lo(i)
  <2>1. CASE Follows(i)
    BY <1>1, <1>3, <1>4, <2>1 DEF Lo, Least
  <2>2. CASE ~Follows(i)
    BY <1>1, <1>3, <2>2 DEF Lo
  <2> QED
    BY <2>1, <2>2
<1>7. Hi(i)' = Hi(i)
  <2>1. CASE Follows(i)
    BY <1>1, <1>3, <1>4, <2>1 DEF Hi
  <2>2. CASE ~Follows(i)
    BY <1>1, <1>3, <2>2 DEF Hi
  <2> QED
    BY <2>1, <2>2
<1>8. Src(i)' = Src(i)
  <2>1. CASE Follows(i)
    BY <1>1, <1>3, <1>4, <2>1 DEF Src, Column
  <2>2. CASE ~Follows(i)
    BY <1>1, <1>3, <2>2 DEF Src
  <2> QED
    BY <2>1, <2>2
<1>9. PICK lo, hi, s, e : lo = Lo(i) /\ hi = Hi(i) /\ s = Src(i) /\ e = queue[i]
  OBVIOUS
<1>10. lo = Lo(i)' /\ hi = Hi(i)' /\ s = Src(i)' /\ e = queue'[i]
  BY <1>1, <1>6, <1>7, <1>8, <1>9
<1>11. Writes(i)' = Writes(i)
  <2>1. Writes(i) = {b \in Slots : \E j \in 1 .. Len(e.t) : e.t[j] = b /\ End(j) > lo}
    BY <1>9 DEF Writes
  <2>2. Writes(i)' = {b \in Slots : \E j \in 1 .. Len(e.t) : e.t[j] = b /\ End(j) > lo}
    BY <1>10 DEF Writes
  <2> QED
    BY <2>1, <2>2
<1>12. ASSUME NEW b, NEW p PROVE Makes(i, b, p)' <=> Makes(i, b, p)
  <2>1. Makes(i, b, p) <=> /\ Exact(i) /\ p > lo /\ p = lo + Least(e)
                           /\ \E j \in 1 .. Len(e.t) : e.t[j] = b /\ p = End(j)
    BY <1>9 DEF Makes
  <2>2. Makes(i, b, p)' <=> /\ Exact(i)' /\ p > lo /\ p = lo + Least(e)
                            /\ \E j \in 1 .. Len(e.t) : e.t[j] = b /\ p = End(j)
    BY <1>10 DEF Makes, Least
  <2> QED
    BY <1>5, <2>1, <2>2
<1>13. EntryOK(i) => EntryOK(i)'
  <2> SUFFICES ASSUME EntryOK(i) PROVE EntryOK(i)'
    OBVIOUS
  <2>1. LET c == Column(lo + e.n)
        IN  /\ Distinct(e.t)
            /\ hi + e.n <= MaxLen /\ hi <= End(s) /\ s <= c
            /\ Column(hi + e.n) + 1 <= Len(e.t)
            /\ s > 0 => e.t[s] # Null
            /\ e.decode => e.n = 1 + Drafts /\ lo > 0 /\ Full(e.t, s)
            /\ ~e.decode =>
                 /\ Exact(i) /\ End(s) = lo /\ Len(e.t) = c + 1
                 /\ e.t[c] # Null /\ e.t[c + 1] # Null
                 /\ \A j \in s + 1 .. c - 1 : e.t[j] = Null
                 /\ ~Follows(i) => nacc[e.req] = 1
    BY <1>9 DEF EntryOK
  <2>2. nacc'[e.req] = nacc[e.req]
    BY <1>1, <1>9
  <2> QED
    BY <1>3, <1>5, <1>10, <2>1, <2>2 DEF EntryOK, Distinct, Full, End, Column
<1> QED
  BY <1>5, <1>6, <1>7, <1>8, <1>11, <1>12, <1>13 DEF Kept

LEMMA GoodKept ==
    ASSUME Types, Frame, NEW k \in 0 .. Len(queue), NEW b, NEW p, Good(k, b, p)
    PROVE  Good(k, b, p)'
<1>1. slot' = slot
  BY DEF Frame
<1>2. \A i \in 1 .. k : i \in 1 .. Len(queue)
  <2>1. Len(queue) \in Nat
    BY QueueIs
  <2> QED
    BY <2>1
<1>3. \A i \in 1 .. k : Writes(i)' = Writes(i) /\ (Makes(i, b, p)' <=> Makes(i, b, p))
  <2> SUFFICES ASSUME NEW i \in 1 .. k
               PROVE  Writes(i)' = Writes(i) /\ (Makes(i, b, p)' <=> Makes(i, b, p))
    OBVIOUS
  <2>1. i \in 1 .. Len(queue)
    BY <1>2
  <2> QED
    BY <2>1, StepsKept DEF Kept
<1>4. CASE slot[b] = State(p) /\ \A i \in 1 .. k : b \notin Writes(i)
  <2>1. slot'[b] = State(p) /\ \A i \in 1 .. k : b \notin Writes(i)'
    BY <1>1, <1>3, <1>4
  <2> QED
    BY <2>1 DEF Good
<1>5. CASE \E i \in 1 .. k : Makes(i, b, p) /\ \A h \in i + 1 .. k : b \notin Writes(h)
  <2>1. PICK i \in 1 .. k : Makes(i, b, p) /\ \A h \in i + 1 .. k : b \notin Writes(h)
    BY <1>5
  <2>2. \A h \in i + 1 .. k : h \in 1 .. k
    OBVIOUS
  <2>3. Makes(i, b, p)' /\ \A h \in i + 1 .. k : b \notin Writes(h)'
    BY <1>3, <2>1, <2>2
  <2> QED
    BY <2>3 DEF Good
<1> QED
  BY <1>4, <1>5 DEF Good

\* Nothing of q changes.
Untouched(q) ==
    /\ bt'[q] = bt[q] /\ computed'[q] = computed[q] /\ nacc'[q] = nacc[q] /\ col'[q] = col[q]
    /\ known'[q] = known[q] /\ flight'[q] = flight[q] /\ prompt'[q] = prompt[q]
    /\ retired'[q] = retired[q] /\ (q \in begun' <=> q \in begun)

LEMMA CertainKept ==
    ASSUME queue' = queue, NEW q \in Requests, computed'[q] = computed[q]
    PROVE  Certain(q)' = Certain(q) /\ (Queued(q)' <=> Queued(q))
<1>1. Exact(2)' <=> Exact(2)
  BY DEF Exact, Follows
<1>2. Certain(q)' = Certain(q)
  BY <1>1 DEF Certain, Least
<1> QED
  BY <1>2 DEF Queued

LEMMA SourceKept ==
    ASSUME Types, Frame, queue' = queue, NEW q \in Requests, bt'[q] = bt[q] \/ Queued(q),
           computed'[q] = computed[q], nacc'[q] = nacc[q], col'[q] = col[q], SourceOK(q)
    PROVE  SourceOK(q)'
<1>1. Len(queue) \in 0 .. 2
  BY QueueIs
<1>2. PICK k \in 0 .. Len(queue) : k = FirstOf(q) - 1 /\ k = (FirstOf(q) - 1)'
  <2>1. FirstOf(q)' = FirstOf(q)
    BY DEF FirstOf
  <2>2. FirstOf(q) - 1 \in 0 .. Len(queue)
    BY <1>1 DEF FirstOf
  <2> QED
    BY <2>1, <2>2
<1>3. PICK t : t = Table(q) /\ t = Table(q)'
  <2>1. FirstOf(q)' = FirstOf(q)
    BY DEF FirstOf
  <2>2. Queued(q) => FirstOf(q) <= Len(queue)
    <3> SUFFICES ASSUME NEW i \in 1 .. Len(queue), queue[i].req = q PROVE FirstOf(q) <= Len(queue)
      BY DEF Queued
    <3>1. i = 1 \/ i = 2
      BY <1>1
    <3> QED
      BY <1>1, <3>1 DEF FirstOf
  <2>3. Table(q)' = Table(q)
    BY <2>1, <2>2 DEF Table
  <2> QED
    BY <2>3
<1>4. PICK s, x, m : s = col[q] /\ x = nacc[q] /\ m = computed[q]
  OBVIOUS
<1>5. SUFFICES ASSUME m > 0 PROVE SourceOK(q)'
  BY <1>4 DEF SourceOK
<1>6. /\ s \in 1 .. Len(t) /\ t[s] # Null /\ (x > 1 => s + 1 <= Len(t))
      /\ \/ /\ Replayed(slot, t[s], t[s + 1], x - 1) = m
            /\ \A i \in 1 .. k : t[s] \notin Writes(i) /\ (x > 1 => t[s + 1] \notin Writes(i))
         \/ x = 1 /\ End(s) = m /\ Good(k, t[s], m)
  BY <1>2, <1>3, <1>4, <1>5 DEF SourceOK
<1>7. s = col'[q] /\ x = nacc'[q] /\ m = computed'[q] /\ slot' = slot
  BY <1>4 DEF Frame
<1>8. CASE /\ Replayed(slot, t[s], t[s + 1], x - 1) = m
           /\ \A i \in 1 .. k : t[s] \notin Writes(i) /\ (x > 1 => t[s + 1] \notin Writes(i))
  <2>1. \A i \in 1 .. k : Writes(i)' = Writes(i)
    <3> SUFFICES ASSUME NEW i \in 1 .. k PROVE Writes(i)' = Writes(i)
      OBVIOUS
    <3>1. i \in 1 .. Len(queue)
      BY <1>1
    <3> QED
      BY <3>1, StepsKept DEF Kept
  <2>2. \A i \in 1 .. k : t[s] \notin Writes(i)' /\ (x > 1 => t[s + 1] \notin Writes(i)')
    BY <1>8, <2>1
  <2>3. Replayed(slot', t[s], t[s + 1], x - 1) = m
    BY <1>7, <1>8
  <2> QED
    BY <1>2, <1>3, <1>6, <1>7, <2>2, <2>3 DEF SourceOK, Replayed, Base
<1>9. CASE x = 1 /\ End(s) = m /\ Good(k, t[s], m)
  <2>1. Good(k, t[s], m)'
    BY <1>9, GoodKept
  <2> QED
    BY <1>2, <1>3, <1>6, <1>7, <1>9, <2>1 DEF SourceOK, Good, Makes, Least, End
<1> QED
  BY <1>6, <1>8, <1>9

LEMMA OwnKept ==
    ASSUME Types, Frame, queue' = queue, NEW q \in Requests, bt'[q] = bt[q],
           Certain(q)' = Certain(q), OwnOK(q)
    PROVE  OwnOK(q)'
<1>1. PICK t, n : t = bt[q] /\ n = Certain(q)
  OBVIOUS
<1>2. PICK l \in Nat : l = Len(queue) /\ l = Len(queue')
  BY QueueIs
<1>3. ASSUME NEW j \in 1 .. Len(t), t[j] # Null, End(j) <= n PROVE Good(l, t[j], End(j))'
  <2>1. Good(l, t[j], End(j))
    BY <1>1, <1>2, <1>3 DEF OwnOK
  <2>2. PICK b, p : b = t[j] /\ p = End(j)
    OBVIOUS
  <2>3. Good(l, b, p)'
    BY <1>2, <2>1, <2>2, GoodKept
  <2> QED
    BY <2>2, <2>3
<1>4. t = bt'[q] /\ n = Certain(q)'
  BY <1>1
<1> QED
  BY <1>2, <1>3, <1>4 DEF OwnOK, Good, Makes, Least, End

LEMMA TableKept ==
    ASSUME Types, Frame, queue' = queue, done' = done, NEW q \in Requests, Untouched(q),
           TableOK(q)
    PROVE  TableOK(q)'
<1>1. /\ Distinct(bt[q]) /\ TotalsOK(q) /\ LastOK(q) /\ IdleOK(q) /\ FreshOK(q)
      /\ PromptOK(q) /\ GrownOK(q)
  BY DEF TableOK
<1>2. /\ bt'[q] = bt[q] /\ computed'[q] = computed[q] /\ nacc'[q] = nacc[q] /\ col'[q] = col[q]
      /\ known'[q] = known[q] /\ flight'[q] = flight[q] /\ prompt'[q] = prompt[q]
      /\ (q \in begun' <=> q \in begun)
  BY DEF Untouched
<1>3. Certain(q)' = Certain(q) /\ (Queued(q)' <=> Queued(q))
  BY <1>2, CertainKept
<1>4. Distinct(bt[q])'
  BY <1>1, <1>2 DEF Distinct
<1>5. TotalsOK(q)'
  BY <1>1, <1>2 DEF TotalsOK, QueuedTokens, DoneTokens, DoneAccepted, Committed
<1>6. LastOK(q)'
  BY <1>1, <1>2 DEF LastOK
<1>7. IdleOK(q)'
  BY <1>1, <1>2, <1>3 DEF IdleOK, End, Column, Full
<1>8. FreshOK(q)'
  BY <1>1, <1>2, <1>3 DEF FreshOK
<1>9. PromptOK(q)'
  BY <1>1, <1>2, <1>3 DEF PromptOK, End, Column
<1>10. GrownOK(q)'
  BY <1>1, <1>2, <1>3 DEF GrownOK, Column
<1> QED
  BY <1>4, <1>5, <1>6, <1>7, <1>8, <1>9, <1>10 DEF TableOK

\* Requests may go, and none comes.
NoneComes ==
    /\ queue' = queue /\ cached' = cached /\ computed' = computed
    /\ \A q \in Requests : Here(q)' => Here(q) /\ bt'[q] = bt[q]

LEMMA SharedKept ==
    ASSUME NoneComes, NEW q \in Requests, Here(q)', SharedOK(q)
    PROVE  SharedOK(q)'
<1>1. SUFFICES ASSUME NEW o \in Requests \ {q}, Here(o)',
                      NEW j \in 1 .. Len(bt'[q]), NEW i \in 1 .. Len(bt'[o]),
                      bt'[q][j] # Null, bt'[q][j] = bt'[o][i]
               PROVE  i = j /\ End(j) <= Certain(q)'
  BY DEF SharedOK, Here, End
<1>2. Here(o) /\ bt'[o] = bt[o] /\ bt'[q] = bt[q] /\ computed' = computed /\ queue' = queue
  BY <1>1 DEF NoneComes
<1>3. i = j /\ End(j) <= Certain(q)
  BY <1>1, <1>2 DEF SharedOK
<1>4. Certain(q)' = Certain(q)
  BY <1>2, CertainKept
<1> QED
  BY <1>3, <1>4

LEMMA CachedKept ==
    ASSUME Types, Frame, NoneComes, NEW p \in 1 .. MaxLen, CachedOK(p)
    PROVE  CachedOK(p)'
<1>1. cached' = cached /\ queue' = queue /\ computed' = computed
  BY DEF NoneComes
<1>2. CASE cached[p] = Null
  BY <1>1, <1>2 DEF CachedOK
<1>3. CASE cached[p] # Null
  <2>1. PICK l \in Nat : l = Len(queue)
    BY QueueIs
  <2>a. PICK b : b = cached[p]
    OBVIOUS
  <2>2. /\ p = End(Column(p)) /\ Good(l, b, p)
        /\ \A o \in 1 .. MaxLen : cached[o] = b => o = p
        /\ \A q \in Requests : Here(q) =>
              \A j \in 1 .. Len(bt[q]) : bt[q][j] = b => p = End(j) /\ p <= Certain(q)
    BY <1>3, <2>1, <2>a DEF CachedOK
  <2>3. Good(l, b, p)'
    BY <2>1, <2>2, GoodKept
  <2>4. Good(Len(queue), cached[p], p)'
    BY <1>1, <2>1, <2>a, <2>3 DEF Good, Makes, Least
  <2>5. ASSUME NEW q \in Requests, Here(q)', NEW j \in 1 .. Len(bt'[q]), bt'[q][j] = b
        PROVE  p = End(j) /\ p <= Certain(q)'
    <3>1. Here(q) /\ bt'[q] = bt[q]
      BY <2>5 DEF NoneComes
    <3>2. p = End(j) /\ p <= Certain(q)
      BY <2>2, <2>5, <3>1
    <3>3. Certain(q)' = Certain(q)
      BY <1>1, CertainKept
    <3> QED
      BY <3>2, <3>3
  <2>6. /\ p = End(Column(p))
        /\ \A o \in 1 .. MaxLen : cached'[o] = cached'[p] => o = p
        /\ \A q \in Requests : Here(q)' =>
              \A j \in 1 .. Len(bt'[q]) : bt'[q][j] = cached'[p] => p = End(j) /\ p <= Certain(q)'
    BY <1>1, <2>a, <2>2, <2>5
  <2> QED
    BY <2>4, <2>6 DEF CachedOK, End, Column
<1> QED
  BY <1>2, <1>3

LEMMA PairKept ==
    ASSUME Types, Frame, queue' = queue,
           Len(queue) = 2 /\ prompt'[queue[1].req] > 0 => Here(queue[1].req), PairOK
    PROVE  PairOK'
<1> SUFFICES ASSUME Len(queue) = 2 PROVE PairOK'
  BY DEF PairOK
<1>1. 2 \in 1 .. Len(queue)
  OBVIOUS
<1>2. Src(2)' = Src(2) /\ Writes(2)' = Writes(2)
  BY <1>1, StepsKept DEF Kept
<1>3. Follows(2)' <=> Follows(2)
  BY DEF Follows
<1>4. PICK s, w : s = Src(2) /\ w = Writes(2) /\ s = Src(2)' /\ w = Writes(2)'
  BY <1>2
<1>5. CASE Follows(2)
  <2>1. /\ \A j \in 1 .. s : queue[2].t[j] \in {Null, queue[1].t[j]}
        /\ queue[2].t[s] = queue[1].t[s]
        /\ queue[2].decode => queue[2].t[s + 1] = queue[1].t[s + 1]
    BY <1>4, <1>5 DEF PairOK
  <2> QED
    BY <1>3, <1>4, <1>5, <2>1 DEF PairOK
<1>6. CASE ~Follows(2)
  <2>1. prompt'[queue[1].req] > 0 => \A j \in 1 .. Len(queue[1].t) : queue[1].t[j] \notin w
    BY <1>4, <1>6 DEF PairOK
  <2> QED
    BY <1>3, <1>4, <1>6, <2>1 DEF PairOK, Here
<1> QED
  BY <1>5, <1>6

LEMMA LeaveKeeps ==
    ASSUME IInv, NEW r \in Requests, Leave(r)
    PROVE  IInv'
<1>1. /\ prompt' = [prompt EXCEPT ![r] = 0] /\ bt' = [bt EXCEPT ![r] = << >>]
      /\ begun' = begun \ {r} /\ retired' = [retired EXCEPT ![r] = 0]
      /\ UNCHANGED <<slot, computed, nacc, col, cached, known, flight, turns, queue, done>>
  BY DEF Leave, workVars
<1>2. Types /\ Frame
  BY <1>1 DEF IInv, Frame
<1>3. Types'
  <2>1. /\ slot \in [Slots -> Content]
        /\ cached \in [1 .. MaxLen -> Slots \cup {Null}]
        /\ known \in [Requests -> 0 .. MaxLen]
        /\ flight \in [Requests -> 0 .. MaxLen]
        /\ computed \in [Requests -> 0 .. MaxLen] /\ nacc \in [Requests -> 1 .. 1 + Drafts]
        /\ col \in [Requests -> 0 .. MaxLen]
        /\ queue \in Seq(Entry) /\ done \in Seq(Outcome) /\ Len(queue) + Len(done) <= 2
        /\ \A i \in 1 .. Len(done) : done[i].accepted <= done[i].n
        /\ turns \in 0 .. MaxTurns
    BY <1>2 DEF Types
  <2>2. bt' \in [Requests -> Tables]
    <3>1. << >> \in Tables
      BY DEF Tables
    <3>2. bt \in [Requests -> Tables]
      BY <1>2 DEF Types
    <3> QED
      BY <1>1, <3>1, <3>2
  <2>3. /\ prompt' \in [Requests -> 0 .. MaxLen] /\ retired' \in [Requests -> 0 .. MaxLen]
        /\ begun' \subseteq Requests
    <3>1. 0 \in 0 .. MaxLen
      BY Sizes
    <3>2. /\ prompt \in [Requests -> 0 .. MaxLen] /\ retired \in [Requests -> 0 .. MaxLen]
          /\ begun \subseteq Requests
      BY <1>2 DEF Types
    <3> QED
      BY <1>1, <3>1, <3>2
  <2> QED
    BY <1>1, <2>1, <2>2, <2>3 DEF Types, Tables
<1>4. /\ prompt'[r] = 0 /\ bt'[r] = << >> /\ retired'[r] = 0 /\ ~Here(r)'
      /\ \A q \in Requests : q # r => Untouched(q)
  <2>1. /\ prompt \in [Requests -> 0 .. MaxLen] /\ retired \in [Requests -> 0 .. MaxLen]
        /\ bt \in [Requests -> Tables]
    BY <1>2 DEF Types
  <2>2. prompt'[r] = 0 /\ bt'[r] = << >> /\ retired'[r] = 0
    BY <1>1, <2>1
  <2>3. \A q \in Requests : q # r => Untouched(q)
    BY <1>1, <2>1 DEF Untouched
  <2> QED
    BY <2>2, <2>3 DEF Here
<1>5. NoneComes
  <2>1. \A q \in Requests : Here(q)' => Here(q) /\ bt'[q] = bt[q]
    BY <1>4 DEF Untouched, Here
  <2> QED
    BY <1>1, <2>1 DEF NoneComes
<1>6. PairOK'
  <2>1. Len(queue) = 2 /\ prompt'[queue[1].req] > 0 => Here(queue[1].req)
    <3>1. Len(queue) = 2 => queue[1].req \in Requests
      BY <1>2, QueueIs
    <3>2. \A q \in Requests : prompt'[q] > 0 => prompt[q] > 0
      BY <1>5 DEF NoneComes, Here
    <3> QED
      BY <3>1, <3>2 DEF Here
  <2> QED
    BY <1>1, <1>2, <2>1, PairKept DEF IInv
<1>7. \A i \in 1 .. Len(queue') : EntryOK(i)'
  BY <1>1, <1>2, StepsKept DEF IInv, Kept
<1>8. ASSUME NEW q \in Requests PROVE RequestOK(q)'
  <2>1. RequestOK(q)
    BY DEF IInv
  <2>2. Here(q)' \/ Queued(q)' => SourceOK(q)'
    <3>1. (Here(q)' => Here(q) /\ bt'[q] = bt[q]) /\ (Queued(q)' <=> Queued(q))
      BY <1>1, <1>5 DEF NoneComes, Queued
    <3> SUFFICES ASSUME Here(q)' \/ Queued(q)' PROVE SourceOK(q)'
      OBVIOUS
    <3>2. SourceOK(q) /\ (bt'[q] = bt[q] \/ Queued(q))
      BY <2>1, <3>1 DEF RequestOK
    <3> QED
      BY <1>1, <1>2, <3>2, SourceKept
  <2>3. CASE q = r
    <3>1. bt'[q] = << >> /\ q \notin begun' /\ retired'[q] <= Len(bt'[q]) /\ ~Here(q)'
      <4>1. Len(<< >>) = 0 /\ bt'[q] = << >> /\ retired'[q] = 0 /\ ~Here(q)'
        BY <1>4, <2>3
      <4> QED
        BY <1>1, <2>3, <4>1
    <3> QED
      BY <2>2, <3>1 DEF RequestOK
  <2>4. CASE q # r
    <3>1. Untouched(q)
      BY <1>4, <2>4
    <3>2. Here(q)' <=> Here(q)
      BY <3>1 DEF Untouched, Here
    <3>3. Here(q) => TableOK(q)' /\ OwnOK(q)' /\ SharedOK(q)'
      <4> SUFFICES ASSUME Here(q) PROVE TableOK(q)' /\ OwnOK(q)' /\ SharedOK(q)'
        OBVIOUS
      <4>1. TableOK(q) /\ OwnOK(q) /\ SharedOK(q)
        BY <2>1 DEF RequestOK
      <4>2. TableOK(q)'
        BY <1>1, <1>2, <3>1, <4>1, TableKept
      <4>3. bt'[q] = bt[q] /\ Certain(q)' = Certain(q)
        BY <1>1, <3>1, CertainKept DEF Untouched
      <4>4. OwnOK(q)'
        BY <1>1, <1>2, <4>1, <4>3, OwnKept
      <4>5. SharedOK(q)'
        BY <1>5, <3>2, <4>1, SharedKept
      <4> QED
        BY <4>2, <4>4, <4>5
    <3>4. (~Here(q)' => bt'[q] = << >> /\ q \notin begun') /\ retired'[q] <= Len(bt'[q])
      BY <2>1, <3>1, <3>2 DEF RequestOK, Untouched
    <3> QED
      BY <2>2, <3>2, <3>3, <3>4 DEF RequestOK
  <2> QED
    BY <2>3, <2>4
<1>9. \A p \in 1 .. MaxLen : CachedOK(p)'
  BY <1>2, <1>5, CachedKept DEF IInv
<1> QED
  BY <1>3, <1>6, <1>7, <1>8, <1>9 DEF IInv

-----------------------------------------------------------------------------
(* The scheduler learns of a step.                                         *)

LEMMA HeadIs ==
    ASSUME Types, done # << >>, NEW d, d = Head(done)
    PROVE  /\ 1 \in 1 .. Len(done) /\ d = done[1]
           /\ d.n \in Nat /\ d.accepted \in Nat /\ d.accepted <= d.n /\ d.req \in Requests
<1>1. 1 \in 1 .. Len(done) /\ d = done[1]
  <2>1. done \in Seq(Outcome)
    BY DEF Types
  <2> QED
    BY <2>1
<1>2. MaxLen \in Nat
  BY Sizes
<1> QED
  BY <1>1, <1>2, QueueIs

LEMMA SumsOut ==
    ASSUME Types, done # << >>, done' = Tail(done), NEW d, d = Head(done), NEW q \in Requests
    PROVE  /\ DoneTokens(q) = DoneTokens(q)' + (IF d.req = q THEN d.n ELSE 0)
           /\ DoneAccepted(q) = DoneAccepted(q)' + (IF d.req = q THEN d.accepted ELSE 0)
           /\ DoneTokens(q)' \in Nat /\ DoneAccepted(q)' \in Nat
           /\ DoneAccepted(q)' <= DoneTokens(q)'
<1>1. PICK l \in 1 .. 2 : l = Len(done)
  <2>1. Len(done) \in 0 .. 2 /\ done \in Seq(Outcome)
    BY QueueIs DEF Types
  <2>2. Len(done) # 0
    BY <2>1
  <2> QED
    BY <2>1, <2>2
<1>2. d = done[1] /\ Len(done') = l - 1 /\ (l = 2 => done'[1] = done[2])
  <2>1. done \in Seq(Outcome)
    BY DEF Types
  <2> QED
    BY <1>1, <2>1
<1>a. PICK k \in 0 .. 1 : k = Len(done') /\ k = l - 1
  <2>1. l - 1 \in 0 .. 1
    OBVIOUS
  <2> QED
    BY <1>2, <2>1
<1>3. d.n \in Nat /\ d.accepted \in Nat /\ d.accepted <= d.n
  BY HeadIs
<1>4. PICK x \in Nat, y \in Nat : x = d.n /\ y = d.accepted
  BY <1>3
<1>5. PICK z \in Nat, w \in Nat : w <= z /\ (l = 2 => z = done[2].n /\ w = done[2].accepted)
  <2>1. CASE l = 2
    <3>1. 2 \in 1 .. Len(done) /\ MaxLen \in Nat
      BY <1>1, <2>1, Sizes
    <3>2. done[2].n \in Nat /\ done[2].accepted \in Nat /\ done[2].accepted <= done[2].n
      BY <3>1, QueueIs
    <3> QED
      BY <3>2
  <2>2. CASE l # 2
    <3>1. 0 \in Nat /\ 0 <= 0
      OBVIOUS
    <3> QED
      BY <2>2, <3>1
  <2> QED
    BY <2>1, <2>2
<1>6. CASE l = 1
  <2>1. /\ DoneTokens(q) = (IF d.req = q THEN x ELSE 0) + 0
        /\ DoneAccepted(q) = (IF d.req = q THEN y ELSE 0) + 0
    BY <1>1, <1>2, <1>4, <1>6 DEF DoneTokens, DoneAccepted
  <2>2. DoneTokens(q)' = 0 /\ DoneAccepted(q)' = 0
    <3>1. ~(Len(done') >= 1) /\ ~(Len(done') >= 2)
      <4>1. k = 0
        BY <1>a, <1>6
      <4>2. ~(k >= 1) /\ ~(k >= 2)
        BY <4>1
      <4> QED
        BY <1>a, <4>2
    <3>2. DoneTokens(q)' = 0 + 0
      BY <3>1 DEF DoneTokens
    <3>3. DoneAccepted(q)' = 0 + 0
      BY <3>1 DEF DoneAccepted
    <3> QED
      BY <3>2, <3>3
  <2> QED
    BY <1>3, <1>4, <2>1, <2>2
<1>7. CASE l = 2
  <2>1. /\ DoneTokens(q) = (IF d.req = q THEN x ELSE 0) + (IF done[2].req = q THEN z ELSE 0)
        /\ DoneAccepted(q) = (IF d.req = q THEN y ELSE 0) + (IF done[2].req = q THEN w ELSE 0)
    BY <1>1, <1>2, <1>4, <1>5, <1>7 DEF DoneTokens, DoneAccepted
  <2>2. /\ DoneTokens(q)' = (IF done[2].req = q THEN z ELSE 0) + 0
        /\ DoneAccepted(q)' = (IF done[2].req = q THEN w ELSE 0) + 0
    <3>1. Len(done') >= 1 /\ ~(Len(done') >= 2) /\ done'[1] = done[2]
      <4>1. k = 1
        BY <1>a, <1>7
      <4>2. k >= 1 /\ ~(k >= 2)
        BY <4>1
      <4> QED
        BY <1>2, <1>7, <1>a, <4>2
    <3>2. DoneTokens(q)' = (IF done[2].req = q THEN z ELSE 0) + 0
      BY <1>5, <1>7, <3>1 DEF DoneTokens
    <3>3. DoneAccepted(q)' = (IF done[2].req = q THEN w ELSE 0) + 0
      BY <1>5, <1>7, <3>1 DEF DoneAccepted
    <3> QED
      BY <3>2, <3>3
  <2>3. PICK a \in Nat, b \in Nat : /\ a = IF done[2].req = q THEN z ELSE 0
                                    /\ b = IF done[2].req = q THEN w ELSE 0
                                    /\ b <= a
    <3>1. CASE done[2].req = q
      BY <1>5, <3>1
    <3>2. CASE done[2].req # q
      <4>1. 0 \in Nat /\ 0 <= 0
        OBVIOUS
      <4> QED
        BY <3>2, <4>1
    <3> QED
      BY <3>1, <3>2
  <2>4. DoneTokens(q)' = a /\ DoneAccepted(q)' = b
    BY <2>2, <2>3
  <2>5. /\ DoneTokens(q) = a + (IF d.req = q THEN x ELSE 0)
        /\ DoneAccepted(q) = b + (IF d.req = q THEN y ELSE 0)
    BY <2>1, <2>3
  <2> QED
    BY <1>3, <1>4, <2>3, <2>4, <2>5
<1> QED
  BY <1>6, <1>7

(* What is queued is at least what is certain.                             *)
LEMMA CertainQueued ==
    ASSUME IInv, NEW q \in Requests
    PROVE  Certain(q) <= computed[q] + QueuedTokens(q)
<1>1. Len(queue) \in 0 .. 2 /\ computed[q] \in Nat
  BY QueueIs, TypesAre DEF IInv
<1>2. ASSUME NEW i \in 1 .. Len(queue)
      PROVE  Least(queue[i]) \in Nat /\ queue[i].n \in Nat /\ Least(queue[i]) <= queue[i].n
  <2>1. queue[i].n \in 1 .. MaxLen
    BY QueueIs DEF IInv
  <2> QED
    BY <2>1, Sizes DEF Least
<1>3. PICK a \in Nat, b \in Nat :
         /\ a = IF Len(queue) >= 1 /\ queue[1].req = q THEN Least(queue[1]) ELSE 0
         /\ b = IF Len(queue) >= 1 /\ queue[1].req = q THEN queue[1].n ELSE 0
         /\ a <= b
  BY <1>1, <1>2
<1>4. PICK x \in Nat, y \in Nat :
         /\ x = IF Len(queue) >= 2 /\ queue[2].req = q /\ Exact(2) THEN Least(queue[2]) ELSE 0
         /\ y = IF Len(queue) >= 2 /\ queue[2].req = q THEN queue[2].n ELSE 0
         /\ x <= y
  <2>1. CASE Len(queue) >= 2 /\ queue[2].req = q
    <3>1. 2 \in 1 .. Len(queue)
      BY <1>1, <2>1
    <3>2. Least(queue[2]) \in Nat /\ queue[2].n \in Nat /\ Least(queue[2]) <= queue[2].n
      BY <1>2, <3>1
    <3>3. CASE Exact(2)
      BY <2>1, <3>2, <3>3
    <3>4. CASE ~Exact(2)
      BY <2>1, <3>2, <3>4
    <3> QED
      BY <3>3, <3>4
  <2>2. CASE ~(Len(queue) >= 2 /\ queue[2].req = q)
    BY <2>2
  <2> QED
    BY <2>1, <2>2
<1>5. Certain(q) = computed[q] + a + x
  BY <1>3, <1>4 DEF Certain
<1>6. QueuedTokens(q) = b + y
  BY <1>3, <1>4 DEF QueuedTokens
<1>7. a <= b /\ x <= y
  BY <1>3, <1>4
<1> QED
  BY <1>1, <1>5, <1>6, <1>7

LEMMA OutputKeeps ==
    ASSUME IInv, Output
    PROVE  IInv'
<1>1. PICK d : d = Head(done)
  OBVIOUS
<1>2. /\ done # << >> /\ done' = Tail(done)
      /\ UNCHANGED <<slot, computed, nacc, col, cached, bt, begun, prompt, retired, turns, queue>>
      /\ IF Here(d.req) THEN /\ known' = [known EXCEPT ![d.req] = @ - (d.n - d.accepted)]
                             /\ flight' = [flight EXCEPT ![d.req] = @ - d.n]
                        ELSE UNCHANGED <<known, flight>>
  BY <1>1 DEF Output, workVars
<1>3. Types /\ Frame
  BY <1>2 DEF IInv, Frame
<1>4. d.n \in Nat /\ d.accepted \in Nat /\ d.accepted <= d.n /\ d.req \in Requests
  BY <1>1, <1>2, <1>3, HeadIs
<1>5. known \in [Requests -> 0 .. MaxLen] /\ flight \in [Requests -> 0 .. MaxLen]
  BY <1>3 DEF Types
<1>6. ASSUME NEW q \in Requests, Here(q)
      PROVE  /\ known'[q] \in 0 .. MaxLen /\ flight'[q] \in 0 .. MaxLen /\ TotalsOK(q)'
             /\ known'[q] <= known[q] /\ computed[q] + QueuedTokens(q) <= known'[q]
             /\ (d.req = q => d.accepted = d.n) => known'[q] = known[q]
  <2>1. TableOK(q)
    BY <1>6 DEF IInv, RequestOK
  <2>2. PICK a \in Nat, b \in Nat :
           a = (IF d.req = q THEN d.n ELSE 0) /\ b = (IF d.req = q THEN d.accepted ELSE 0) /\ b <= a
    BY <1>4
  <2>3. PICK n \in Nat, x \in Nat, y \in Nat, z \in Nat :
           n = computed[q] /\ x = QueuedTokens(q) /\ y = DoneTokens(q)' /\ z = DoneAccepted(q)' /\ z <= y
    <3>1. computed[q] \in Nat /\ QueuedTokens(q) \in Nat
      BY <1>3, TypesAre, SumsAre
    <3>2. DoneTokens(q)' \in Nat /\ DoneAccepted(q)' \in Nat /\ DoneAccepted(q)' <= DoneTokens(q)'
      BY <1>1, <1>2, <1>3, SumsOut
    <3> QED
      BY <3>1, <3>2
  <2>4. DoneTokens(q) = y + a /\ DoneAccepted(q) = z + b
    <3>1. /\ DoneTokens(q) = DoneTokens(q)' + (IF d.req = q THEN d.n ELSE 0)
          /\ DoneAccepted(q) = DoneAccepted(q)' + (IF d.req = q THEN d.accepted ELSE 0)
      BY <1>1, <1>2, <1>3, SumsOut
    <3> QED
      BY <2>2, <2>3, <3>1
  <2>5. known[q] = n + x + (y + a) - (z + b) /\ flight[q] = x + (y + a) /\ Committed(q) >= 0
    BY <2>1, <2>3, <2>4 DEF TableOK, TotalsOK
  <2>6. known'[q] = known[q] - (a - b) /\ flight'[q] = flight[q] - a
    <3>1. CASE d.req = q
      <4>1. known'[q] = known[q] - (d.n - d.accepted) /\ flight'[q] = flight[q] - d.n
        BY <1>2, <1>5, <1>6, <3>1
      <4> QED
        BY <2>2, <3>1, <4>1
    <3>2. CASE d.req # q
      <4>1. known'[q] = known[q] /\ flight'[q] = flight[q]
        BY <1>2, <1>5, <3>2
      <4>2. known[q] \in Nat /\ flight[q] \in Nat
        BY <1>3, TypesAre
      <4> QED
        BY <2>2, <3>2, <4>1, <4>2
    <3> QED
      BY <3>1, <3>2
  <2>7. known'[q] = n + x + y - z /\ flight'[q] = x + y
    BY <2>2, <2>5, <2>6
  <2>8. known'[q] <= known[q] /\ n + x <= known'[q] /\ known'[q] \in Nat /\ flight'[q] \in Nat
        /\ flight'[q] <= flight[q] /\ known'[q] - flight'[q] = known[q] - flight[q] + b
    BY <2>2, <2>3, <2>5, <2>7
  <2>9. known[q] \in Nat /\ known[q] <= MaxLen /\ flight[q] \in Nat /\ flight[q] <= MaxLen /\ MaxLen \in Nat
    BY <1>3, TypesAre, Sizes
  <2>10. known'[q] \in 0 .. MaxLen /\ flight'[q] \in 0 .. MaxLen
    BY <2>8, <2>9
  <2>11. Committed(q)' >= 0
    <3>1. Committed(q) = known[q] - flight[q] /\ Committed(q)' = known'[q] - flight'[q]
      BY DEF Committed
    <3> QED
      BY <2>5, <2>8, <2>9, <3>1
  <2>12. QueuedTokens(q)' = x /\ computed'[q] = n
    <3>1. QueuedTokens(q)' = QueuedTokens(q)
      BY <1>2 DEF QueuedTokens
    <3> QED
      BY <1>2, <2>3, <3>1
  <2>13. TotalsOK(q)'
    BY <2>3, <2>7, <2>11, <2>12 DEF TotalsOK
  <2>14. (d.req = q => d.accepted = d.n) => known'[q] = known[q]
    BY <1>4, <2>2, <2>6, <2>9
  <2> QED
    BY <2>3, <2>8, <2>10, <2>13, <2>14
<1>7. Types'
  <2>1. /\ slot \in [Slots -> Content]
        /\ cached \in [1 .. MaxLen -> Slots \cup {Null}]
        /\ bt \in [Requests -> Tables]
        /\ begun \subseteq Requests
        /\ prompt \in [Requests -> 0 .. MaxLen] /\ retired \in [Requests -> 0 .. MaxLen]
        /\ computed \in [Requests -> 0 .. MaxLen] /\ nacc \in [Requests -> 1 .. 1 + Drafts]
        /\ col \in [Requests -> 0 .. MaxLen]
        /\ queue \in Seq(Entry)
        /\ turns \in 0 .. MaxTurns
    BY <1>3 DEF Types
  <2>2. /\ done' \in Seq(Outcome) /\ Len(queue) + Len(done') <= 2
        /\ \A i \in 1 .. Len(done') : done'[i].accepted <= done'[i].n
    <3>1. /\ done \in Seq(Outcome) /\ Len(queue) + Len(done) <= 2 /\ Len(queue) \in Nat
          /\ \A i \in 1 .. Len(done) : done[i].accepted <= done[i].n
      BY <1>3 DEF Types
    <3>2. /\ done' \in Seq(Outcome) /\ Len(done') = Len(done) - 1 /\ Len(done) \in Nat
          /\ \A i \in 1 .. Len(done') : i + 1 \in 1 .. Len(done) /\ done'[i] = done[i + 1]
      BY <1>2, <3>1
    <3> QED
      BY <3>1, <3>2
  <2>3. known' \in [Requests -> 0 .. MaxLen] /\ flight' \in [Requests -> 0 .. MaxLen]
    <3>1. CASE Here(d.req)
      <4>1. known'[d.req] \in 0 .. MaxLen /\ flight'[d.req] \in 0 .. MaxLen
        BY <1>4, <1>6, <3>1
      <4>2. PICK x \in 0 .. MaxLen, y \in 0 .. MaxLen : x = known'[d.req] /\ y = flight'[d.req]
        BY <4>1
      <4>3. known' = [known EXCEPT ![d.req] = x] /\ flight' = [flight EXCEPT ![d.req] = y]
        BY <1>2, <1>4, <1>5, <3>1, <4>2
      <4> QED
        BY <1>5, <4>3
    <3>2. CASE ~Here(d.req)
      BY <1>2, <1>5, <3>2
    <3> QED
      BY <3>1, <3>2
  <2> QED
    BY <1>2, <2>1, <2>2, <2>3 DEF Types, Tables
<1>8. NoneComes
  BY <1>2 DEF NoneComes, Here
<1>9. PairOK'
  <2>1. Len(queue) = 2 /\ prompt'[queue[1].req] > 0 => Here(queue[1].req)
    BY <1>2 DEF Here
  <2> QED
    BY <1>2, <1>3, <2>1, PairKept DEF IInv
<1>10. \A i \in 1 .. Len(queue') : EntryOK(i)'
  BY <1>2, <1>3, StepsKept DEF IInv, Kept
<1>11. ASSUME NEW q \in Requests, Here(q) PROVE TableOK(q)'
  <2>1. /\ Distinct(bt[q]) /\ TotalsOK(q) /\ LastOK(q) /\ IdleOK(q) /\ FreshOK(q)
        /\ PromptOK(q) /\ GrownOK(q)
    BY <1>11 DEF IInv, RequestOK, TableOK
  <2>2. bt' = bt /\ computed' = computed /\ nacc' = nacc /\ col' = col /\ prompt' = prompt
        /\ begun' = begun /\ queue' = queue
    BY <1>2
  <2>3. Certain(q)' = Certain(q) /\ (Queued(q)' <=> Queued(q))
    BY <2>2, CertainKept
  <2>4. /\ known'[q] \in Nat /\ known[q] \in Nat /\ known'[q] <= known[q] /\ TotalsOK(q)'
        /\ computed[q] + QueuedTokens(q) <= known'[q] /\ prompt[q] \in Nat
        /\ ((d.req = q => d.accepted = d.n) => known'[q] = known[q])
    BY <1>3, <1>6, <1>11, TypesAre
  <2>5. known'[q] < prompt[q] => known[q] < prompt[q] /\ known'[q] = known[q]
    <3> SUFFICES ASSUME known'[q] < prompt[q] PROVE known[q] < prompt[q] /\ known'[q] = known[q]
      OBVIOUS
    <3>1. known[q] < prompt[q]
      <4>1. Certain(q) <= computed[q] + QueuedTokens(q) /\ Certain(q) \in Nat
        BY <1>3, CertainQueued, CertainIs
      <4>2. computed[q] \in Nat /\ QueuedTokens(q) \in Nat
        BY <1>3, TypesAre, SumsAre
      <4>3. ~(Certain(q) >= prompt[q])
        BY <2>4, <4>1, <4>2
      <4>4. ~(known[q] >= prompt[q])
        BY <2>1, <4>3 DEF GrownOK
      <4> QED
        BY <2>4, <4>4
    <3>2. d.req = q => d.accepted = d.n
      <4>1. \A i \in 1 .. Len(done) : done[i].req = q => done[i].accepted = done[i].n
        BY <2>1, <3>1 DEF PromptOK
      <4>2. 1 \in 1 .. Len(done) /\ d = done[1]
        BY <1>1, <1>2, <1>3, HeadIs
      <4> QED
        BY <4>1, <4>2
    <3> QED
      BY <2>4, <3>1, <3>2
  <2>6. Distinct(bt[q])' /\ LastOK(q)'
    BY <2>1, <2>2 DEF Distinct, LastOK
  <2>7. IdleOK(q)'
    BY <2>1, <2>2, <2>3 DEF IdleOK, End, Column, Full
  <2>8. FreshOK(q)'
    <3>1. q \notin begun => known[q] < prompt[q]
      BY <2>1 DEF FreshOK
    <3>2. q \notin begun => known'[q] = known[q]
      <4> SUFFICES ASSUME q \notin begun PROVE known'[q] = known[q]
        OBVIOUS
      <4>1. known'[q] < prompt[q]
        BY <2>4, <3>1
      <4> QED
        BY <2>5, <4>1
    <3> QED
      BY <2>1, <2>2, <2>3, <3>2 DEF FreshOK
  <2>9. PromptOK(q)'
    <3> SUFFICES ASSUME known'[q] < prompt[q] PROVE PromptOK(q)'
      BY <2>2 DEF PromptOK
    <3>1. known[q] < prompt[q] /\ known'[q] = known[q]
      BY <2>5
    <3>2. /\ q \in begun => Len(bt[q]) = Column(known[q]) + 1
          /\ \A i \in 1 .. Len(queue) : queue[i].req = q => ~queue[i].decode
          /\ \A i \in 1 .. Len(done) : done[i].req = q => done[i].accepted = done[i].n
          /\ known[q] = End(Column(known[q]))
          /\ ~Queued(q) => nacc[q] = 1 /\ End(col[q]) = computed[q]
      BY <2>1, <3>1 DEF PromptOK
    <3>3. \A i \in 1 .. Len(done') : done'[i].req = q => done'[i].accepted = done'[i].n
      <4>1. done \in Seq(Outcome)
        BY <1>3 DEF Types
      <4>2. \A i \in 1 .. Len(done') : i + 1 \in 1 .. Len(done) /\ done'[i] = done[i + 1]
        BY <1>2, <4>1
      <4> QED
        BY <3>2, <4>2
    <3> QED
      BY <2>2, <2>3, <3>1, <3>2, <3>3 DEF PromptOK, End, Column
  <2>10. GrownOK(q)'
    <3> SUFFICES ASSUME known'[q] >= prompt[q]
                 PROVE  Certain(q) >= prompt[q] /\ Len(bt[q]) >= Column(known'[q]) + 1
      BY <2>2, <2>3 DEF GrownOK, Column
    <3>1. known[q] >= prompt[q]
      BY <2>4
    <3>2. Certain(q) >= prompt[q] /\ Len(bt[q]) >= Column(known[q]) + 1
      BY <2>1, <3>1 DEF GrownOK
    <3>3. Column(known'[q]) <= Column(known[q]) /\ Column(known'[q]) \in Nat /\ Column(known[q]) \in Nat
          /\ Len(bt[q]) \in Nat
      BY <1>3, <2>4, ColumnGrows, Columns, TypesAre
    <3> QED
      BY <3>2, <3>3
  <2> QED
    BY <2>4, <2>6, <2>7, <2>8, <2>9, <2>10 DEF TableOK
<1>12. ASSUME NEW q \in Requests PROVE RequestOK(q)'
  <2>1. RequestOK(q)
    BY DEF IInv
  <2>2. (Here(q)' <=> Here(q)) /\ (Queued(q)' <=> Queued(q)) /\ Certain(q)' = Certain(q)
    BY <1>2, CertainKept DEF Here
  <2>3. Here(q)' \/ Queued(q)' => SourceOK(q)'
    <3> SUFFICES ASSUME Here(q) \/ Queued(q) PROVE SourceOK(q)'
      BY <2>2
    <3>1. SourceOK(q)
      BY <2>1 DEF RequestOK
    <3> QED
      BY <1>2, <1>3, <3>1, SourceKept
  <2>4. Here(q)' => OwnOK(q)' /\ SharedOK(q)'
    <3> SUFFICES ASSUME Here(q) PROVE OwnOK(q)' /\ SharedOK(q)'
      BY <2>2
    <3>1. OwnOK(q) /\ SharedOK(q)
      BY <2>1 DEF RequestOK
    <3>2. OwnOK(q)'
      BY <1>2, <1>3, <2>2, <3>1, OwnKept
    <3> QED
      BY <1>8, <2>2, <3>1, <3>2, SharedKept
  <2>5. (~Here(q)' => bt'[q] = << >> /\ q \notin begun') /\ retired'[q] <= Len(bt'[q])
    BY <1>2, <2>1, <2>2 DEF RequestOK
  <2>6. Here(q)' => TableOK(q)'
    BY <1>11, <2>2
  <2> QED
    BY <2>3, <2>4, <2>5, <2>6 DEF RequestOK
<1>13. \A p \in 1 .. MaxLen : CachedOK(p)'
  BY <1>3, <1>8, CachedKept DEF IInv
<1> QED
  BY <1>7, <1>9, <1>10, <1>12, <1>13 DEF IInv

-----------------------------------------------------------------------------
(* The first state, and a request that arrives.                            *)

LEMMA InitHolds == Init => IInv
<1> SUFFICES ASSUME Init PROVE IInv
  OBVIOUS
<1>1. /\ slot = [s \in Slots |-> State(Wrong)] /\ cached = [p \in 1 .. MaxLen |-> Null]
      /\ bt = [r \in Requests |-> << >>] /\ begun = {} /\ prompt = [r \in Requests |-> 0]
      /\ known = [r \in Requests |-> 0] /\ flight = [r \in Requests |-> 0]
      /\ retired = [r \in Requests |-> 0] /\ computed = [r \in Requests |-> 0]
      /\ nacc = [r \in Requests |-> 1] /\ col = [r \in Requests |-> 0]
      /\ queue = << >> /\ done = << >> /\ turns = 0
  BY DEF Init
<1>2. Len(queue) = 0 /\ Len(done) = 0 /\ ~(Len(queue) = 2)
  BY <1>1
<1>3. \A i \in 1 .. Len(queue) : FALSE
  BY <1>2
<1>4. \A i \in 1 .. Len(done) : FALSE
  BY <1>2
<1>5. Types
  <2>1. 0 \in 0 .. MaxLen /\ 0 \in 0 .. MaxTurns /\ 1 \in 1 .. 1 + Drafts
    BY Sizes
  <2>2. State(Wrong) \in Content
    BY StateIs
  <2>3. slot \in [Slots -> Content]
    BY <1>1, <2>2
  <2>4. cached \in [1 .. MaxLen -> Slots \cup {Null}]
    BY <1>1
  <2>5. bt \in [Requests -> Tables]
    <3>1. << >> \in Tables
      BY DEF Tables
    <3> QED
      BY <1>1, <3>1
  <2>6. /\ begun \subseteq Requests
        /\ prompt \in [Requests -> 0 .. MaxLen] /\ known \in [Requests -> 0 .. MaxLen]
        /\ flight \in [Requests -> 0 .. MaxLen] /\ retired \in [Requests -> 0 .. MaxLen]
        /\ computed \in [Requests -> 0 .. MaxLen] /\ nacc \in [Requests -> 1 .. 1 + Drafts]
        /\ col \in [Requests -> 0 .. MaxLen] /\ turns \in 0 .. MaxTurns
    BY <1>1, <2>1
  <2>7. queue \in Seq(Entry) /\ done \in Seq(Outcome) /\ Len(queue) + Len(done) <= 2
    BY <1>1, <1>2
  <2> QED
    BY <1>4, <2>3, <2>4, <2>5, <2>6, <2>7 DEF Types
<1>6. PairOK
  BY <1>2 DEF PairOK
<1>7. \A r \in Requests : RequestOK(r)
  <2> SUFFICES ASSUME NEW r \in Requests PROVE RequestOK(r)
    OBVIOUS
  <2>1. ~Here(r) /\ ~Queued(r)
    <3>1. prompt[r] = 0
      BY <1>1
    <3> QED
      BY <1>3, <3>1 DEF Here, Queued
  <2>2. bt[r] = << >> /\ r \notin begun /\ retired[r] <= Len(bt[r])
    <3>1. bt[r] = << >> /\ retired[r] = 0 /\ Len(<< >>) = 0
      BY <1>1
    <3> QED
      BY <1>1, <3>1
  <2> QED
    BY <2>1, <2>2 DEF RequestOK
<1>8. \A p \in 1 .. MaxLen : CachedOK(p)
  BY <1>1 DEF CachedOK
<1> QED
  BY <1>3, <1>5, <1>6, <1>7, <1>8 DEF IInv

\* The table of a request that found the prefix up to h in block b.
Found(t, h, b) ==
    /\ t \in Tables /\ Len(t) = Column(h) /\ Distinct(t)
    /\ h > 0 => t[Column(h)] = b
    /\ \A j \in 1 .. Len(t) : t[j] # Null => h > 0 /\ j = Column(h) /\ t[j] = b

LEMMA FoundIs ==
    ASSUME NEW h \in Nat, NEW b, h > 0 => b \in Slots, NEW t,
           t = [i \in 1 .. Column(h) |-> IF i = Column(h) THEN b ELSE Null]
    PROVE  Found(t, h, b)
<1>1. PICK c \in Nat : c = Column(h) /\ (h > 0 <=> c > 0)
  BY Columns
<1>2. t = [i \in 1 .. c |-> IF i = c THEN b ELSE Null]
  BY <1>1
<1>3. t \in [1 .. c -> Slots \cup {Null}]
  <2>1. \A i \in 1 .. c : i = c => b \in Slots
    BY <1>1
  <2> QED
    BY <1>2, <2>1
<1>4. t \in Tables /\ Len(t) = c
  <2> DEFINE S == Slots \cup {Null}
  <2>1. t \in [1 .. c -> S]
    BY <1>3
  <2> HIDE DEF S
  <2>2. t \in Seq(S)
    BY <1>1, <2>1, SeqDef
  <2>3. DOMAIN t = 1 .. c
    BY <2>1
  <2>4. Len(t) = c
    BY <1>1, <2>2, <2>3, LenProperties
  <2> QED
    BY <2>2, <2>4 DEF Tables, S
<1>a. \A j \in 1 .. c : t[j] = IF j = c THEN b ELSE Null
  <2> HIDE <1>3, <1>4
  <2> QED
    BY <1>2, Zenon
<1>5. \A j \in 1 .. c : t[j] # Null => j = c /\ t[j] = b /\ c > 0
  BY <1>1, <1>a
<1>6. c > 0 => t[c] = b
  BY <1>1, <1>a
<1>7. Distinct(t)
  BY <1>4, <1>5 DEF Distinct
<1> QED
  BY <1>1, <1>4, <1>5, <1>6, <1>7 DEF Found

ArrivedOK(r, p, hit, b) ==
    /\ r \in Requests /\ p \in 1 .. MaxLen /\ hit \in 0 .. MaxLen
    /\ ~Here(r) /\ ~Queued(r) /\ \A i \in 1 .. Len(done) : done[i].req # r
    /\ hit < p /\ (hit > 0 => b \in Slots /\ b = cached[hit])
    /\ Found(bt'[r], hit, b)
    /\ prompt'[r] = p /\ known'[r] = hit /\ flight'[r] = 0 /\ computed'[r] = hit
    /\ nacc'[r] = 1 /\ col'[r] = Column(hit)
    /\ UNCHANGED <<slot, cached, begun, retired, queue, done>>
    /\ Frame
    /\ \A q \in Requests : q # r => Untouched(q)
    /\ r \notin begun /\ retired[r] = 0
    /\ Certain(r)' = hit

LEMMA ArriveIs ==
    ASSUME IInv, NEW r \in Requests, NEW p \in Prompts, NEW hit \in 0 .. MaxLen, Arrive(r, p, hit),
           NEW b, hit > 0 => b = cached[hit]
    PROVE  ArrivedOK(r, p, hit, b) /\ Types'
<1>1. /\ ~Here(r) /\ ~InFlight(r) /\ turns < MaxTurns /\ turns' = turns + 1
      /\ IF hit = 0 THEN TRUE ELSE hit < p /\ cached[hit] # Null
      /\ prompt' = [prompt EXCEPT ![r] = p]
      /\ bt' = [bt EXCEPT ![r] = [i \in 1 .. Column(hit) |->
                                     IF i = Column(hit) THEN cached[hit] ELSE Null]]
      /\ known' = [known EXCEPT ![r] = hit] /\ flight' = [flight EXCEPT ![r] = 0]
      /\ computed' = [computed EXCEPT ![r] = hit] /\ nacc' = [nacc EXCEPT ![r] = 1]
      /\ col' = [col EXCEPT ![r] = Column(hit)]
      /\ UNCHANGED <<slot, cached, begun, retired, queue, done>>
  BY DEF Arrive
<1>2. Types
  BY DEF IInv
<1>3. p \in 1 .. MaxLen /\ hit \in Nat /\ MaxLen \in Nat /\ hit < p
  <2>1. p \in 1 .. MaxLen /\ MaxLen \in Nat
    BY LazyAssumption
  <2> QED
    BY <1>1, <2>1
<1>4. hit > 0 => b \in Slots
  <2>1. cached \in [1 .. MaxLen -> Slots \cup {Null}]
    BY <1>2 DEF Types
  <2>2. hit > 0 => hit \in 1 .. MaxLen /\ cached[hit] # Null
    BY <1>1, <1>3
  <2> QED
    BY <2>1, <2>2
<1>5. ~Queued(r) /\ \A i \in 1 .. Len(done) : done[i].req # r
  <2>1. queue \in Seq(Entry) /\ done \in Seq(Outcome)
    BY <1>2 DEF Types
  <2>2. \A i \in 1 .. Len(queue) : queue[i] \in Range(queue)
    BY <2>1 DEF Range
  <2>3. \A i \in 1 .. Len(done) : done[i] \in Range(done)
    BY <2>1 DEF Range
  <2> QED
    BY <1>1, <2>2, <2>3 DEF InFlight, Queued
<1>6. PICK t : t = [i \in 1 .. Column(hit) |-> IF i = Column(hit) THEN b ELSE Null]
  OBVIOUS
<1>7. Found(t, hit, b)
  BY <1>3, <1>4, <1>6, FoundIs
<1>8. bt' = [bt EXCEPT ![r] = t]
  <2>1. CASE hit > 0
    BY <1>1, <1>6, <2>1
  <2>2. CASE ~(hit > 0)
    <3>1. hit = 0 /\ 0 \in Nat
      BY <1>3, <2>2
    <3>2. Column(0) = 0
      <4>1. Column(0) \in Nat /\ Column(0) <= 0
        BY <3>1, Columns
      <4> QED
        BY <4>1
    <3>3. \A i \in 1 .. Column(hit) : FALSE
      BY <3>1, <3>2
    <3>4. [i \in 1 .. Column(hit) |-> IF i = Column(hit) THEN cached[hit] ELSE Null] = t
      BY <1>6, <3>3
    <3> QED
      BY <1>1, <3>4
  <2> QED
    BY <2>1, <2>2
<1>9. /\ bt \in [Requests -> Tables] /\ prompt \in [Requests -> 0 .. MaxLen]
      /\ known \in [Requests -> 0 .. MaxLen] /\ flight \in [Requests -> 0 .. MaxLen]
      /\ computed \in [Requests -> 0 .. MaxLen] /\ nacc \in [Requests -> 1 .. 1 + Drafts]
      /\ col \in [Requests -> 0 .. MaxLen]
  BY <1>2 DEF Types
<1>10. /\ prompt'[r] = p /\ known'[r] = hit /\ flight'[r] = 0 /\ computed'[r] = hit
       /\ nacc'[r] = 1 /\ col'[r] = Column(hit) /\ bt'[r] = t
       /\ \A q \in Requests : q # r => Untouched(q)
  <2>1. /\ prompt'[r] = p /\ known'[r] = hit /\ flight'[r] = 0 /\ computed'[r] = hit
        /\ nacc'[r] = 1 /\ col'[r] = Column(hit) /\ bt'[r] = t
    BY <1>1, <1>8, <1>9
  <2>2. \A q \in Requests : q # r => Untouched(q)
    BY <1>1, <1>8, <1>9 DEF Untouched
  <2> QED
    BY <2>1, <2>2
<1>11. Frame
  <2> SUFFICES ASSUME NEW i \in 1 .. Len(queue), NEW q, q = queue[i].req
               PROVE  /\ queue'[i] = queue[i] /\ computed'[q] = computed[q] /\ nacc'[q] = nacc[q]
                      /\ col'[q] = col[q]
    BY <1>1 DEF Frame
  <2>1. q \in Requests /\ q # r
    BY <1>2, <1>5, QueueIs DEF Queued
  <2> QED
    BY <1>1, <1>10, <2>1 DEF Untouched
<1>12. r \notin begun /\ retired[r] = 0
  <2>1. bt[r] = << >> /\ r \notin begun /\ retired[r] <= Len(bt[r]) /\ retired[r] \in Nat
    BY <1>1, <1>2, TypesAre DEF IInv, RequestOK
  <2>2. Len(<< >>) = 0
    OBVIOUS
  <2> QED
    BY <2>1, <2>2
<1>13. Certain(r)' = hit
  <2>1. PICK l \in 0 .. 2 : l = Len(queue) /\ l = Len(queue')
    BY <1>1, <1>2, QueueIs
  <2>2. ~(l >= 1 /\ queue'[1].req = r) /\ ~(l >= 2 /\ queue'[2].req = r)
    BY <1>1, <1>5, <2>1 DEF Queued
  <2>3. Certain(r)' = computed'[r] + 0 + 0
    BY <2>1, <2>2 DEF Certain
  <2> QED
    BY <1>3, <1>10, <2>3
<1>14. Types'
  <2>1. /\ slot \in [Slots -> Content] /\ cached \in [1 .. MaxLen -> Slots \cup {Null}]
        /\ begun \subseteq Requests /\ retired \in [Requests -> 0 .. MaxLen]
        /\ queue \in Seq(Entry) /\ done \in Seq(Outcome) /\ Len(queue) + Len(done) <= 2
        /\ \A i \in 1 .. Len(done) : done[i].accepted <= done[i].n
        /\ turns \in 0 .. MaxTurns
    BY <1>2 DEF Types
  <2>2. turns' \in 0 .. MaxTurns
    BY <1>1, <2>1, Sizes
  <2>3. Column(hit) \in 0 .. MaxLen /\ p \in 0 .. MaxLen /\ 0 \in 0 .. MaxLen /\ 1 \in 1 .. 1 + Drafts
    <3>1. Column(hit) \in Nat /\ Column(hit) <= hit
      BY <1>3, Columns
    <3> QED
      BY <1>3, <3>1, Sizes
  <2>4. /\ prompt' \in [Requests -> 0 .. MaxLen]
        /\ known' \in [Requests -> 0 .. MaxLen] /\ flight' \in [Requests -> 0 .. MaxLen]
        /\ computed' \in [Requests -> 0 .. MaxLen] /\ nacc' \in [Requests -> 1 .. 1 + Drafts]
        /\ col' \in [Requests -> 0 .. MaxLen]
    BY <1>1, <1>9, <2>3
  <2>5. bt' \in [Requests -> Tables]
    BY <1>7, <1>8, <1>9 DEF Found
  <2> QED
    BY <1>1, <2>1, <2>2, <2>4, <2>5 DEF Types, Tables
<1> QED
  BY <1>1, <1>3, <1>4, <1>5, <1>7, <1>10, <1>11, <1>12, <1>13, <1>14 DEF ArrivedOK

LEMMA HitIs ==
    ASSUME IInv, NEW r, NEW p, NEW hit, NEW b, ArrivedOK(r, p, hit, b), hit > 0
    PROVE  /\ b \in Slots /\ hit \in 1 .. MaxLen /\ hit = End(Column(hit)) /\ Good(Len(queue), b, hit)
           /\ \A o \in 1 .. MaxLen : cached[o] = b => o = hit
           /\ \A q \in Requests : Here(q) =>
                 \A j \in 1 .. Len(bt[q]) : bt[q][j] = b => hit = End(j) /\ hit <= Certain(q)
<1>1. b \in Slots /\ b = cached[hit] /\ hit \in 1 .. MaxLen
  <2>1. hit \in 0 .. MaxLen /\ b \in Slots /\ b = cached[hit]
    BY DEF ArrivedOK
  <2> QED
    BY <2>1, Sizes
<1>2. CachedOK(hit) /\ cached[hit] # Null
  BY <1>1, Sizes DEF IInv
<1> QED
  BY <1>1, <1>2 DEF CachedOK

\* What the request that arrives finds is good, and is the boundary it starts from.
LEMMA ArrivedSource ==
    ASSUME IInv, NEW r, NEW p, NEW hit, NEW b, ArrivedOK(r, p, hit, b)
    PROVE  SourceOK(r)' /\ OwnOK(r)'
<1>1. /\ r \in Requests /\ hit \in 0 .. MaxLen /\ ~Queued(r) /\ Found(bt'[r], hit, b)
      /\ computed'[r] = hit /\ nacc'[r] = 1 /\ col'[r] = Column(hit) /\ queue' = queue /\ Frame
  BY DEF ArrivedOK
<1>2. PICK t, n : t = bt'[r] /\ n = hit
  OBVIOUS
<1>3. PICK l \in 0 .. 2 : l = Len(queue) /\ l = Len(queue')
  BY <1>1, QueueIs DEF IInv
<1>4. n \in Nat
  BY <1>1, <1>2
<1>5. PICK c \in Nat : c = Column(n) /\ (n > 0 => c > 0)
  BY <1>4, Columns
<1>6. /\ t \in Tables /\ Len(t) = c /\ (n > 0 => t[c] = b)
      /\ \A j \in 1 .. Len(t) : t[j] # Null => n > 0 /\ j = c /\ t[j] = b
  BY <1>1, <1>2, <1>5 DEF Found
<1>7. ASSUME n > 0 PROVE n = End(c) /\ Good(l, b, n)' /\ b # Null
  <2>1. b \in Slots /\ n = End(c) /\ Good(l, b, n)
    BY <1>2, <1>3, <1>5, <1>7, HitIs
  <2>2. Good(l, b, n)'
    BY <1>1, <1>3, <2>1, GoodKept DEF IInv
  <2> QED
    BY <2>1, <2>2, Sizes
<1>8. SourceOK(r)'
  <2>1. \A i \in 1 .. l : queue'[i].req # r
    BY <1>1, <1>3 DEF Queued
  <2>2. FirstOf(r)' = l + 1
    BY <1>3, <2>1 DEF FirstOf
  <2>3. Table(r)' = t
    <3>1. ~(l + 1 <= l)
      BY <1>3
    <3> QED
      BY <1>2, <1>3, <2>2, <3>1 DEF Table
  <2>4. (FirstOf(r) - 1)' = l
    BY <1>3, <2>2
  <2> SUFFICES ASSUME n > 0 PROVE SourceOK(r)'
    BY <1>1, <1>2 DEF SourceOK
  <2>5. c \in 1 .. Len(t) /\ t[c] = b /\ b # Null /\ End(c) = n /\ Good(l, b, n)'
    BY <1>5, <1>6, <1>7
  <2>6. ~(1 > 1)
    OBVIOUS
  <2>7. c = col'[r] /\ n = computed'[r] /\ nacc'[r] = 1
    BY <1>1, <1>2, <1>5
  <2>8. Good(l, t[c], n)'
    BY <2>5 DEF Good, Makes, Least, End
  <2> QED
    BY <2>3, <2>4, <2>5, <2>6, <2>7, <2>8 DEF SourceOK, Good, Makes, Least, End
<1>9. OwnOK(r)'
  <2>1. ASSUME NEW j \in 1 .. Len(t), t[j] # Null PROVE Good(l, t[j], End(j))'
    <3>1. n > 0 /\ j = c /\ t[j] = b
      BY <1>6, <2>1
    <3>2. Good(l, b, n)' /\ n = End(j)
      BY <1>7, <3>1
    <3> QED
      BY <3>1, <3>2 DEF Good, Makes, Least, End
  <2> QED
    BY <1>2, <1>3, <2>1 DEF OwnOK, Good, Makes, Least, End
<1> QED
  BY <1>8, <1>9

LEMMA ArrivedTable ==
    ASSUME IInv, NEW r, NEW p, NEW hit, NEW b, ArrivedOK(r, p, hit, b)
    PROVE  TableOK(r)'
<1>1. /\ r \in Requests /\ hit \in 0 .. MaxLen /\ p \in 1 .. MaxLen /\ hit < p /\ ~Queued(r)
      /\ Found(bt'[r], hit, b) /\ \A i \in 1 .. Len(done) : done[i].req # r
      /\ computed'[r] = hit /\ nacc'[r] = 1 /\ col'[r] = Column(hit) /\ queue' = queue /\ done' = done
      /\ prompt'[r] = p /\ known'[r] = hit /\ flight'[r] = 0 /\ begun' = begun /\ r \notin begun
  BY DEF ArrivedOK
<1>2. PICK t, n : t = bt'[r] /\ n = hit
  OBVIOUS
<1>3. PICK l \in 0 .. 2 : l = Len(queue) /\ l = Len(queue')
  BY <1>1, QueueIs DEF IInv
<1>4. n \in Nat
  BY <1>1, <1>2
<1>5. PICK c \in Nat : c = Column(n) /\ (n > 0 <=> c > 0) /\ n <= End(c)
  BY <1>4, Columns
<1>6. /\ Len(t) = c /\ (n > 0 => t[c] = b) /\ Distinct(t)
  BY <1>1, <1>2, <1>5 DEF Found
<1>7. ~Queued(r)' /\ \A i \in 1 .. Len(queue') : queue'[i].req # r
  BY <1>1 DEF Queued
<1>8. \A i \in 1 .. Len(done') : done'[i].req # r
  BY <1>1
<1>9. PICK k \in 0 .. 2 : k = Len(done')
  BY <1>1, QueueIs DEF IInv
<1>10. TotalsOK(r)'
  <2>1. QueuedTokens(r)' = 0
    <3>1. ~(l >= 1 /\ queue'[1].req = r) /\ ~(l >= 2 /\ queue'[2].req = r)
      BY <1>3, <1>7
    <3> QED
      BY <1>3, <3>1 DEF QueuedTokens
  <2>2. DoneTokens(r)' = 0 /\ DoneAccepted(r)' = 0
    <3>1. ~(k >= 1 /\ done'[1].req = r) /\ ~(k >= 2 /\ done'[2].req = r)
      BY <1>8, <1>9
    <3>2. DoneTokens(r)' = 0 + 0
      BY <1>9, <3>1 DEF DoneTokens
    <3>3. DoneAccepted(r)' = 0 + 0
      BY <1>9, <3>1 DEF DoneAccepted
    <3> QED
      BY <3>2, <3>3
  <2>3. hit = hit + 0 + 0 - 0 /\ 0 = 0 + 0 /\ hit - 0 >= 0
    BY <1>1
  <2>4. Committed(r)' = hit - 0
    BY <1>1 DEF Committed
  <2> QED
    BY <1>1, <2>1, <2>2, <2>3, <2>4 DEF TotalsOK
<1>11. Distinct(bt[r])'
  BY <1>2, <1>6 DEF Distinct
<1>12. LastOK(r)'
  BY <1>7 DEF LastOK
<1>13. End(c) = n
  <2>1. CASE n > 0
    <3>1. n = End(Column(n))
      BY <1>2, <2>1, HitIs
    <3> QED
      BY <1>5, <3>1
  <2>2. CASE n = 0
    <3>1. c = 0
      BY <1>5, <2>2
    <3>2. End(0) = 0
      BY Ends
    <3> QED
      BY <2>2, <3>1, <3>2
  <2> QED
    BY <1>4, <2>1, <2>2
<1>14. IdleOK(r)'
  <2>1. c <= Column(n + Drafts)
    <3>1. n + Drafts \in Nat /\ n <= n + Drafts
      BY <1>4, Sizes
    <3> QED
      BY <1>4, <1>5, <3>1, ColumnGrows
  <2>2. c > 0 => t[c] # Null
    <3>1. c > 0 => b \in Slots
      BY <1>2, <1>5 DEF ArrivedOK
    <3> QED
      BY <1>5, <1>6, <3>1, Sizes
  <2>3. c = col'[r] /\ n = computed'[r] /\ c <= Len(t)
    BY <1>1, <1>2, <1>5, <1>6
  <2> QED
    BY <1>1, <1>2, <1>5, <2>1, <2>2, <2>3 DEF IdleOK, End, Column
<1>15. FreshOK(r)'
  BY <1>1, <1>2, <1>5, <1>6, <1>7 DEF FreshOK
<1>16. PromptOK(r)'
  <2>1. known'[r] = n /\ n = End(Column(n)) /\ End(col'[r]) = n /\ computed'[r] = n
    BY <1>1, <1>2, <1>5, <1>13
  <2> QED
    BY <1>1, <1>7, <1>8, <2>1 DEF PromptOK, End, Column
<1>17. GrownOK(r)'
  <2>1. ~(known'[r] >= prompt'[r])
    BY <1>1
  <2> QED
    BY <2>1 DEF GrownOK
<1> QED
  BY <1>10, <1>11, <1>12, <1>14, <1>15, <1>16, <1>17 DEF TableOK

\* The block of the prefix is the only one it shares, and in the same column.
LEMMA ArrivedShares ==
    ASSUME IInv, NEW r, NEW p, NEW hit, NEW b, ArrivedOK(r, p, hit, b),
           NEW q \in Requests \ {r}, Here(q), NEW i \in 1 .. Len(bt'[r]), NEW j \in 1 .. Len(bt[q]),
           bt'[r][i] # Null, bt'[r][i] = bt[q][j]
    PROVE  i = j /\ End(i) = hit /\ hit <= Certain(q)
<1>1. Found(bt'[r], hit, b) /\ hit \in Nat
  <2>1. Found(bt'[r], hit, b) /\ hit \in 0 .. MaxLen
    BY DEF ArrivedOK
  <2> QED
    BY <2>1
<1>2. hit > 0 /\ i = Column(hit) /\ bt[q][j] = b
  BY <1>1 DEF Found
<1>3. hit = End(i) /\ hit = End(j) /\ hit <= Certain(q)
  BY <1>2, HitIs
<1>4. i \in Nat /\ j \in Nat
  OBVIOUS
<1>5. i = j
  BY <1>3, <1>4, Ends
<1> QED
  BY <1>3, <1>5

LEMMA ArriveKeeps ==
    ASSUME IInv, NEW r \in Requests, NEW p \in Prompts, NEW hit \in 0 .. MaxLen, Arrive(r, p, hit)
    PROVE  IInv'
<1>1. PICK b : hit > 0 => b = cached[hit]
  OBVIOUS
<1>2. ArrivedOK(r, p, hit, b) /\ Types'
  BY <1>1, ArriveIs
<1>3. /\ UNCHANGED <<slot, cached, begun, retired, queue, done>> /\ Frame /\ ~Here(r) /\ ~Queued(r)
      /\ \A q \in Requests : q # r => Untouched(q)
      /\ Certain(r)' = hit /\ r \notin begun /\ retired[r] = 0 /\ Found(bt'[r], hit, b)
  BY <1>2 DEF ArrivedOK
<1>4. Types
  BY DEF IInv
<1>5. PairOK'
  <2>1. Len(queue) = 2 /\ prompt'[queue[1].req] > 0 => Here(queue[1].req)
    <3> SUFFICES ASSUME Len(queue) = 2, prompt'[queue[1].req] > 0 PROVE Here(queue[1].req)
      OBVIOUS
    <3>1. 1 \in 1 .. Len(queue)
      OBVIOUS
    <3>2. queue[1].req \in Requests /\ queue[1].req # r
      BY <1>3, <1>4, <3>1, QueueIs DEF Queued
    <3> QED
      BY <1>3, <3>2 DEF Untouched, Here
  <2> QED
    BY <1>3, <1>4, <2>1, PairKept DEF IInv
<1>6. \A i \in 1 .. Len(queue') : EntryOK(i)'
  BY <1>3, <1>4, StepsKept DEF IInv, Kept
<1>7. RequestOK(r)'
  <2>1. SourceOK(r)' /\ OwnOK(r)' /\ TableOK(r)'
    BY <1>2, ArrivedSource, ArrivedTable
  <2>2. SharedOK(r)'
    <3> SUFFICES ASSUME NEW q \in Requests \ {r}, Here(q)',
                        NEW j \in 1 .. Len(bt'[r]), NEW i \in 1 .. Len(bt'[q]),
                        bt'[r][j] # Null, bt'[r][j] = bt'[q][i]
                 PROVE  i = j /\ End(j) <= Certain(r)'
      BY DEF SharedOK, Here, End
    <3>1. Here(q) /\ bt'[q] = bt[q]
      BY <1>3 DEF Untouched, Here
    <3>2. i \in 1 .. Len(bt[q]) /\ bt'[r][j] = bt[q][i]
      BY <3>1
    <3>3. j = i /\ End(j) = hit
      BY <1>2, <3>1, <3>2, ArrivedShares
    <3>4. hit <= hit
      OBVIOUS
    <3> QED
      BY <1>3, <3>3, <3>4
  <2>3. Here(r)'
    <3>1. prompt'[r] = p /\ p \in 1 .. MaxLen
      BY <1>2 DEF ArrivedOK
    <3> QED
      BY <3>1 DEF Here
  <2>4. retired'[r] <= Len(bt'[r])
    <3>1. retired'[r] = 0 /\ bt'[r] \in Tables
      BY <1>3 DEF Found
    <3>2. Len(bt'[r]) \in Nat
      BY <3>1 DEF Tables
    <3> QED
      BY <3>1, <3>2
  <2> QED
    BY <2>1, <2>2, <2>3, <2>4 DEF RequestOK
<1>8. ASSUME NEW q \in Requests, q # r PROVE RequestOK(q)'
  <2>1. RequestOK(q) /\ Untouched(q)
    BY <1>3, <1>8 DEF IInv
  <2>2. /\ bt'[q] = bt[q] /\ computed'[q] = computed[q] /\ nacc'[q] = nacc[q] /\ col'[q] = col[q]
        /\ (Here(q)' <=> Here(q)) /\ retired'[q] = retired[q] /\ (q \in begun' <=> q \in begun)
    BY <2>1 DEF Untouched, Here
  <2>3. (Queued(q)' <=> Queued(q)) /\ Certain(q)' = Certain(q)
    BY <1>3, <2>2, CertainKept
  <2>4. Here(q)' \/ Queued(q)' => SourceOK(q)'
    <3> SUFFICES ASSUME Here(q) \/ Queued(q) PROVE SourceOK(q)'
      BY <2>2, <2>3
    <3>1. SourceOK(q)
      BY <2>1 DEF RequestOK
    <3> QED
      BY <1>3, <1>4, <2>2, <3>1, SourceKept
  <2>5. Here(q)' => TableOK(q)' /\ OwnOK(q)'
    <3> SUFFICES ASSUME Here(q) PROVE TableOK(q)' /\ OwnOK(q)'
      BY <2>2
    <3>1. TableOK(q) /\ OwnOK(q)
      BY <2>1 DEF RequestOK
    <3>2. TableOK(q)'
      BY <1>3, <1>4, <2>1, <3>1, TableKept
    <3>3. OwnOK(q)'
      BY <1>3, <1>4, <2>2, <2>3, <3>1, OwnKept
    <3> QED
      BY <3>2, <3>3
  <2>6. Here(q)' => SharedOK(q)'
    <3> SUFFICES ASSUME Here(q), NEW o \in Requests \ {q}, Here(o)',
                        NEW j \in 1 .. Len(bt'[q]), NEW i \in 1 .. Len(bt'[o]),
                        bt'[q][j] # Null, bt'[q][j] = bt'[o][i]
                 PROVE  i = j /\ End(j) <= Certain(q)'
      BY <2>2 DEF SharedOK, Here, End
    <3>1. CASE o = r
      <4>1. i \in 1 .. Len(bt'[r]) /\ j \in 1 .. Len(bt[q]) /\ bt'[r][i] # Null /\ bt'[r][i] = bt[q][j]
        BY <2>2, <3>1
      <4>2. i = j /\ End(i) = hit /\ hit <= Certain(q)
        BY <1>2, <1>8, <4>1, ArrivedShares
      <4> QED
        BY <2>3, <4>2
    <3>2. CASE o # r
      <4>1. Here(o) /\ bt'[o] = bt[o]
        BY <1>3, <3>2 DEF Untouched, Here
      <4>2. SharedOK(q)
        BY <2>1 DEF RequestOK
      <4>3. i = j /\ End(j) <= Certain(q)
        BY <2>2, <4>1, <4>2 DEF SharedOK
      <4> QED
        BY <2>3, <4>3
    <3> QED
      BY <3>1, <3>2
  <2>7. (~Here(q)' => bt'[q] = << >> /\ q \notin begun') /\ retired'[q] <= Len(bt'[q])
    BY <2>1, <2>2 DEF RequestOK
  <2> QED
    BY <2>4, <2>5, <2>6, <2>7 DEF RequestOK
<1>9. ASSUME NEW o \in 1 .. MaxLen PROVE CachedOK(o)'
  <2>1. CachedOK(o)
    BY DEF IInv
  <2>2. CASE cached[o] = Null
    BY <1>3, <2>2 DEF CachedOK
  <2>3. CASE cached[o] # Null
    <3>1. PICK l \in Nat : l = Len(queue)
      BY <1>4, QueueIs
    <3>2. PICK a : a = cached[o]
      OBVIOUS
    <3>3. /\ o = End(Column(o)) /\ Good(l, a, o)
          /\ \A u \in 1 .. MaxLen : cached[u] = a => u = o
          /\ \A q \in Requests : Here(q) =>
                \A j \in 1 .. Len(bt[q]) : bt[q][j] = a => o = End(j) /\ o <= Certain(q)
      BY <2>1, <2>3, <3>1, <3>2 DEF CachedOK
    <3>4. Good(l, a, o)'
      BY <1>3, <1>4, <3>1, <3>3, GoodKept
    <3>5. Good(Len(queue), cached[o], o)'
      BY <1>3, <3>1, <3>2, <3>4 DEF Good, Makes, Least
    <3>6. ASSUME NEW q \in Requests, Here(q)', NEW j \in 1 .. Len(bt'[q]), bt'[q][j] = a
          PROVE  o = End(j) /\ o <= Certain(q)'
      <4>1. CASE q = r
        <5>1. bt'[r][j] # Null
          BY <2>3, <3>2, <3>6, <4>1
        <5>2. hit > 0 /\ j = Column(hit) /\ a = b
          BY <1>3, <3>6, <4>1, <5>1 DEF Found
        <5>3. hit \in 1 .. MaxLen /\ hit = End(j) /\ b = cached[hit]
          BY <1>1, <1>2, <5>2, HitIs
        <5>4. o = hit
          BY <3>3, <5>2, <5>3
        <5>5. o <= hit
          BY <5>3, <5>4
        <5> QED
          BY <1>3, <4>1, <5>3, <5>4, <5>5
      <4>2. CASE q # r
        <5>1. Here(q) /\ bt'[q] = bt[q] /\ computed'[q] = computed[q]
          BY <1>3, <3>6, <4>2 DEF Untouched, Here
        <5>2. o = End(j) /\ o <= Certain(q)
          BY <3>3, <3>6, <5>1
        <5>3. Certain(q)' = Certain(q)
          BY <1>3, <5>1, CertainKept
        <5> QED
          BY <5>2, <5>3
      <4> QED
        BY <4>1, <4>2
    <3>7. /\ o = End(Column(o))
          /\ \A u \in 1 .. MaxLen : cached'[u] = cached'[o] => u = o
          /\ \A q \in Requests : Here(q)' =>
                \A j \in 1 .. Len(bt'[q]) : bt'[q][j] = cached'[o] => o = End(j) /\ o <= Certain(q)'
      BY <1>3, <3>2, <3>3, <3>6
    <3> QED
      BY <3>5, <3>7 DEF CachedOK, End, Column
  <2> QED
    BY <2>2, <2>3
<1>10. \A q \in Requests : RequestOK(q)'
  BY <1>7, <1>8
<1> QED
  BY <1>2, <1>5, <1>6, <1>9, <1>10 DEF IInv

-----------------------------------------------------------------------------
(* A step is scheduled: what its request has.                              *)

\* The step in the queue is of r.
Mine(r) == Len(queue) = 1 /\ queue[1].req = r

\* Step e of r, which has m tokens, is the only one, and ends in column s.
MineOK(e, r, m, s) ==
    /\ bt[r] = e.t /\ m = computed[r] /\ m \in Nat /\ e.n \in Nat /\ s \in Nat
    /\ Least(e) \in Nat /\ 1 <= Least(e) /\ Least(e) <= e.n
    /\ e.decode \in BOOLEAN /\ (e.decode => e.n = 1 + Drafts /\ Least(e) = 1)
    /\ (~e.decode => Least(e) = e.n)
    /\ QueuedTokens(r) = e.n /\ Certain(r) = m + Least(e) /\ Queued(r)
    /\ 0 < s /\ s < Len(bt[r]) /\ Full(bt[r], s) /\ s = Column(m + e.n)
    /\ (~e.decode => Len(bt[r]) = s + 1)

LEMMA MineIs ==
    ASSUME IInv, NEW r \in Requests, Here(r), Mine(r),
           NEW e, e = queue[1], NEW m, m = computed[r], NEW s, s = Column(m + e.n)
    PROVE  MineOK(e, r, m, s)
<1>1. Len(queue) = 1 /\ r = e.req /\ queue # << >>
  <2>1. Len(queue) = 1 /\ r = e.req
    BY DEF Mine
  <2>2. Len(queue) >= 1
    BY <2>1
  <2> QED
    BY <2>1, <2>2, QueueIs DEF IInv
<1>2. StepOK(e, r, s)
  BY <1>1, NextStep
<1>3. /\ e.n \in Nat /\ e.n > 0 /\ e.t \in Tables /\ e.decode \in BOOLEAN
      /\ m \in Nat /\ col[r] \in Nat /\ col[r] <= s
      /\ s \in Nat /\ 0 < s /\ s + 1 <= Len(e.t) /\ e.t[s] # Null /\ e.t[s + 1] # Null
      /\ (e.decode => e.n = 1 + Drafts /\ Full(e.t, col[r]))
      /\ (~e.decode => Len(e.t) = s + 1)
  BY <1>2 DEF StepOK
<1>4. Least(e) \in Nat /\ 1 <= Least(e) /\ Least(e) <= e.n
      /\ (e.decode => Least(e) = 1) /\ (~e.decode => Least(e) = e.n)
  BY <1>3 DEF Least
<1>5. bt[r] = e.t
  <2>1. LastOK(r)
    BY DEF IInv, RequestOK, TableOK
  <2>2. 1 \in 1 .. Len(queue) /\ \A h \in 1 + 1 .. Len(queue) : queue[h].req # r
    BY <1>1
  <2> QED
    BY <1>1, <2>1, <2>2 DEF LastOK
<1>6. QueuedTokens(r) = e.n /\ Certain(r) = m + Least(e) /\ Queued(r)
  <2>1. QueuedTokens(r) = e.n + 0
    BY <1>1 DEF QueuedTokens
  <2>2. Certain(r) = m + Least(e) + 0
    BY <1>1 DEF Certain
  <2>3. 1 \in 1 .. Len(queue)
    BY <1>1
  <2> QED
    BY <1>1, <1>3, <1>4, <2>1, <2>2, <2>3 DEF Queued
<1>7. Full(e.t, s)
  <2>1. PICK l \in Nat : l = Len(e.t)
    BY <1>3 DEF Tables
  <2>2. CASE e.decode
    <3>1. \A j \in s .. l : j \in col[r] .. l
      BY <1>3, <2>1
    <3> QED
      BY <1>3, <2>1, <2>2, <3>1 DEF Full
  <2>3. CASE ~e.decode
    <3>1. \A j \in s .. l : j = s \/ j = s + 1
      BY <1>3, <2>1, <2>3
    <3> QED
      BY <1>3, <2>1, <3>1 DEF Full
  <2> QED
    BY <2>2, <2>3
<1>8. Len(e.t) \in Nat
  BY <1>3 DEF Tables
<1>9. s < Len(e.t)
  BY <1>3, <1>8
<1> QED
  BY <1>3, <1>4, <1>5, <1>6, <1>7, <1>9 DEF MineOK

LEMMA IdleIs ==
    ASSUME IInv, NEW r \in Requests, ~Mine(r), Len(queue) \in 0 .. 1
    PROVE  ~Queued(r) /\ QueuedTokens(r) = 0 /\ Certain(r) = computed[r]
<1>1. ~(Len(queue) >= 1 /\ queue[1].req = r) /\ ~(Len(queue) >= 2)
  <2>1. PICK l \in 0 .. 1 : l = Len(queue)
    OBVIOUS
  <2>2. ~(l = 1 /\ queue[1].req = r)
    BY <2>1 DEF Mine
  <2> QED
    BY <2>1, <2>2
<1>2. ~Queued(r)
  <2> SUFFICES ASSUME NEW i \in 1 .. Len(queue), queue[i].req = r PROVE FALSE
    BY DEF Queued
  <2>1. i = 1 /\ Len(queue) >= 1
    OBVIOUS
  <2> QED
    BY <1>1, <2>1
<1>3. QueuedTokens(r) = 0 + 0
  BY <1>1 DEF QueuedTokens
<1>4. Certain(r) = computed[r] + 0 + 0
  BY <1>1 DEF Certain
<1>5. computed[r] \in Nat
  BY TypesAre DEF IInv
<1> QED
  BY <1>2, <1>3, <1>4, <1>5

\* The next step of r starts from lo to hi tokens, in column s.
Ready(r, s, lo, hi) ==
    /\ s = IF Mine(r) THEN Column(computed[r] + queue[1].n) ELSE col[r]
    /\ lo = Certain(r) /\ hi = computed[r] + QueuedTokens(r)
    /\ s \in Nat /\ lo \in Nat /\ hi \in Nat /\ computed[r] <= lo /\ lo <= hi
    /\ hi <= End(s) /\ hi <= known[r]
    /\ (s > 0 => s <= Len(bt[r]) /\ bt[r][s] # Null)
    /\ (r \in begun => s > 0 /\ Full(bt[r], s) /\ s < Len(bt[r]))
    /\ (r \notin begun => Len(bt[r]) = s /\ known[r] < prompt[r])
    /\ (known[r] < prompt[r] =>
          /\ End(s) = known[r] /\ lo = known[r] /\ hi = known[r]
          /\ (r \in begun => Len(bt[r]) = s + 1)
          /\ (~Mine(r) => nacc[r] = 1) /\ (Mine(r) => ~queue[1].decode))
    /\ (known[r] >= prompt[r] =>
          /\ r \in begun /\ lo >= prompt[r] /\ Len(bt[r]) >= Column(known[r]) + 1
          /\ s <= Column(lo + Drafts))
    /\ Committed(r) \in Nat /\ Committed(r) <= computed[r]
    /\ (Mine(r) => computed[r] < lo /\ bt[r] = queue[1].t)

LEMMA ReadyIs ==
    ASSUME IInv, NEW r \in Requests, Here(r), Len(queue) \in 0 .. 1,
           NEW s, s = IF Mine(r) THEN Column(computed[r] + queue[1].n) ELSE col[r],
           NEW lo, lo = Certain(r), NEW hi, hi = computed[r] + QueuedTokens(r)
    PROVE  Ready(r, s, lo, hi)
<1>1. TableOK(r)
  BY DEF IInv, RequestOK
<1>2. PICK m \in Nat, k \in Nat, f \in Nat, p \in Nat :
         m = computed[r] /\ k = known[r] /\ f = flight[r] /\ p = prompt[r]
  BY TypesAre DEF IInv
<1>a. PICK T : T = bt[r]
  OBVIOUS
<1>b. PICK l \in Nat : l = Len(bt[r])
  BY TypesAre DEF IInv
<1>3. T = bt[r] /\ l = Len(bt[r])
  BY <1>a, <1>b
<1>4. PICK x \in Nat, y \in Nat, z \in Nat :
         x = QueuedTokens(r) /\ y = DoneTokens(r) /\ z = DoneAccepted(r) /\ z <= y
  BY SumsAre DEF IInv
<1>5. k = m + x + y - z /\ f = x + y /\ k - f >= 0 /\ Committed(r) = k - f
  BY <1>1, <1>2, <1>4 DEF TableOK, TotalsOK, Committed
<1>6. hi = m + x /\ hi \in Nat /\ hi <= k /\ Committed(r) \in Nat /\ Committed(r) <= m
  <2>1. hi = m + x
    BY <1>2, <1>4
  <2>2. z <= y
    BY <1>4
  <2> QED
    <3>1. k = m + x + y - z /\ f = x + y /\ z <= y
      BY <1>4, <1>5
    <3>2. k - f = m - z /\ m + x \in Nat /\ m + x <= k
      BY <3>1
    <3>3. Committed(r) = m - z /\ m - z >= 0
      BY <1>5, <3>2
    <3>4. m - z \in Nat /\ m - z <= m
      BY <3>3
    <3> QED
      BY <2>1, <3>2, <3>3, <3>4
<1>7. k < p => y = z
  <2> SUFFICES ASSUME k < p PROVE y = z
    OBVIOUS
  <2>1. \A i \in 1 .. Len(done) : done[i].req = r => done[i].accepted = done[i].n
    BY <1>1, <1>2 DEF TableOK, PromptOK
  <2>2. PICK d \in 0 .. 2 : d = Len(done)
    BY QueueIs DEF IInv
  <2>3. PICK u \in Nat : /\ u = IF Len(done) >= 1 /\ done[1].req = r THEN done[1].n ELSE 0
                         /\ u = IF Len(done) >= 1 /\ done[1].req = r THEN done[1].accepted ELSE 0
    <3>1. CASE d >= 1 /\ done[1].req = r
      <4>1. 1 \in 1 .. Len(done)
        BY <2>2, <3>1
      <4>2. done[1].n \in 1 .. MaxLen /\ done[1].accepted = done[1].n
        BY <2>1, <3>1, <4>1, QueueIs DEF IInv
      <4> QED
        BY <2>2, <3>1, <4>2, Sizes
    <3>2. CASE ~(d >= 1 /\ done[1].req = r)
      <4>1. 0 \in Nat
        OBVIOUS
      <4> QED
        BY <2>2, <3>2, <4>1
    <3> QED
      BY <3>1, <3>2
  <2>4. PICK v \in Nat : /\ v = IF Len(done) >= 2 /\ done[2].req = r THEN done[2].n ELSE 0
                         /\ v = IF Len(done) >= 2 /\ done[2].req = r THEN done[2].accepted ELSE 0
    <3>1. CASE d >= 2 /\ done[2].req = r
      <4>1. 2 \in 1 .. Len(done)
        BY <2>2, <3>1
      <4>2. done[2].n \in 1 .. MaxLen /\ done[2].accepted = done[2].n
        BY <2>1, <3>1, <4>1, QueueIs DEF IInv
      <4> QED
        BY <2>2, <3>1, <4>2, Sizes
    <3>2. CASE ~(d >= 2 /\ done[2].req = r)
      <4>1. 0 \in Nat
        OBVIOUS
      <4> QED
        BY <2>2, <3>2, <4>1
    <3> QED
      BY <3>1, <3>2
  <2>5. DoneTokens(r) = u + v
    BY <2>3, <2>4 DEF DoneTokens
  <2>6. DoneAccepted(r) = u + v
    BY <2>3, <2>4 DEF DoneAccepted
  <2> QED
    BY <1>4, <2>5, <2>6
<1>8. k < p => hi = k
  BY <1>5, <1>6, <1>7
<1>9. k < p => /\ (r \in begun => l = Column(k) + 1) /\ k = End(Column(k))
               /\ \A i \in 1 .. Len(queue) : queue[i].req = r => ~queue[i].decode
               /\ (~Queued(r) => nacc[r] = 1 /\ End(col[r]) = m)
  BY <1>1, <1>2, <1>3 DEF TableOK, PromptOK
<1>10. k >= p => Certain(r) >= p /\ l >= Column(k) + 1
  BY <1>1, <1>2, <1>3 DEF TableOK, GrownOK
<1>11. r \notin begun => ~Queued(r) /\ l = col[r] /\ k = m /\ k < p
  BY <1>1, <1>2, <1>3 DEF TableOK, FreshOK
<1>12. (k < p <=> known[r] < prompt[r]) /\ (k >= p <=> known[r] >= prompt[r]) /\ (k < p \/ k >= p)
       /\ ~(k < p /\ k >= p)
  BY <1>2
<1>13. CASE Mine(r)
  <2>1. PICK e : e = queue[1]
    OBVIOUS
  <2>2. s = Column(m + e.n)
    BY <1>2, <1>13, <2>1
  <2>3. MineOK(e, r, m, s)
    BY <1>2, <1>13, <2>1, <2>2, MineIs
  <2>4. /\ T = e.t /\ e.n \in Nat /\ s \in Nat
        /\ Least(e) \in Nat /\ 1 <= Least(e) /\ Least(e) <= e.n
        /\ e.decode \in BOOLEAN /\ (e.decode => e.n = 1 + Drafts /\ Least(e) = 1)
        /\ (~e.decode => Least(e) = e.n)
        /\ x = e.n /\ Certain(r) = m + Least(e) /\ Queued(r)
        /\ 0 < s /\ s < l /\ Full(T, s) /\ s = Column(m + e.n)
        /\ (~e.decode => l = s + 1)
    BY <1>3, <1>4, <2>3 DEF MineOK
  <2>5. lo \in Nat /\ m < lo /\ lo <= hi
    <3>1. PICK a \in Nat, b \in Nat : a = Least(e) /\ b = e.n /\ 1 <= a /\ a <= b
      BY <2>4
    <3>2. m \in Nat /\ lo = m + a /\ hi = m + b
      BY <1>2, <1>6, <2>4, <3>1
    <3> QED
      BY <3>1, <3>2
  <2>6. hi <= End(s)
    BY <1>6, <2>4, Columns
  <2>7. s <= l /\ T[s] # Null
    <3>1. s \in s .. l
      BY <1>3, <2>4
    <3> QED
      BY <1>3, <2>4, <3>1 DEF Full
  <2>8. r \in begun
    BY <1>11, <2>4
  <2>9. k < p => End(s) = k /\ lo = k /\ hi = k /\ l = s + 1 /\ ~e.decode
    <3> SUFFICES ASSUME k < p PROVE End(s) = k /\ lo = k /\ hi = k /\ l = s + 1 /\ ~e.decode
      OBVIOUS
    <3>1. ~e.decode
      <4>1. 1 \in 1 .. Len(queue) /\ queue[1].req = r
        BY <1>13 DEF Mine
      <4> QED
        BY <1>9, <2>1, <4>1
    <3>2. lo = k /\ hi = k
      BY <1>6, <1>8, <2>4, <3>1
    <3>3. s = Column(k)
      BY <1>6, <2>4, <3>2
    <3> QED
      BY <1>9, <2>4, <3>1, <3>2, <3>3
  <2>10. s <= Column(lo + Drafts)
    <3>1. CASE e.decode
      <4>1. e.n = 1 + Drafts /\ lo = m + 1
        BY <2>4, <3>1
      <4>2. m + e.n = lo + Drafts
        BY <4>1, Sizes
      <4>3. s = Column(m + e.n) /\ s \in Nat
        BY <2>4
      <4>4. s = Column(lo + Drafts)
        BY <4>2, <4>3
      <4>5. s <= s
        BY <4>3
      <4> QED
        BY <4>4, <4>5
    <3>2. CASE ~e.decode
      <4>1. m + e.n = lo
        BY <2>4, <3>2
      <4>2. lo <= lo + Drafts /\ lo + Drafts \in Nat
        BY <2>5, Sizes
      <4> QED
        BY <2>4, <2>5, <4>1, <4>2, ColumnGrows
    <3> QED
      BY <2>4, <3>1, <3>2
  <2>11. m <= lo
    BY <1>2, <2>5
  <2>12. k >= p => lo >= p
    BY <1>10
  <2> HIDE <1>13
  <2>13. /\ (s > 0 => s <= Len(bt[r]) /\ bt[r][s] # Null)
         /\ (r \in begun => s > 0 /\ Full(bt[r], s) /\ s < Len(bt[r]))
    BY <1>3, <2>4, <2>7
  <2>14. known[r] < prompt[r] =>
           /\ End(s) = known[r] /\ lo = known[r] /\ hi = known[r]
           /\ (r \in begun => Len(bt[r]) = s + 1)
           /\ (~Mine(r) => nacc[r] = 1) /\ (Mine(r) => ~queue[1].decode)
    BY <1>2, <1>3, <1>12, <1>13, <2>1, <2>9
  <2>15. known[r] >= prompt[r] =>
           /\ r \in begun /\ lo >= prompt[r] /\ Len(bt[r]) >= Column(known[r]) + 1
           /\ s <= Column(lo + Drafts)
    BY <1>2, <1>3, <1>10, <1>12, <2>8, <2>10
  <2> QED
    BY <1>2, <1>3, <1>6, <1>13, <2>1, <2>4, <2>5, <2>6, <2>8, <2>11, <2>13, <2>14, <2>15 DEF Ready
<1>14. CASE ~Mine(r)
  <2>1. ~Queued(r) /\ x = 0 /\ Certain(r) = m
    BY <1>2, <1>4, <1>14, IdleIs
  <2>2. lo = m /\ hi = m /\ s = col[r] /\ s \in Nat
    BY <1>6, <1>14, <2>1, TypesAre DEF IInv
  <2>3. /\ m <= End(s) /\ s <= Column(m + Drafts) /\ s <= l /\ (s > 0 => T[s] # Null)
        /\ (r \in begun => s > 0 /\ Full(T, s) /\ s < l)
    BY <1>1, <1>2, <1>3, <2>1, <2>2 DEF TableOK, IdleOK
  <2>4. k < p => End(s) = k /\ lo = k /\ hi = k /\ nacc[r] = 1 /\ (r \in begun => l = s + 1)
    <3> SUFFICES ASSUME k < p
                 PROVE  End(s) = k /\ lo = k /\ hi = k /\ nacc[r] = 1 /\ (r \in begun => l = s + 1)
      OBVIOUS
    <3>1. hi = k /\ lo = k /\ m = k
      BY <1>8, <2>2
    <3>2. End(s) = k /\ nacc[r] = 1
      BY <1>9, <2>1, <2>2, <3>1
    <3>3. s = Column(k)
      BY <1>2, <2>2, <3>2, Columns
    <3> QED
      BY <1>9, <3>1, <3>2, <3>3
  <2>5. known[r] < prompt[r] =>
           /\ End(s) = known[r] /\ lo = known[r] /\ hi = known[r]
           /\ (r \in begun => Len(bt[r]) = s + 1)
           /\ (~Mine(r) => nacc[r] = 1) /\ (Mine(r) => ~queue[1].decode)
    BY <1>2, <1>3, <1>12, <1>14, <2>4
  <2>6. known[r] >= prompt[r] =>
           /\ r \in begun /\ lo >= prompt[r] /\ Len(bt[r]) >= Column(known[r]) + 1
           /\ s <= Column(lo + Drafts)
    BY <1>2, <1>3, <1>10, <1>11, <1>12, <2>2, <2>3
  <2>7. r \notin begun => Len(bt[r]) = s /\ known[r] < prompt[r]
    BY <1>2, <1>3, <1>11, <1>12, <2>2
  <2>8. m <= m
    BY <1>2
  <2> QED
    BY <1>2, <1>3, <1>6, <1>14, <2>2, <2>3, <2>5, <2>6, <2>7, <2>8 DEF Ready
<1> QED
  BY <1>13, <1>14

-----------------------------------------------------------------------------
(* A step is scheduled: its block table.                                   *)

LEMMA RetireIs ==
    ASSUME IInv, NEW r \in Requests, NEW s, NEW lo, NEW hi, Ready(r, s, lo, hi)
    PROVE  /\ Retire(r) \in Tables /\ Len(Retire(r)) = Len(bt[r])
           /\ \A j \in 1 .. Len(bt[r]) : /\ Retire(r)[j] \in {Null, bt[r][j]}
                                         /\ j >= s => Retire(r)[j] = bt[r][j]
           /\ Retired(r) \in Nat /\ Retired(r) <= Len(bt[r]) /\ Retired(r) <= MaxLen
<1>1. PICK l \in Nat : l = Len(bt[r])
  BY TypesAre DEF IInv
<1>a. PICK T \in Tables : T = bt[r]
  BY TypesAre DEF IInv
<1>2. PICK n \in Nat : n = Committed(r) /\ n <= lo
  <2>1. Committed(r) \in Nat /\ Committed(r) <= computed[r] /\ computed[r] <= lo /\ lo \in Nat
    BY DEF Ready
  <2>2. computed[r] \in Nat
    BY TypesAre DEF IInv
  <2> QED
    BY <2>1, <2>2
<1>3. s \in Nat /\ lo \in Nat /\ lo <= End(s) /\ lo <= MaxLen
  <2>1. s \in Nat /\ lo \in Nat /\ lo <= hi /\ hi <= End(s) /\ hi \in Nat /\ hi <= known[r]
    BY DEF Ready
  <2>2. End(s) \in Nat /\ known[r] \in Nat /\ known[r] <= MaxLen /\ MaxLen \in Nat
    BY <2>1, EndIs, TypesAre, Sizes DEF IInv
  <2> QED
    BY <2>1, <2>2
<1>4. PICK k \in Int : k = (n - 1) \div BlockSize /\ (k > 0 => End(k) < n) /\ k <= MaxLen
  <2>1. (n - 1) \div BlockSize \in Int
    BY Sizes
  <2>2. (n - 1) \div BlockSize > 0 => ((n - 1) \div BlockSize) * BlockSize <= n - 1
    BY Sizes
  <2>3. (n - 1) \div BlockSize <= n
    BY Sizes
  <2>4. n <= MaxLen /\ MaxLen \in Nat
    BY <1>2, <1>3, Sizes
  <2> QED
    BY <2>1, <2>2, <2>3, <2>4, Sizes DEF End
<1>5. PICK x \in Int : x = (IF k < l THEN k ELSE l) /\ Past(r) = 1 .. x /\ x <= l /\ x <= k
  BY <1>1, <1>2, <1>4 DEF Past
<1>6. \A j \in 1 .. x : j < s
  <2> SUFFICES ASSUME NEW j \in 1 .. x PROVE j < s
    OBVIOUS
  <2>1. j \in Nat /\ k \in Nat /\ k > 0 /\ j <= k
    BY <1>5
  <2>2. End(j) <= End(k) /\ End(j) \in Nat /\ End(k) \in Nat /\ End(s) \in Nat
    BY <1>3, <2>1, Ends
  <2>3. ~(End(s) <= End(j))
    BY <1>2, <1>3, <1>4, <2>1, <2>2
  <2>4. ~(s <= j)
    BY <1>3, <2>1, <2>3, Ends
  <2> QED
    BY <1>3, <2>1, <2>4
<1>7. PICK K : K = Retire(r)
  OBVIOUS
<1>8. K = [i \in 1 .. l |-> IF i \in 1 .. x /\ i > retired[r] THEN Null ELSE T[i]]
  BY <1>1, <1>a, <1>5, <1>7 DEF Retire
<1>9. \A j \in 1 .. l : K[j] = IF j \in 1 .. x /\ j > retired[r] THEN Null ELSE T[j]
  BY <1>8, Zenon
<1>10. \A j \in 1 .. l : K[j] \in {Null, T[j]} /\ (j >= s => K[j] = T[j])
  <2> SUFFICES ASSUME NEW j \in 1 .. l PROVE K[j] \in {Null, T[j]} /\ (j >= s => K[j] = T[j])
    OBVIOUS
  <2>1. CASE j \in 1 .. x /\ j > retired[r]
    <3>1. K[j] = Null /\ j < s
      BY <1>6, <1>9, <2>1
    <3>2. ~(j >= s)
      BY <1>3, <3>1
    <3> QED
      BY <3>1, <3>2
  <2>2. CASE ~(j \in 1 .. x /\ j > retired[r])
    BY <1>9, <2>2
  <2> QED
    BY <2>1, <2>2
<1>11. K \in Tables /\ Len(K) = l
  <2> DEFINE S == Slots \cup {Null}
  <2>1. \A j \in 1 .. l : T[j] \in S
    BY <1>1, <1>a, TypesAre DEF IInv
  <2>2. K \in [1 .. l -> S]
    BY <1>8, <2>1
  <2> HIDE DEF S
  <2>3. K \in Seq(S) /\ DOMAIN K = 1 .. l
    BY <1>1, <2>2, SeqDef
  <2>4. Len(K) = l
    BY <1>1, <2>3, LenProperties
  <2> QED
    BY <2>3, <2>4 DEF Tables, S
<1>12. Retired(r) \in Nat /\ Retired(r) <= l /\ Retired(r) <= MaxLen
  <2>1. PICK c \in Nat : c = Cardinality(Past(r)) /\ c <= l /\ c <= MaxLen
    <3>1. Cardinality(1 .. x) = IF 1 > x THEN 0 ELSE x - 1 + 1
      BY FS_Interval
    <3>2. MaxLen \in Nat /\ 0 \in Nat /\ 0 <= l
      BY <1>1, Sizes
    <3>3. CASE x > 0
      <4>1. x \in Nat /\ Cardinality(1 .. x) = x /\ x <= l /\ x <= MaxLen
        BY <1>4, <1>5, <3>1, <3>2, <3>3
      <4> QED
        BY <1>5, <4>1
    <3>4. CASE ~(x > 0)
      <4>1. Cardinality(1 .. x) = 0 /\ 0 <= MaxLen
        BY <1>5, <3>1, <3>2, <3>4
      <4> QED
        BY <1>5, <3>2, <4>1
    <3> QED
      BY <3>3, <3>4
  <2>2. retired[r] \in Nat /\ retired[r] <= MaxLen /\ retired[r] <= l
    BY <1>1, TypesAre DEF IInv, RequestOK
  <2> QED
    BY <2>1, <2>2 DEF Retired
<1> QED
  BY <1>1, <1>a, <1>7, <1>10, <1>11, <1>12

\* A function on an interval is a sequence.
LEMMA IntervalSeq ==
    ASSUME NEW n \in Nat, NEW S, NEW f \in [1 .. n -> S]
    PROVE  f \in Seq(S) /\ Len(f) = n
<1>1. f \in Seq(S) /\ DOMAIN f = 1 .. n
  BY SeqDef
<1> QED
  BY <1>1, LenProperties

\* What Window leaves in column j, when it makes room up to column c.
Windowed(w, K, l, c, mine, x) ==
    /\ w \in Tables /\ Len(w) = x /\ x \in Nat
    /\ x = (IF c + 1 <= l THEN l ELSE IF l < c /\ ~mine THEN c - 1 ELSE c)
    /\ \A j \in 1 .. x :
         /\ j <= l /\ ~(mine /\ l < c /\ j = l) => w[j] = K[j]
         /\ j < c /\ (j > l \/ (mine /\ l < c /\ j = l)) => w[j] = Null
    /\ mine /\ l < c => w[c] = K[l]

LEMMA WindowIs ==
    ASSUME NEW K \in Tables, NEW l \in Nat, l = Len(K), NEW end, NEW c \in Nat, c = Column(end),
           c > 0, NEW mine \in BOOLEAN, mine => l > 0
    PROVE  \E x \in Nat : Windowed(Window(K, end, mine), K, l, c, mine, x)
<1>1. PICK w : w = Window(K, end, mine)
  OBVIOUS
<1> DEFINE S == Slots \cup {Null}
<1>2. K \in Seq(S) /\ \A j \in 1 .. l : K[j] \in S
  BY DEF Tables
<1>3. CASE c + 1 <= l
  <2>1. w = K
    BY <1>1, <1>3 DEF Window
  <2>2. ~(l < c)
    BY <1>3
  <2>3. \A j \in 1 .. l : ~(j > l)
    OBVIOUS
  <2> QED
    BY <1>1, <1>3, <2>1, <2>2, <2>3 DEF Windowed
<1>4. CASE ~(c + 1 <= l)
  <2>1. PICK d \in Nat : d = c - 1
    <3>1. c - 1 \in Nat
      OBVIOUS
    <3> QED
      BY <3>1
  <2>2. PICK m \in Nat : m = (IF l > d THEN l ELSE d) /\ (1 .. l) \cup (1 .. d) = 1 .. m
    OBVIOUS
  <2>3. PICK mv \in BOOLEAN : mv <=> mine /\ l <= d
    OBVIOUS
  <2>4. PICK g : g = [i \in 1 .. m |-> IF i > l \/ (mv /\ i = l) THEN Null ELSE K[i]]
    OBVIOUS
  <2>5. w = g \o (IF mv THEN <<K[l]>> ELSE << >>)
    <3>1. w = [i \in (1 .. Len(K)) \cup (1 .. Column(end) - 1) |->
                 IF i > Len(K) \/ ((mine /\ Len(K) <= Column(end) - 1) /\ i = Len(K)) THEN Null ELSE K[i]]
              \o (IF mine /\ Len(K) <= Column(end) - 1 THEN <<K[Len(K)]>> ELSE << >>)
      BY <1>1, <1>4 DEF Window
    <3>2. w = [i \in (1 .. l) \cup (1 .. d) |->
                 IF i > l \/ ((mine /\ l <= d) /\ i = l) THEN Null ELSE K[i]]
              \o (IF mine /\ l <= d THEN <<K[l]>> ELSE << >>)
      BY <2>1, <3>1
    <3>3. w = [i \in 1 .. m |-> IF i > l \/ (mv /\ i = l) THEN Null ELSE K[i]]
              \o (IF mv THEN <<K[l]>> ELSE << >>)
      BY <2>2, <2>3, <3>2
    <3> QED
      BY <2>4, <3>3
  <2>6. \A j \in 1 .. m : g[j] = IF j > l \/ (mv /\ j = l) THEN Null ELSE K[j]
    BY <2>4, Zenon
  <2>7. \A j \in 1 .. m : g[j] \in S
    BY <1>2, <2>6
  <2>8. g \in [1 .. m -> S]
    BY <2>4, <2>7
  <2> HIDE DEF S
  <2>9. g \in Seq(S) /\ Len(g) = m
    BY <2>8, IntervalSeq
  <2>10. mine /\ l < c <=> mv
    BY <2>1, <2>3
  <2>11. ~(c + 1 <= l) /\ (l < c => m = d) /\ (~(l < c) => m = l /\ l = c) /\ (mv => l < c)
    BY <1>4, <2>1, <2>2, <2>10
  <2>12. CASE mv
    <3>1. K[l] \in S /\ l < c /\ m = d
      BY <1>2, <2>10, <2>11, <2>12
    <3>2. w = g \o <<K[l]>> /\ <<K[l]>> \in Seq(S) /\ Len(<<K[l]>>) = 1 /\ <<K[l]>>[1] = K[l]
      BY <2>5, <2>12, <3>1
    <3>3. w \in Seq(S) /\ Len(w) = m + 1
          /\ \A j \in 1 .. m + 1 : w[j] = IF j <= m THEN g[j] ELSE <<K[l]>>[j - m]
      BY <2>9, <3>2, ConcatProperties
    <3>4. m + 1 = c
      BY <2>1, <3>1
    <3>5. w[c] = K[l]
      <4>1. c \in 1 .. m + 1 /\ ~(c <= m) /\ c - m = 1
        BY <3>4
      <4> QED
        BY <3>2, <3>3, <4>1
    <3>6. ASSUME NEW j \in 1 .. c
          PROVE  /\ j <= l /\ ~(mv /\ j = l) => w[j] = K[j]
                 /\ j < c /\ (j > l \/ (mv /\ j = l)) => w[j] = Null
      <4>1. j < c => j \in 1 .. m /\ j \in 1 .. m + 1 /\ j <= m
        BY <3>4
      <4>2. j < c => w[j] = IF j > l \/ (mv /\ j = l) THEN Null ELSE K[j]
        BY <2>6, <3>3, <4>1
      <4>3. j <= l => j < c /\ ~(j > l)
        BY <3>1
      <4> QED
        BY <4>2, <4>3
    <3>7. c = (IF c + 1 <= l THEN l ELSE IF l < c /\ ~mine THEN c - 1 ELSE c)
      BY <2>10, <2>11, <2>12
    <3> QED
      BY <1>1, <2>10, <2>12, <3>3, <3>4, <3>5, <3>6, <3>7 DEF Windowed, Tables, S
  <2>13. CASE ~mv
    <3>1. w = g
      BY <2>5, <2>9, <2>13, ConcatEmptySeq
    <3>2. ASSUME NEW j \in 1 .. m
          PROVE  /\ j <= l => w[j] = K[j]
                 /\ j > l => w[j] = Null
      BY <2>6, <2>13, <3>1
    <3>3. m = (IF c + 1 <= l THEN l ELSE IF l < c /\ ~mine THEN c - 1 ELSE c)
      BY <2>1, <2>10, <2>11, <2>13
    <3>4. ~(mine /\ l < c)
      BY <2>10, <2>13
    <3> QED
      BY <1>1, <2>9, <3>1, <3>2, <3>3, <3>4 DEF Windowed, Tables, S
  <2> QED
    BY <2>12, <2>13
<1> QED
  BY <1>3, <1>4

\* Column j has a newly allocated block; mv: the stash block moves to column c.
New(j, l, c, mv) == j > l /\ j >= c /\ ~(mv /\ j = c)

\* What the table has in column j; the new blocks are in F.
GrownTo(t, K, l, c, mv, F) ==
    /\ t \in Tables /\ Len(t) = (IF c + 1 <= l THEN l ELSE c + 1)
    /\ \A j \in 1 .. Len(t) :
         /\ j <= l /\ ~(mv /\ j = l) => t[j] = K[j]
         /\ j < c /\ (j > l \/ (mv /\ j = l)) => t[j] = Null
         /\ New(j, l, c, mv) => t[j] \in F
    /\ mv => l < c /\ t[c] = K[l]
    /\ \A i, j \in 1 .. Len(t) : New(i, l, c, mv) /\ New(j, l, c, mv) /\ t[i] = t[j] => i = j

LEMMA TableGrows ==
    ASSUME NEW K, NEW l \in Nat, NEW c \in Nat, c > 0, NEW mine \in BOOLEAN, mine => l > 0,
           NEW w, NEW x \in Nat, Windowed(w, K, l, c, mine, x),
           NEW F, F \subseteq Slots, NEW new \in Injection(1 .. c + 1 - Len(w), F),
           NEW t, t = w \o new
    PROVE  GrownTo(t, K, l, c, mine /\ l < c, Range(new))
<1> DEFINE S == Slots \cup {Null}
<1>1. /\ w \in Seq(S) /\ Len(w) = x
      /\ x = (IF c + 1 <= l THEN l ELSE IF l < c /\ ~mine THEN c - 1 ELSE c)
      /\ \A j \in 1 .. x :
           /\ j <= l /\ ~(mine /\ l < c /\ j = l) => w[j] = K[j]
           /\ j < c /\ (j > l \/ (mine /\ l < c /\ j = l)) => w[j] = Null
      /\ mine /\ l < c => w[c] = K[l]
  BY DEF Windowed, Tables
<1>2. PICK y \in Nat : y = (IF c + 1 <= x THEN 0 ELSE c + 1 - x) /\ 1 .. c + 1 - x = 1 .. y
  <2>1. CASE c + 1 <= x
    <3>1. 0 \in Nat /\ 1 .. c + 1 - x = 1 .. 0
      BY <2>1
    <3> QED
      BY <2>1, <3>1
  <2>2. CASE ~(c + 1 <= x)
    <3>1. c + 1 - x \in Nat
      BY <2>2
    <3> QED
      BY <2>2, <3>1
  <2> QED
    BY <2>1, <2>2
<1>3. new \in [1 .. y -> F] /\ \A i, j \in 1 .. y : new[i] = new[j] => i = j
  <2>1. new \in Injection(1 .. y, F)
    BY <1>1, <1>2
  <2> QED
    BY <2>1 DEF Injection, IsInjective
<1>4. new \in Seq(S) /\ Len(new) = y
  <2>1. new \in [1 .. y -> S]
    BY <1>3
  <2> HIDE DEF S
  <2> QED
    BY <2>1, IntervalSeq
<1> HIDE DEF S
<1>5. /\ t \in Seq(S) /\ Len(t) = x + y
      /\ \A j \in 1 .. x + y : t[j] = IF j <= x THEN w[j] ELSE new[j - x]
  <2>1. /\ w \o new \in Seq(S) /\ Len(w \o new) = Len(w) + Len(new)
        /\ \A j \in 1 .. Len(w) + Len(new) : (w \o new)[j] = IF j <= Len(w) THEN w[j] ELSE new[j - Len(w)]
    BY <1>1, <1>4, ConcatProperties
  <2> QED
    BY <1>1, <1>4, <2>1
<1>6. PICK z \in Nat : z = x + y /\ z = (IF c + 1 <= l THEN l ELSE c + 1) /\ z = Len(t)
  <2>1. x + y \in Nat /\ x + y = (IF c + 1 <= l THEN l ELSE c + 1)
    BY <1>1, <1>2
  <2> QED
    BY <1>5, <2>1
<1>7. PICK mv \in BOOLEAN : mv <=> mine /\ l < c
  OBVIOUS
<1>8. \A j \in 1 .. x : j \in 1 .. z /\ t[j] = w[j]
  <2> SUFFICES ASSUME NEW j \in 1 .. x PROVE j \in 1 .. z /\ t[j] = w[j]
    OBVIOUS
  <2>1. j \in 1 .. x + y /\ j <= x
    BY <1>1
  <2> QED
    BY <1>5, <1>6, <2>1
<1>9. \A j \in 1 .. z : j > x => j - x \in 1 .. y /\ t[j] = new[j - x]
  BY <1>5, <1>6
<1>10. \A j \in 1 .. z : New(j, l, c, mv) <=> j > x
  BY <1>1, <1>2, <1>6, <1>7 DEF New
<1>11. \A j \in 1 .. z : j <= l => j <= x
  BY <1>1, <1>2, <1>6
<1>12. \A j \in 1 .. z : j < c => j <= x
  BY <1>1, <1>2, <1>6
<1>13. ASSUME NEW j \in 1 .. z
       PROVE  /\ j <= l /\ ~(mv /\ j = l) => t[j] = K[j]
              /\ j < c /\ (j > l \/ (mv /\ j = l)) => t[j] = Null
              /\ New(j, l, c, mv) => t[j] \in Range(new)
  <2>1. j <= l /\ ~(mv /\ j = l) => t[j] = K[j]
    <3> SUFFICES ASSUME j <= l, ~(mv /\ j = l) PROVE t[j] = K[j]
      OBVIOUS
    <3>a. j \in 1 .. z
      BY <1>13
    <3>b. j <= x
      BY <1>11, <3>a, Zenon
    <3>1. j \in 1 .. x
      BY <3>a, <3>b
    <3> QED
      BY <1>1, <1>7, <1>8, <3>1
  <2>2. j < c /\ (j > l \/ (mv /\ j = l)) => t[j] = Null
    <3> SUFFICES ASSUME j < c, j > l \/ (mv /\ j = l) PROVE t[j] = Null
      OBVIOUS
    <3>a. j \in 1 .. z
      BY <1>13
    <3>b. j <= x
      BY <1>12, <3>a, Zenon
    <3>1. j \in 1 .. x
      BY <3>a, <3>b
    <3> QED
      BY <1>1, <1>7, <1>8, <3>1
  <2>3. New(j, l, c, mv) => t[j] \in Range(new)
    <3> SUFFICES ASSUME New(j, l, c, mv) PROVE t[j] \in Range(new)
      OBVIOUS
    <3>1. j - x \in 1 .. y /\ t[j] = new[j - x]
      BY <1>9, <1>10
    <3> QED
      BY <1>3, <3>1 DEF Range
  <2> QED
    BY <2>1, <2>2, <2>3
<1>14. mv => l < c /\ t[c] = K[l]
  <2> SUFFICES ASSUME mv PROVE l < c /\ t[c] = K[l]
    OBVIOUS
  <2>1. l < c /\ mine /\ x = c /\ c \in 1 .. x
    BY <1>1, <1>7
  <2> QED
    BY <1>1, <1>8, <2>1
<1>15. ASSUME NEW i \in 1 .. z, NEW j \in 1 .. z, New(i, l, c, mv), New(j, l, c, mv), t[i] = t[j]
       PROVE  i = j
  <2>1. i - x \in 1 .. y /\ t[i] = new[i - x] /\ j - x \in 1 .. y /\ t[j] = new[j - x]
    BY <1>9, <1>10, <1>15
  <2>2. i - x = j - x
    BY <1>3, <1>15, <2>1
  <2> QED
    BY <2>2
<1>16. GrownTo(t, K, l, c, mv, Range(new))
  BY <1>5, <1>6, <1>13, <1>14, <1>15 DEF GrownTo, Tables, S
<1>17. mv = (mine /\ l < c)
  BY <1>7, Zenon
<1> QED
  BY <1>16, <1>17

\* The step e of r, up to column c, with its table t = e.t: where its blocks come from.
Kinds(t, T, lo, c, mv, F, j) ==
    \/ j <= Len(T) /\ ~(mv /\ j = Len(T)) /\ t[j] = T[j] /\ t[j] \notin F
    \/ mv /\ j = c /\ c > Len(T) /\ t[j] = T[Len(T)] /\ t[j] \notin F
       /\ Len(T) > 0 /\ End(Len(T)) > lo
    \/ New(j, Len(T), c, mv) /\ t[j] \in F

Placed(r, e, s, lo, c, mv, F) ==
    /\ s \in Nat /\ lo \in Nat /\ c \in Nat /\ e.t \in Tables /\ Distinct(e.t)
    /\ Len(e.t) \in Nat /\ Len(bt[r]) \in Nat
    /\ Len(bt[r]) <= Len(e.t) /\ c + 1 <= Len(e.t) /\ s <= Len(bt[r])
    /\ \A j \in 1 .. Len(e.t) : e.t[j] # Null => Kinds(e.t, bt[r], lo, c, mv, F, j)
    /\ \A b \in F : b \in Slots /\ \A q \in Requests \ {r} :
                                     \A i \in 1 .. Len(bt[q]) : bt[q][i] # b
    /\ \A j \in 1 .. s : e.t[j] \in {Null, bt[r][j]}
    /\ (s > 0 => e.t[s] = bt[r][s] /\ bt[r][s] # Null)
    /\ (e.decode => /\ Full(e.t, s) /\ s > 0 /\ s < Len(bt[r]) /\ e.t[s + 1] = bt[r][s + 1]
                    /\ s <= Column(lo + Drafts))
    /\ (~e.decode => /\ Len(e.t) = c + 1 /\ e.t[c] # Null /\ e.t[c + 1] # Null /\ s < c
                     /\ \A j \in s + 1 .. c - 1 : e.t[j] = Null)

LEMMA PlacedIs ==
    ASSUME IInv, NEW r \in Requests, Here(r), NEW s, NEW lo, NEW hi, Ready(r, s, lo, hi),
           NEW end \in Nat, end > known[r], NEW c, c = Column(end), NEW e,
           e.decode <=> known[r] >= prompt[r], e.decode => end = known[r] + 1 + Drafts,
           NEW mv, mv = (r \in begun /\ Len(bt[r]) < c),
           NEW F, F \subseteq Free(r), GrownTo(e.t, Retire(r), Len(bt[r]), c, mv, F)
    PROVE  Placed(r, e, s, lo, c, mv, F)
<1>1. PICK k \in Nat, p \in Nat, l \in Nat : k = known[r] /\ p = prompt[r] /\ l = Len(bt[r])
  BY TypesAre DEF IInv
<1>2. PICK T \in Tables : T = bt[r]
  BY TypesAre DEF IInv
<1>3. PICK t, K, d : t = e.t /\ K = Retire(r) /\ d = e.decode
  OBVIOUS
<1>4. /\ s \in Nat /\ lo \in Nat
      /\ (s > 0 => s <= l /\ T[s] # Null)
      /\ (r \in begun => s > 0 /\ Full(T, s) /\ s < l)
      /\ (r \notin begun => l = s /\ k < p)
      /\ (k < p => End(s) = k /\ lo = k /\ (r \in begun => l = s + 1))
      /\ (k >= p => r \in begun /\ l >= Column(k) + 1 /\ s <= Column(lo + Drafts))
  BY <1>1, <1>2 DEF Ready
<1>5. c \in Nat /\ c > 0 /\ (\A j \in Nat : c <= j <=> end <= End(j))
  <2>1. end > 0
    BY <1>1
  <2> QED
    BY <2>1, Columns
<1>6. /\ Len(K) = l /\ \A j \in 1 .. l : K[j] \in {Null, T[j]} /\ (j >= s => K[j] = T[j])
  BY <1>1, <1>2, <1>3, RetireIs
<1>7. PICK z \in Nat : z = Len(t) /\ z = (IF c + 1 <= l THEN l ELSE c + 1)
  <2>1. Len(t) = (IF c + 1 <= l THEN l ELSE c + 1)
    BY <1>1, <1>3 DEF GrownTo
  <2>2. (IF c + 1 <= l THEN l ELSE c + 1) \in Nat
    BY <1>5
  <2> QED
    BY <2>1, <2>2
<1>8. /\ t \in Tables
      /\ \A j \in 1 .. z :
           /\ j <= l /\ ~(mv /\ j = l) => t[j] = K[j]
           /\ j < c /\ (j > l \/ (mv /\ j = l)) => t[j] = Null
           /\ New(j, l, c, mv) => t[j] \in F
      /\ mv => l < c /\ t[c] = K[l]
      /\ \A i, j \in 1 .. z : New(i, l, c, mv) /\ New(j, l, c, mv) /\ t[i] = t[j] => i = j
  BY <1>1, <1>3, <1>7 DEF GrownTo
<1>9. mv \in BOOLEAN /\ (mv <=> r \in begun /\ l < c)
  BY <1>1
<1>10. d <=> k >= p
  BY <1>1, <1>3
<1>11. k >= p => c <= l /\ ~mv /\ s > 0 /\ s < l /\ Full(T, s)
  <2> SUFFICES ASSUME k >= p PROVE c <= l /\ ~mv /\ s > 0 /\ s < l /\ Full(T, s)
    OBVIOUS
  <2>1. end = k + (1 + Drafts) /\ 1 + Drafts \in Nat /\ 1 + Drafts <= BlockSize
    BY <1>1, <1>3, <1>10, Sizes
  <2>2. Column(end) <= Column(k) + 1
    BY <2>1, ColumnNext
  <2>3. Column(k) \in Nat
    BY Columns
  <2>4. c <= l
    BY <1>4, <1>5, <2>2, <2>3
  <2> QED
    BY <1>4, <1>5, <1>9, <2>4
<1>12. k < p => s < c /\ l <= c /\ z = c + 1 /\ (r \in begun => l = s + 1) /\ (r \notin begun => l = s)
  <2> SUFFICES ASSUME k < p
               PROVE  s < c /\ l <= c /\ z = c + 1 /\ (r \in begun => l = s + 1) /\ (r \notin begun => l = s)
    OBVIOUS
  <2>1. End(s) = k /\ ~(end <= End(s))
    BY <1>1, <1>4
  <2>2. s < c
    BY <1>4, <1>5, <2>1
  <2>3. l = s + 1 \/ l = s
    BY <1>4
  <2> QED
    BY <1>4, <1>5, <1>7, <2>2, <2>3
<1>13. mv => /\ l = s + 1 /\ l < c /\ K[l] = T[l] /\ T[l] # Null /\ End(l) > lo /\ l > 0 /\ k < p
  <2> SUFFICES ASSUME mv PROVE l = s + 1 /\ l < c /\ K[l] = T[l] /\ T[l] # Null /\ End(l) > lo /\ l > 0 /\ k < p
    OBVIOUS
  <2>1. k < p /\ r \in begun /\ l < c
    BY <1>1, <1>9, <1>11
  <2>2. l = s + 1 /\ End(s) = lo /\ Full(T, s)
    BY <1>4, <2>1
  <2>3. l \in s .. Len(T) /\ l \in 1 .. l /\ l >= s
    BY <1>1, <1>2, <1>4, <2>2
  <2>4. End(s + 1) = End(s) + BlockSize
    BY <1>4, Ends
  <2>5. End(l) > lo
    BY <1>4, <2>2, <2>4, Sizes
  <2> QED
    BY <1>6, <2>1, <2>2, <2>3, <2>5 DEF Full
<1>14. ASSUME NEW b \in F
       PROVE  /\ b \in Slots /\ \A j \in 1 .. l : K[j] # b
              /\ \A q \in Requests \ {r} : \A i \in 1 .. Len(bt[q]) : bt[q][i] # b
  <2>1. b \in Slots /\ b \notin Range(K) /\ \A q \in Requests \ {r} : b \notin Held(q)
    BY <1>3 DEF Free
  <2>2. b # Null
    BY <2>1, Sizes
  <2>3. \A j \in 1 .. l : K[j] \in Range(K)
    <3>1. K \in Tables
      BY <1>3, RetireIs
    <3>2. DOMAIN K = 1 .. l
      BY <1>6, <3>1 DEF Tables
    <3> QED
      BY <3>2 DEF Range
  <2>4. ASSUME NEW q \in Requests \ {r}, NEW i \in 1 .. Len(bt[q]) PROVE bt[q][i] # b
    <3>1. bt[q] \in Tables
      BY TypesAre DEF IInv
    <3>2. bt[q][i] \in Range(bt[q])
      BY <2>4, <3>1 DEF Tables, Range
    <3> QED
      BY <2>1, <2>2, <2>4, <3>2 DEF Held
  <2> QED
    BY <2>1, <2>3, <2>4
<1>15. ASSUME NEW j \in 1 .. z, t[j] # Null PROVE Kinds(t, T, lo, c, mv, F, j)
  <2>1. CASE j <= l /\ ~(mv /\ j = l)
    <3>1. j \in 1 .. l /\ t[j] = K[j]
      BY <1>8, <1>15, <2>1
    <3>2. t[j] = T[j] /\ t[j] \notin F
      BY <1>6, <1>14, <1>15, <3>1
    <3> QED
      BY <1>1, <1>2, <2>1, <3>2 DEF Kinds
  <2>2. CASE mv /\ j = l
    <3>1. j < c /\ t[j] = Null
      BY <1>8, <1>13, <1>15, <2>2
    <3> QED
      BY <1>15, <3>1
  <2>3. CASE j > l /\ j < c
    BY <1>8, <1>15, <2>3
  <2>4. CASE j > l /\ mv /\ j = c
    <3>1. t[j] = K[l] /\ K[l] = T[l] /\ l \in 1 .. l /\ End(l) > lo /\ l > 0 /\ c > l
      BY <1>8, <1>13, <2>4
    <3>2. t[j] \notin F
      BY <1>14, <3>1
    <3> QED
      BY <1>1, <1>2, <2>4, <3>1, <3>2 DEF Kinds
  <2>5. CASE j > l /\ j >= c /\ ~(mv /\ j = c)
    <3>1. New(j, l, c, mv)
      BY <2>5 DEF New
    <3>2. t[j] \in F
      BY <1>8, <1>15, <3>1
    <3> QED
      BY <1>1, <1>2, <3>1, <3>2 DEF Kinds
  <2> QED
    BY <1>5, <1>15, <2>1, <2>2, <2>3, <2>4, <2>5
<1>16. Distinct(t)
  <2> SUFFICES ASSUME NEW i \in 1 .. z, NEW j \in 1 .. z, t[i] = t[j], t[i] # Null PROVE i = j
    BY <1>7 DEF Distinct
  <2> DEFINE O(x) == x <= l /\ ~(mv /\ x = l) /\ t[x] = T[x] /\ t[x] \notin F
             M(x) == mv /\ x = c /\ t[x] = T[l] /\ t[x] \notin F /\ l > 0
             N(x) == New(x, l, c, mv) /\ t[x] \in F
  <2>1. (O(i) \/ M(i) \/ N(i)) /\ (O(j) \/ M(j) \/ N(j))
    BY <1>1, <1>2, <1>15 DEF Kinds
  <2>2. \A a, b \in 1 .. l : T[a] = T[b] /\ T[a] # Null => a = b
    <3>1. Distinct(T)
      BY <1>2 DEF IInv, RequestOK, TableOK
    <3> QED
      BY <1>1, <1>2, <3>1 DEF Distinct
  <2>3. CASE O(i) /\ O(j)
    <3>1. i <= l /\ j <= l /\ T[i] = T[j] /\ T[i] # Null
      BY <2>3
    <3>2. i \in 1 .. l /\ j \in 1 .. l
      BY <3>1
    <3> QED
      BY <2>2, <3>1, <3>2
  <2>4. CASE O(i) /\ M(j)
    <3>a. i <= l /\ l > 0 /\ T[i] = T[l] /\ T[i] # Null
      BY <2>4
    <3>1. i \in 1 .. l /\ l \in 1 .. l /\ T[i] = T[l] /\ T[i] # Null
      BY <3>a
    <3> QED
      BY <2>2, <2>4, <3>1
  <2>5. CASE M(i) /\ O(j)
    <3>1. j \in 1 .. l /\ l \in 1 .. l /\ T[j] = T[l] /\ T[j] # Null
      BY <2>5
    <3> QED
      BY <2>2, <2>5, <3>1
  <2>6. CASE M(i) /\ M(j)
    BY <2>6
  <2>7. CASE N(i) /\ N(j)
    BY <1>8, <2>7
  <2>8. CASE (N(i) /\ ~N(j)) \/ (~N(i) /\ N(j))
    BY <2>1, <2>8
  <2> HIDE DEF O, M, N
  <2> QED
    BY <2>1, <2>3, <2>4, <2>5, <2>6, <2>7, <2>8
<1>17. s <= l /\ l <= z /\ c + 1 <= z
  BY <1>4, <1>5, <1>7
<1>18. ASSUME NEW j \in 1 .. s PROVE t[j] \in {Null, T[j]}
  <2>1. j \in 1 .. l /\ j \in 1 .. z /\ j <= l /\ ~(mv /\ j = l)
    BY <1>4, <1>13, <1>17, <1>18
  <2> QED
    BY <1>6, <1>8, <2>1
<1>19. s > 0 => t[s] = T[s] /\ T[s] # Null
  <2> SUFFICES ASSUME s > 0 PROVE t[s] = T[s] /\ T[s] # Null
    OBVIOUS
  <2>1. s \in 1 .. l /\ s \in 1 .. z /\ s <= l /\ ~(mv /\ s = l) /\ s >= s
    BY <1>4, <1>13, <1>17
  <2> QED
    BY <1>4, <1>6, <1>8, <2>1
<1>20. d => Full(t, s) /\ s > 0 /\ s < l /\ t[s + 1] = T[s + 1] /\ s <= Column(lo + Drafts)
  <2> SUFFICES ASSUME d PROVE Full(t, s) /\ s > 0 /\ s < l /\ t[s + 1] = T[s + 1] /\ s <= Column(lo + Drafts)
    OBVIOUS
  <2>1. k >= p /\ c <= l /\ ~mv /\ s > 0 /\ s < l /\ Full(T, s) /\ s <= Column(lo + Drafts)
    BY <1>4, <1>10, <1>11
  <2>2. ASSUME NEW j \in s .. l PROVE t[j] = T[j] /\ T[j] # Null
    <3>1. j \in 1 .. l /\ j \in 1 .. z /\ j >= s
      BY <1>4, <1>17, <2>1, <2>2
    <3>2. t[j] = K[j] /\ K[j] = T[j]
      BY <1>6, <1>8, <2>1, <3>1
    <3> QED
      BY <1>1, <1>2, <2>1, <2>2, <3>2 DEF Full
  <2>3. ASSUME NEW j \in s .. z PROVE t[j] # Null
    <3>1. CASE j <= l
      <4>1. j \in s .. l
        BY <2>3, <3>1
      <4> QED
        BY <2>2, <4>1
    <3>2. CASE ~(j <= l)
      <4>1. j \in 1 .. z /\ New(j, l, c, mv)
        BY <1>4, <1>5, <2>1, <2>3, <3>2 DEF New
      <4>2. t[j] \in F
        BY <1>8, <4>1
      <4> QED
        BY <1>14, <4>2, Sizes
    <3> QED
      BY <3>1, <3>2
  <2>4. s + 1 \in s .. l
    BY <1>4, <2>1
  <2> QED
    BY <1>7, <2>1, <2>2, <2>3, <2>4 DEF Full
<1>21. ~d => /\ z = c + 1 /\ t[c] # Null /\ t[c + 1] # Null /\ s < c
             /\ \A j \in s + 1 .. c - 1 : t[j] = Null
  <2> SUFFICES ASSUME ~d PROVE /\ z = c + 1 /\ t[c] # Null /\ t[c + 1] # Null /\ s < c
                               /\ \A j \in s + 1 .. c - 1 : t[j] = Null
    OBVIOUS
  <2>1. k < p
    BY <1>10
  <2>2. s < c /\ l <= c /\ z = c + 1 /\ (r \in begun => l = s + 1) /\ (r \notin begun => l = s)
    BY <1>12, <2>1
  <2>3. \A b \in F : b # Null
    BY <1>14, Sizes
  <2>4. t[c + 1] # Null
    <3>1. c + 1 \in 1 .. z /\ New(c + 1, l, c, mv)
      BY <1>5, <2>2 DEF New
    <3> QED
      BY <1>8, <2>3, <3>1
  <2>5. t[c] # Null
    <3>1. c \in 1 .. z
      BY <1>5, <2>2
    <3>2. CASE mv
      BY <1>8, <1>13, <3>2
    <3>3. CASE ~mv /\ l < c
      <4>1. New(c, l, c, mv)
        BY <1>5, <3>3 DEF New
      <4> QED
        BY <1>8, <2>3, <3>1, <4>1
    <3>4. CASE ~mv /\ l = c
      <4>1. r \in begun /\ Full(T, s) /\ c \in 1 .. l /\ c >= s /\ c \in s .. Len(T)
        BY <1>1, <1>2, <1>4, <1>5, <2>2, <3>4
      <4>2. t[c] = K[c] /\ K[c] = T[c]
        BY <1>6, <1>8, <3>1, <3>4, <4>1
      <4> QED
        BY <4>1, <4>2 DEF Full
    <3> QED
      BY <1>5, <2>2, <3>2, <3>3, <3>4
  <2>6. ASSUME NEW j \in s + 1 .. c - 1 PROVE t[j] = Null
    <3>1. j \in 1 .. z /\ j < c /\ j > s
      BY <1>4, <1>5, <2>2, <2>6
    <3>2. j > l \/ (mv /\ j = l)
      BY <1>9, <2>2, <3>1
    <3> QED
      BY <1>8, <3>1, <3>2
  <2> QED
    BY <2>2, <2>4, <2>5, <2>6
<1>22. \A b \in F : b \in Slots /\ \A q \in Requests \ {r} : \A i \in 1 .. Len(bt[q]) : bt[q][i] # b
  BY <1>14
<1> QED
  BY <1>1, <1>2, <1>3, <1>4, <1>5, <1>7, <1>8, <1>15, <1>16, <1>17, <1>18, <1>19, <1>20, <1>21,
     <1>22 DEF Placed

-----------------------------------------------------------------------------
(* A step is scheduled: the queue.                                         *)

\* Step k is e, of r: what it may start from, and what r will surely have.
NextOK(r, e, s, lo, hi, k) ==
    /\ k \in 1 .. 2 /\ k = Len(queue) + 1 /\ Len(queue') = k /\ queue'[k] = e
    /\ \A i \in 1 .. Len(queue) : queue'[i] = queue[i]
    /\ (Follows(k)' <=> Mine(r)) /\ (Exact(k)' <=> (Mine(r) => ~queue[1].decode))
    /\ Lo(k)' = lo /\ Hi(k)' = hi /\ Src(k)' = s
    /\ Certain(r)' = lo + (IF Exact(k)' THEN Least(e) ELSE 0)
    /\ QueuedTokens(r)' = QueuedTokens(r) + e.n /\ Queued(r)'
    /\ \A q \in Requests \ {r} :
         /\ Certain(q)' = Certain(q) /\ QueuedTokens(q)' = QueuedTokens(q)
         /\ (Queued(q)' <=> Queued(q))

LEMMA NextIs ==
    ASSUME IInv, NEW r \in Requests, Here(r), NEW s, NEW lo, NEW hi, Ready(r, s, lo, hi),
           Len(queue) \in 0 .. 1, NEW e, e.req = r, e.n \in Nat, e.decode \in BOOLEAN,
           queue' = Append(queue, e), computed' = computed, col' = col,
           NEW k, k = Len(queue) + 1
    PROVE  NextOK(r, e, s, lo, hi, k)
<1>1. PICK l \in 0 .. 1 : l = Len(queue) /\ k = l + 1 /\ k \in 1 .. 2
  <2>1. Len(queue) + 1 \in 1 .. 2
    OBVIOUS
  <2> QED
    BY <2>1
<1>2. /\ Len(queue') = k /\ queue'[k] = e /\ \A i \in 1 .. l : queue'[i] = queue[i]
  <2>1. queue \in Seq(Entry)
    BY DEF IInv, Types
  <2> QED
    BY <1>1, <2>1
<1>3. /\ s = IF Mine(r) THEN Column(computed[r] + queue[1].n) ELSE col[r]
      /\ lo = Certain(r) /\ hi = computed[r] + QueuedTokens(r) /\ lo \in Nat /\ s \in Nat /\ hi \in Nat
  BY DEF Ready
<1>4. computed[r] \in Nat /\ Least(e) \in Nat
  BY TypesAre DEF IInv, Least
<1>5. QueuedTokens(r)' = QueuedTokens(r) + e.n /\ Queued(r)'
      /\ Certain(r)' = lo + (IF Exact(k)' THEN Least(e) ELSE 0)
      /\ (Follows(k)' <=> Mine(r)) /\ (Exact(k)' <=> (Mine(r) => ~queue[1].decode))
      /\ Lo(k)' = lo /\ Hi(k)' = hi /\ Src(k)' = s
  <2>1. Queued(r)'
    <3>1. k \in 1 .. Len(queue') /\ queue'[k].req = r
      BY <1>1, <1>2
    <3> QED
      BY <3>1 DEF Queued
  <2>2. CASE Mine(r)
    <3>1. l = 1 /\ k = 2 /\ queue[1].req = r /\ queue'[1] = queue[1] /\ queue'[2] = e
      BY <1>1, <1>2, <2>2 DEF Mine
    <3>2. PICK f, m : f = queue[1] /\ m = computed[r]
      OBVIOUS
    <3>3. MineOK(f, r, m, s)
      BY <1>3, <2>2, <3>2, MineIs
    <3>4. /\ Least(f) \in Nat /\ f.n \in Nat /\ QueuedTokens(r) = f.n /\ Certain(r) = m + Least(f)
      BY <3>3 DEF MineOK
    <3>5. Follows(2)'
      BY <1>1, <1>2, <3>1 DEF Follows
    <3>6. Exact(2)' <=> ~queue[1].decode
      BY <3>1, <3>5 DEF Exact
    <3>7. Lo(2)' = m + Least(f)
      BY <3>1, <3>2, <3>5 DEF Lo, Least
    <3>8. Hi(2)' = m + f.n
      BY <3>1, <3>2, <3>5 DEF Hi
    <3>9. Src(2)' = Column(m + f.n)
      BY <3>1, <3>2, <3>5 DEF Src, Column
    <3>10. QueuedTokens(r)' = f.n + e.n
      BY <1>1, <1>2, <3>1, <3>2 DEF QueuedTokens
    <3>11. Certain(r)' = m + Least(f) + (IF Exact(2)' THEN Least(e) ELSE 0)
      BY <1>1, <1>2, <3>1, <3>2 DEF Certain, Least
    <3> QED
      BY <1>3, <2>1, <2>2, <3>1, <3>2, <3>4, <3>5, <3>6, <3>7, <3>8, <3>9, <3>10, <3>11
  <2>3. CASE ~Mine(r)
    <3>1. QueuedTokens(r) = 0 /\ Certain(r) = computed[r] /\ ~Queued(r)
      BY <2>3, IdleIs
    <3>2. lo = computed[r] /\ hi = computed[r] /\ s = col[r]
      BY <1>3, <1>4, <2>3, <3>1
    <3>3. \A i \in 1 .. l : queue'[i].req # r
      BY <1>1, <1>2, <3>1 DEF Queued
    <3>4. ~Follows(k)'
      <4> SUFFICES ASSUME k = 2, queue'[1].req = queue'[2].req PROVE FALSE
        BY DEF Follows
      <4>1. l = 1 /\ 1 \in 1 .. l
        BY <1>1
      <4> QED
        BY <1>2, <3>3, <4>1
    <3>5. Exact(k)'
      BY <3>4 DEF Exact
    <3>6. Lo(k)' = computed[r] + 0
      BY <1>2, <3>4 DEF Lo
    <3>7. Hi(k)' = computed[r] + 0
      BY <1>2, <3>4 DEF Hi
    <3>8. Src(k)' = col[r]
      BY <1>2, <3>4 DEF Src
    <3>9. QueuedTokens(r)' = e.n /\ Certain(r)' = computed[r] + Least(e)
      <4>1. CASE k = 1
        <5>1. queue'[1] = e /\ Len(queue') >= 1 /\ ~(Len(queue') >= 2)
          BY <1>2, <4>1
        <5>2. QueuedTokens(r)' = e.n + 0
          BY <5>1 DEF QueuedTokens
        <5>3. Certain(r)' = computed[r] + Least(e) + 0
          BY <5>1 DEF Certain, Least
        <5> QED
          BY <1>4, <5>2, <5>3
      <4>2. CASE k = 2
        <5>1. queue'[2] = e /\ Len(queue') >= 2 /\ ~(queue'[1].req = r) /\ Exact(2)'
          <6>1. 1 \in 1 .. l
            BY <1>1, <4>2
          <6> QED
            BY <1>2, <3>3, <3>5, <4>2, <6>1
        <5>2. QueuedTokens(r)' = 0 + e.n
          BY <5>1 DEF QueuedTokens
        <5>3. Certain(r)' = computed[r] + 0 + Least(e)
          BY <5>1 DEF Certain, Least
        <5> QED
          BY <1>4, <5>2, <5>3
      <4> QED
        BY <1>1, <4>1, <4>2
    <3> QED
      BY <1>3, <1>4, <2>1, <2>3, <3>1, <3>2, <3>4, <3>5, <3>6, <3>7, <3>8, <3>9
  <2> QED
    BY <2>2, <2>3
<1>6. ASSUME NEW q \in Requests \ {r}
      PROVE  /\ Certain(q)' = Certain(q) /\ QueuedTokens(q)' = QueuedTokens(q)
             /\ (Queued(q)' <=> Queued(q))
  <2>1. CASE k = 1
    <3>1. ~(Len(queue) >= 1) /\ ~(Len(queue) >= 2) /\ ~(Len(queue') >= 2) /\ ~(queue'[1].req = q)
      BY <1>1, <1>2, <1>6, <2>1
    <3>2. QueuedTokens(q)' = QueuedTokens(q)
      BY <3>1 DEF QueuedTokens
    <3>3. Certain(q)' = Certain(q)
      BY <3>1 DEF Certain
    <3>4. ~Queued(q)
      BY <1>1, <2>1 DEF Queued
    <3>5. ~Queued(q)'
      <4>1. \A i \in 1 .. Len(queue') : i = 1
        BY <1>2, <2>1
      <4> QED
        BY <3>1, <4>1 DEF Queued
    <3> QED
      BY <3>2, <3>3, <3>4, <3>5
  <2>2. CASE k = 2
    <3>1. /\ Len(queue) >= 1 /\ ~(Len(queue) >= 2) /\ Len(queue') >= 1 /\ Len(queue') >= 2
          /\ ~(queue'[2].req = q) /\ queue'[1] = queue[1] /\ l = 1
      BY <1>1, <1>2, <1>6, <2>2
    <3>2. QueuedTokens(q)' = QueuedTokens(q)
      BY <3>1 DEF QueuedTokens
    <3>3. Certain(q)' = Certain(q)
      BY <3>1 DEF Certain, Least
    <3>4. Queued(q) <=> queue[1].req = q
      <4>1. \A i \in 1 .. Len(queue) : i = 1
        BY <1>1, <3>1
      <4>2. 1 \in 1 .. Len(queue)
        BY <1>1, <3>1
      <4> QED
        BY <4>1, <4>2 DEF Queued
    <3>5. Queued(q)' <=> queue'[1].req = q
      <4>1. \A i \in 1 .. Len(queue') : i = 1 \/ i = 2
        BY <1>2, <2>2
      <4>2. 1 \in 1 .. Len(queue')
        BY <1>2, <2>2
      <4> QED
        BY <3>1, <4>1, <4>2 DEF Queued
    <3> QED
      BY <3>1, <3>2, <3>3, <3>4, <3>5
  <2> QED
    BY <1>1, <2>1, <2>2
<1> QED
  BY <1>1, <1>2, <1>5, <1>6 DEF NextOK

\* A step e of r, to `end`, is scheduled as step k.
Planned(r, end, e, s, lo, hi, c, mv, F, k) ==
    /\ r \in Requests /\ Here(r) /\ end \in 1 .. MaxLen /\ end > known[r] /\ c = Column(end)
    /\ Len(queue) \in 0 .. 1 /\ Len(queue) + Len(done) < 2
    /\ e \in Entry /\ e.req = r /\ e.n = end - known[r] /\ (e.decode <=> known[r] >= prompt[r])
    /\ (e.decode => end = known[r] + 1 + Drafts)
    /\ (~e.decode => end = prompt[r] \/ (end < prompt[r] /\ end % BlockSize = 0))
    /\ Ready(r, s, lo, hi) /\ Placed(r, e, s, lo, c, mv, F) /\ NextOK(r, e, s, lo, hi, k)
    /\ GrownTo(e.t, Retire(r), Len(bt[r]), c, mv, F)
    /\ bt'[r] = e.t /\ known'[r] = end /\ flight'[r] = flight[r] + e.n
    /\ retired'[r] = Retired(r) /\ begun' = begun \cup {r}
    /\ prompt' = prompt /\ done' = done /\ computed' = computed /\ nacc' = nacc /\ col' = col
    /\ slot' = slot /\ Frame
    /\ \A q \in Requests \ {r} : Untouched(q)
    /\ \A p \in 1 .. MaxLen :
         \/ cached[p] # Null /\ cached[p] \notin F /\ cached'[p] = cached[p]
         \/ p % BlockSize = 0 /\ p <= Registered(r, end) /\ cached'[p] = e.t[Column(p)]
         \/ cached'[p] = Null

LEMMA ScheduleIs ==
    ASSUME IInv, NEW r \in Requests, NEW end \in 1 .. MaxLen, Schedule(r, end)
    PROVE  /\ \E e, s, lo, hi, c, mv, F, k : Planned(r, end, e, s, lo, hi, c, mv, F, k)
           /\ turns' = turns
           /\ known' = [known EXCEPT ![r] = end]
           /\ flight' = [flight EXCEPT ![r] = @ + end - known[r]]
           /\ retired' = [retired EXCEPT ![r] = Retired(r)]
           /\ \E e : queue' = Append(queue, e) /\ bt' = [bt EXCEPT ![r] = e.t]
           /\ cached' \in [1 .. MaxLen -> {cached'[o] : o \in 1 .. MaxLen}]
<1>1. /\ Here(r) /\ Len(queue) + Len(done) < 2
      /\ IF known[r] < prompt[r]
         THEN end > known[r] /\ (end = prompt[r] \/ (end < prompt[r] /\ end % BlockSize = 0))
         ELSE end = known[r] + 1 + Drafts
      /\ begun' = begun \cup {r} /\ retired' = [retired EXCEPT ![r] = Retired(r)]
      /\ known' = [known EXCEPT ![r] = end] /\ flight' = [flight EXCEPT ![r] = @ + end - known[r]]
      /\ UNCHANGED <<slot, computed, nacc, col, prompt, done, turns>>
  BY DEF Schedule, workVars
<1>2. PICK w : w = Window(Retire(r), end, r \in begun)
  OBVIOUS
<1>a. PICK new \in Injection(1 .. Column(end) + 1 - Len(w), Free(r)) :
        /\ bt' = [bt EXCEPT ![r] = w \o new]
        /\ cached' = [p \in 1 .. MaxLen |->
              IF cached[p] # Null /\ cached[p] \notin Range(new) THEN cached[p]
              ELSE IF p % BlockSize = 0 /\ p <= Registered(r, end)
                   THEN (w \o new)[Column(p)] ELSE Null]
        /\ queue' = Append(queue, [req |-> r, n |-> end - known[r], t |-> w \o new,
                                   decode |-> known[r] >= prompt[r]])
  BY <1>2 DEF Schedule
<1>b. PICK t : t = w \o new
  OBVIOUS
<1>3. /\ t = w \o new /\ bt' = [bt EXCEPT ![r] = t]
      /\ cached' = [p \in 1 .. MaxLen |->
            IF cached[p] # Null /\ cached[p] \notin Range(new) THEN cached[p]
            ELSE IF p % BlockSize = 0 /\ p <= Registered(r, end)
                 THEN t[Column(p)] ELSE Null]
      /\ queue' = Append(queue, [req |-> r, n |-> end - known[r], t |-> t,
                                 decode |-> known[r] >= prompt[r]])
  BY <1>a, <1>b
<1>4. PICK e : e = [req |-> r, n |-> end - known[r], t |-> t, decode |-> known[r] >= prompt[r]]
  OBVIOUS
<1>5. e.req = r /\ e.n = end - known[r] /\ e.t = t /\ (e.decode <=> known[r] >= prompt[r])
      /\ e.decode \in BOOLEAN
  <2>1. e.req = r /\ e.n = end - known[r] /\ e.t = t
    BY <1>4
  <2>2. PICK d \in BOOLEAN : d <=> known[r] >= prompt[r]
    OBVIOUS
  <2>3. d = (known[r] >= prompt[r])
    <3>1. known[r] \in Nat /\ prompt[r] \in Nat
      BY TypesAre DEF IInv
    <3> QED
      BY <2>2, <3>1
  <2>4. e.decode = d
    BY <1>4, <2>3
  <2> QED
    BY <2>1, <2>2, <2>4
<1>6. PICK m \in Nat, p \in Nat : m = known[r] /\ p = prompt[r]
  BY TypesAre DEF IInv
<1>7. end \in Nat /\ end > m /\ end - m \in 1 .. MaxLen /\ (m >= p => end = m + 1 + Drafts)
      /\ (~(m >= p) => end = p \/ (end < p /\ end % BlockSize = 0))
  <2>1. end \in Nat /\ end <= MaxLen /\ MaxLen \in Nat
    BY Sizes
  <2>2. CASE m < p
    <3>1. end > m /\ (end = p \/ (end < p /\ end % BlockSize = 0))
      BY <1>1, <1>6, <2>2
    <3>2. ~(m >= p)
      BY <2>2
    <3>3. end - m \in 1 .. MaxLen
      BY <2>1, <3>1
    <3> QED
      BY <2>1, <3>1, <3>2, <3>3
  <2>3. CASE ~(m < p)
    <3>1. end = m + 1 + Drafts
      BY <1>1, <1>6, <2>3
    <3>2. m >= p
      BY <2>3
    <3>3. end > m /\ end - m \in 1 .. MaxLen
      BY <2>1, <3>1, Sizes
    <3> QED
      BY <2>1, <3>1, <3>2, <3>3
  <2> QED
    BY <2>2, <2>3
<1>8. PICK c \in Nat : c = Column(end) /\ c > 0
  <2>1. Column(end) \in Nat /\ (end > 0 <=> Column(end) > 0) /\ end > 0
    BY <1>7, Columns
  <2> QED
    BY <2>1
<1>9. PICK d \in 0 .. 1 : d = Len(queue)
  <2>1. Len(queue) \in 0 .. 2 /\ Len(done) \in 0 .. 2
    BY QueueIs DEF IInv
  <2>2. PICK a \in 0 .. 2, b \in 0 .. 2 : a = Len(queue) /\ b = Len(done)
    BY <2>1
  <2>3. a + b < 2
    BY <1>1, <2>2
  <2>4. a \in 0 .. 1
    BY <2>3
  <2> QED
    BY <2>2, <2>4
<1>10. PICK lo, hi, s : /\ s = (IF Mine(r) THEN Column(computed[r] + queue[1].n) ELSE col[r])
                        /\ lo = Certain(r) /\ hi = computed[r] + QueuedTokens(r)
  OBVIOUS
<1>11. Ready(r, s, lo, hi)
  BY <1>1, <1>9, <1>10, ReadyIs
<1>12. PICK l \in Nat : l = Len(bt[r])
  BY TypesAre DEF IInv
<1>13. PICK K \in Tables : K = Retire(r) /\ l = Len(K)
  <2>1. Retire(r) \in Tables /\ Len(Retire(r)) = Len(bt[r])
    BY <1>11, RetireIs
  <2> QED
    BY <1>12, <2>1
<1>c. PICK mine \in BOOLEAN : mine <=> r \in begun
  OBVIOUS
<1>14. mine = (r \in begun)
  BY <1>c, Zenon
<1>15. mine => l > 0
  <2>1. s \in Nat /\ (r \in begun => s < l)
    BY <1>11, <1>12 DEF Ready
  <2> QED
    BY <1>c, <2>1
<1>16. PICK x \in Nat : Windowed(w, K, l, c, mine, x)
  <2>1. w = Window(K, end, mine)
    BY <1>2, <1>13, <1>14
  <2>2. \E x \in Nat : Windowed(Window(K, end, mine), K, l, c, mine, x)
    BY <1>8, <1>13, <1>15, WindowIs
  <2> QED
    BY <2>1, <2>2
<1>17. PICK F : F = Range(new)
  OBVIOUS
<1>18. PICK mv : mv = (mine /\ l < c)
  OBVIOUS
<1>19. Free(r) \subseteq Slots
  BY DEF Free
<1>20. new \in Injection(1 .. c + 1 - Len(w), Free(r))
  BY <1>3, <1>8
<1>21. GrownTo(t, K, l, c, mv, F)
  <2>1. t = w \o new
    BY <1>3
  <2>2. GrownTo(t, K, l, c, mine /\ l < c, Range(new))
    BY <1>8, <1>15, <1>16, <1>19, <1>20, <2>1, TableGrows
  <2> QED
    BY <1>17, <1>18, <2>2
<1>22. F \subseteq Free(r)
  BY <1>17, <1>20 DEF Injection, Range
<1>d. GrownTo(e.t, Retire(r), Len(bt[r]), c, mv, F)
  BY <1>5, <1>12, <1>13, <1>21
<1>23. Placed(r, e, s, lo, c, mv, F)
  <2>2. mv = (r \in begun /\ Len(bt[r]) < c)
    BY <1>12, <1>14, <1>18
  <2>3. (e.decode => end = known[r] + 1 + Drafts) /\ end > known[r]
    BY <1>5, <1>6, <1>7
  <2> QED
    BY <1>1, <1>5, <1>7, <1>8, <1>11, <1>22, <1>d, <2>2, <2>3, PlacedIs
<1>24. e \in Entry
  <2>1. t \in Tables
    BY <1>5, <1>23 DEF Placed
  <2>2. end - known[r] \in 1 .. MaxLen /\ (known[r] >= prompt[r]) \in BOOLEAN
    BY <1>6, <1>7
  <2> QED
    BY <1>4, <2>1, <2>2 DEF Entry
<1>25. PICK k : k = Len(queue) + 1
  OBVIOUS
<1>26. NextOK(r, e, s, lo, hi, k)
  <2>1. e.n \in Nat
    BY <1>5, <1>6, <1>7
  <2>2. queue' = Append(queue, e) /\ computed' = computed /\ col' = col
    BY <1>1, <1>3, <1>4
  <2>3. Len(queue) \in 0 .. 1
    BY <1>9
  <2> QED
    BY <1>1, <1>5, <1>11, <1>25, <2>1, <2>2, <2>3, NextIs
<1>27. /\ bt \in [Requests -> Tables] /\ known \in [Requests -> 0 .. MaxLen]
       /\ flight \in [Requests -> 0 .. MaxLen] /\ retired \in [Requests -> 0 .. MaxLen]
  BY DEF IInv, Types
<1>28. bt'[r] = e.t /\ known'[r] = end /\ flight'[r] = flight[r] + e.n /\ retired'[r] = Retired(r)
  <2>1. bt'[r] = t /\ known'[r] = end /\ retired'[r] = Retired(r)
    BY <1>1, <1>3, <1>27
  <2>2. flight'[r] = flight[r] + end - known[r]
    BY <1>1, <1>27
  <2>3. flight[r] \in Nat
    BY TypesAre DEF IInv
  <2> QED
    BY <1>5, <1>6, <1>7, <2>1, <2>2, <2>3
<1>29. \A q \in Requests \ {r} : Untouched(q)
  BY <1>1, <1>3, <1>27 DEF Untouched
<1>30. Frame
  <2>1. \A i \in 1 .. Len(queue) : queue'[i] = queue[i]
    BY <1>26 DEF NextOK
  <2> QED
    BY <1>1, <2>1 DEF Frame
<1>31. ASSUME NEW o \in 1 .. MaxLen
       PROVE  \/ cached[o] # Null /\ cached[o] \notin F /\ cached'[o] = cached[o]
              \/ o % BlockSize = 0 /\ o <= Registered(r, end) /\ cached'[o] = e.t[Column(o)]
              \/ cached'[o] = Null
  <2>1. cached'[o] = IF cached[o] # Null /\ cached[o] \notin Range(new) THEN cached[o]
                     ELSE IF o % BlockSize = 0 /\ o <= Registered(r, end)
                          THEN t[Column(o)] ELSE Null
    BY <1>3, <1>31, Zenon
  <2> QED
    BY <1>5, <1>17, <2>1
<1>32. Planned(r, end, e, s, lo, hi, c, mv, F, k)
  <2>1. Len(queue) \in 0 .. 1
    BY <1>9
  <2>2. end > known[r] /\ (e.decode => end = known[r] + 1 + Drafts)
        /\ (~e.decode => end = prompt[r] \/ (end < prompt[r] /\ end % BlockSize = 0))
    BY <1>5, <1>6, <1>7
  <2> QED
    BY <1>1, <1>5, <1>8, <1>11, <1>d, <1>23, <1>24, <1>26, <1>28, <1>29, <1>30, <1>31, <2>1, <2>2
    DEF Planned
<1>33. cached' \in [1 .. MaxLen -> {cached'[o] : o \in 1 .. MaxLen}]
  BY <1>3
<1>34. queue' = Append(queue, e) /\ bt' = [bt EXCEPT ![r] = e.t]
  BY <1>3, <1>4, <1>5
<1> QED
  BY <1>1, <1>32, <1>33, <1>34

-----------------------------------------------------------------------------
(* A step is scheduled: the blocks it may write.                           *)

LEMMA Apart ==
    ASSUME IInv, NEW r, NEW end, NEW e, NEW s, NEW lo, NEW hi, NEW c, NEW mv, NEW F, NEW k,
           Planned(r, end, e, s, lo, hi, c, mv, F, k),
           NEW q \in Requests \ {r}, Here(q), NEW i \in 1 .. Len(bt[q]), NEW j \in 1 .. Len(e.t),
           e.t[j] # Null, bt[q][i] = e.t[j]
    PROVE  i = j /\ End(j) <= lo /\ End(j) <= Certain(q)
<1>1. /\ r \in Requests /\ Here(r) /\ Placed(r, e, s, lo, c, mv, F) /\ Ready(r, s, lo, hi)
  BY DEF Planned
<1>2. lo = Certain(r) /\ lo \in Nat
  BY <1>1 DEF Ready
<1>3. PICK t, T, l : t = e.t /\ T = bt[r] /\ l = Len(bt[r])
  OBVIOUS
<1>4. l \in Nat /\ Kinds(t, T, lo, c, mv, F, j)
      /\ \A b \in F : \A o \in Requests \ {r} : \A h \in 1 .. Len(bt[o]) : bt[o][h] # b
  BY <1>1, <1>3 DEF Placed
<1>5. ASSUME NEW h \in 1 .. l, T[h] # Null, T[h] = bt[q][i]
      PROVE  h = i /\ End(h) <= lo /\ End(h) <= Certain(q)
  <2>1. SharedOK(r) /\ SharedOK(q)
    BY <1>1 DEF IInv, RequestOK
  <2>2. i = h /\ End(h) <= lo
    BY <1>2, <1>3, <1>5, <2>1 DEF SharedOK
  <2>3. bt[q][i] # Null /\ bt[q][i] = bt[r][h] /\ h \in 1 .. Len(bt[r]) /\ r \in Requests \ {q}
    BY <1>1, <1>3, <1>5
  <2>4. End(i) <= Certain(q)
    BY <1>1, <2>1, <2>3 DEF SharedOK
  <2> QED
    BY <2>2, <2>4
<1>6. CASE j <= l /\ ~(mv /\ j = l) /\ t[j] = T[j] /\ t[j] \notin F
  <2>1. j \in 1 .. l /\ T[j] # Null /\ T[j] = bt[q][i]
    BY <1>3, <1>6
  <2> QED
    BY <1>5, <2>1
<1>7. CASE mv /\ j = c /\ c > l /\ t[j] = T[l] /\ t[j] \notin F /\ l > 0 /\ End(l) > lo
  <2>1. l \in 1 .. l /\ T[l] # Null /\ T[l] = bt[q][i]
    BY <1>3, <1>4, <1>7
  <2>2. End(l) <= lo /\ End(l) \in Nat
    BY <1>4, <1>5, <2>1, EndIs
  <2> QED
    BY <1>2, <1>7, <2>2
<1>8. CASE t[j] \in F
  BY <1>3, <1>4, <1>8
<1> QED
  BY <1>3, <1>4, <1>6, <1>7, <1>8 DEF Kinds

LEMMA WritesNext ==
    ASSUME NEW r, NEW end, NEW e, NEW s, NEW lo, NEW hi, NEW c, NEW mv, NEW F, NEW k,
           Planned(r, end, e, s, lo, hi, c, mv, F, k)
    PROVE  Writes(k)' = {b \in Slots : \E j \in 1 .. Len(e.t) : e.t[j] = b /\ End(j) > lo}
<1>1. queue'[k] = e /\ Lo(k)' = lo
  BY DEF Planned, NextOK
<1>2. Writes(k)' = {b \in Slots : \E j \in 1 .. Len(queue'[k].t) : queue'[k].t[j] = b /\ End(j) > Lo(k)'}
  BY DEF Writes, End
<1> QED
  BY <1>1, <1>2

\* Blocks of other requests, and those up to lo, are not written.
LEMMA Spared ==
    ASSUME IInv, NEW r, NEW end, NEW e, NEW s, NEW lo, NEW hi, NEW c, NEW mv, NEW F, NEW k,
           Planned(r, end, e, s, lo, hi, c, mv, F, k)
    PROVE  /\ \A q \in Requests \ {r} : Here(q) => \A i \in 1 .. Len(bt[q]) : bt[q][i] \notin Writes(k)'
           /\ \A j \in 1 .. Len(e.t) : End(j) <= lo => e.t[j] \notin Writes(k)'
<1>1. Writes(k)' = {b \in Slots : \E j \in 1 .. Len(e.t) : e.t[j] = b /\ End(j) > lo}
  BY WritesNext
<1>2. lo \in Nat /\ Distinct(e.t)
  BY DEF Planned, Placed
<1>3. \A b \in Slots : b # Null
  BY Sizes
<1>4. ASSUME NEW q \in Requests \ {r}, Here(q), NEW i \in 1 .. Len(bt[q])
      PROVE  bt[q][i] \notin Writes(k)'
  <2> SUFFICES ASSUME bt[q][i] \in Writes(k)' PROVE FALSE
    OBVIOUS
  <2>1. PICK j \in 1 .. Len(e.t) : e.t[j] = bt[q][i] /\ End(j) > lo
    BY <1>1
  <2>2. e.t[j] # Null
    BY <1>1, <1>3, <2>1
  <2>3. End(j) <= lo
    BY <1>4, <2>1, <2>2, Apart
  <2>4. End(j) \in Nat
    BY EndIs
  <2> QED
    BY <1>2, <2>1, <2>3, <2>4
<1>5. ASSUME NEW j \in 1 .. Len(e.t), End(j) <= lo PROVE e.t[j] \notin Writes(k)'
  <2> SUFFICES ASSUME e.t[j] \in Writes(k)' PROVE FALSE
    OBVIOUS
  <2>1. PICK i \in 1 .. Len(e.t) : e.t[i] = e.t[j] /\ End(i) > lo
    BY <1>1
  <2>2. e.t[j] # Null
    BY <1>1, <1>3
  <2>3. i = j
    BY <1>2, <1>5, <2>1, <2>2 DEF Distinct
  <2>4. End(j) \in Nat
    BY <1>5, EndIs
  <2> QED
    BY <1>2, <1>5, <2>1, <2>3, <2>4
<1> QED
  BY <1>4, <1>5

LEMMA GoodNext ==
    ASSUME IInv, NEW r, NEW end, NEW e, NEW s, NEW lo, NEW hi, NEW c, NEW mv, NEW F, NEW k,
           Planned(r, end, e, s, lo, hi, c, mv, F, k),
           NEW b, NEW p, Good(k - 1, b, p), b \notin Writes(k)'
    PROVE  Good(k, b, p)'
<1>1. k \in 1 .. 2 /\ k = Len(queue) + 1 /\ Frame /\ Len(queue) \in 0 .. 1
  BY DEF Planned, NextOK
<1>2. PICK l \in 0 .. 1 : l = Len(queue) /\ k = l + 1 /\ l = k - 1
  BY <1>1
<1>3. Good(l, b, p)'
  <2>1. l \in 0 .. Len(queue) /\ Good(l, b, p)
    BY <1>2
  <2> QED
    BY <1>1, <2>1, GoodKept DEF IInv
<1>4. CASE slot'[b] = State(p) /\ \A i \in 1 .. l : b \notin Writes(i)'
  <2>1. \A i \in 1 .. k : i \in 1 .. l \/ i = k
    BY <1>2
  <2>2. \A i \in 1 .. k : b \notin Writes(i)'
    BY <1>4, <2>1
  <2> QED
    BY <1>4, <2>2 DEF Good
<1>5. CASE \E i \in 1 .. l : Makes(i, b, p)' /\ \A h \in i + 1 .. l : b \notin Writes(h)'
  <2>1. PICK i \in 1 .. l : Makes(i, b, p)' /\ \A h \in i + 1 .. l : b \notin Writes(h)'
    BY <1>5
  <2>2. i \in 1 .. k /\ \A h \in i + 1 .. k : h \in i + 1 .. l \/ h = k
    BY <1>2
  <2>3. \A h \in i + 1 .. k : b \notin Writes(h)'
    BY <2>1, <2>2
  <2> QED
    BY <2>1, <2>2, <2>3 DEF Good
<1> QED
  BY <1>3, <1>4, <1>5 DEF Good

-----------------------------------------------------------------------------
(* A step is scheduled: the steps of the queue.                            *)

\* From lo to hi tokens, step e of r has e.n more, up to `end`.
Reach(r, end, e, s, lo, hi, c) ==
    /\ lo \in Nat /\ hi \in Nat /\ s \in Nat /\ c \in Nat /\ end \in Nat
    /\ e.n \in Nat /\ 0 < e.n /\ e.decode \in BOOLEAN
    /\ lo <= hi /\ hi + e.n <= end /\ end <= MaxLen /\ c = Column(end)
    /\ (e.decode => e.n = 1 + Drafts /\ lo > 0 /\ lo >= prompt[r] /\ r \in begun)
    /\ (~e.decode => lo + e.n = end /\ hi = lo /\ End(s) = lo)

LEMMA ReachIs ==
    ASSUME IInv, NEW r, NEW end, NEW e, NEW s, NEW lo, NEW hi, NEW c, NEW mv, NEW F, NEW k,
           Planned(r, end, e, s, lo, hi, c, mv, F, k)
    PROVE  Reach(r, end, e, s, lo, hi, c)
<1>1. /\ r \in Requests /\ Here(r) /\ end \in 1 .. MaxLen /\ end > known[r] /\ c = Column(end)
      /\ e \in Entry /\ e.n = end - known[r] /\ (e.decode <=> known[r] >= prompt[r])
      /\ (e.decode => end = known[r] + 1 + Drafts)
      /\ Ready(r, s, lo, hi)
  BY DEF Planned
<1>2. PICK m \in Nat, p \in Nat : m = known[r] /\ p = prompt[r] /\ p > 0
  BY <1>1, TypesAre DEF IInv, Here
<1>3. /\ s \in Nat /\ lo \in Nat /\ hi \in Nat /\ lo <= hi /\ hi <= m
      /\ (m < p => End(s) = m /\ lo = m /\ hi = m)
      /\ (m >= p => r \in begun /\ lo >= p)
  BY <1>1, <1>2 DEF Ready
<1>4. end \in Nat /\ end <= MaxLen /\ end > m /\ e.n = end - m /\ (e.decode <=> m >= p)
      /\ (e.decode => end = m + 1 + Drafts)
  BY <1>1, <1>2, Sizes
<1>5. c \in Nat
  BY <1>1, <1>4, Columns
<1>6. e.decode \in BOOLEAN
  BY <1>1 DEF Entry
<1>7. PICK n \in Nat : n = e.n /\ n > 0 /\ n = end - m
  BY <1>4
<1>8. hi + n <= end
  BY <1>3, <1>4, <1>7
<1>9. e.decode => n = 1 + Drafts /\ lo > 0 /\ lo >= p /\ r \in begun
  BY <1>2, <1>3, <1>4, <1>7, Sizes
<1>10. ~e.decode => lo + n = end /\ hi = lo /\ End(s) = lo
  BY <1>2, <1>3, <1>4, <1>7
<1> QED
  BY <1>1, <1>2, <1>3, <1>4, <1>5, <1>6, <1>7, <1>8, <1>9, <1>10 DEF Reach

LEMMA NextEntry ==
    ASSUME IInv, NEW r, NEW end, NEW e, NEW s, NEW lo, NEW hi, NEW c, NEW mv, NEW F, NEW k,
           Planned(r, end, e, s, lo, hi, c, mv, F, k)
    PROVE  EntryOK(k)'
<1>1. /\ r \in Requests /\ e.req = r /\ Ready(r, s, lo, hi) /\ Placed(r, e, s, lo, c, mv, F)
      /\ nacc' = nacc
      /\ queue'[k] = e /\ Lo(k)' = lo /\ Hi(k)' = hi /\ Src(k)' = s
      /\ (Follows(k)' <=> Mine(r)) /\ (Exact(k)' <=> (Mine(r) => ~queue[1].decode))
      /\ (e.decode <=> known[r] >= prompt[r])
  BY DEF Planned, NextOK
<1>2. Reach(r, end, e, s, lo, hi, c)
  BY ReachIs
<1>a. PICK n \in Nat : n = e.n
  BY <1>2 DEF Reach
<1>b. PICK t : t = e.t
  OBVIOUS
<1>3. n = e.n /\ t = e.t
  BY <1>a, <1>b
<1>4. /\ lo \in Nat /\ hi \in Nat /\ s \in Nat /\ c \in Nat /\ end \in Nat /\ lo <= hi
      /\ hi + n <= end /\ end <= MaxLen /\ c = Column(end) /\ e.decode \in BOOLEAN
      /\ (e.decode => n = 1 + Drafts /\ lo > 0)
      /\ (~e.decode => lo + n = end /\ hi = lo /\ End(s) = lo)
  BY <1>2, <1>3 DEF Reach
<1>5. PICK z \in Nat : z = Len(t)
  BY <1>1, <1>3 DEF Placed
<1>6. /\ Distinct(t) /\ c + 1 <= z
      /\ (s > 0 => t[s] # Null)
      /\ (e.decode => Full(t, s) /\ s <= Column(lo + Drafts))
      /\ (~e.decode => /\ z = c + 1 /\ t[c] # Null /\ t[c + 1] # Null /\ s < c
                       /\ \A j \in s + 1 .. c - 1 : t[j] = Null)
  BY <1>1, <1>3, <1>5 DEF Placed
<1>7. PICK d \in Nat, g \in Nat : d = Column(lo + n) /\ g = Column(hi + n)
  BY <1>4, Columns
<1>8. hi + n <= MaxLen /\ g + 1 <= z
  <2>1. MaxLen \in Nat
    BY Sizes
  <2>2. g <= c
    BY <1>4, <1>7, ColumnGrows
  <2> QED
    BY <1>4, <1>6, <2>1, <2>2
<1>9. s <= d
  <2>1. CASE e.decode
    <3>1. lo + Drafts \in Nat /\ lo + n \in Nat /\ lo + Drafts <= lo + n
      BY <1>4, <2>1, Sizes
    <3>2. Column(lo + Drafts) <= d /\ Column(lo + Drafts) \in Nat
      BY <1>7, <3>1, ColumnGrows, Columns
    <3> QED
      BY <1>4, <1>6, <2>1, <3>2
  <2>2. CASE ~e.decode
    BY <1>4, <1>6, <1>7, <2>2
  <2> QED
    BY <1>4, <2>1, <2>2
<1>10. hi <= End(s)
  BY <1>1 DEF Ready
<1>11. ~e.decode => d = c /\ Exact(k)' /\ (~Mine(r) => nacc[r] = 1)
  <2> SUFFICES ASSUME ~e.decode PROVE d = c /\ Exact(k)' /\ (~Mine(r) => nacc[r] = 1)
    OBVIOUS
  <2>1. d = c
    BY <1>4, <1>7
  <2>2. known[r] < prompt[r]
    <3>1. known[r] \in Nat /\ prompt[r] \in Nat
      BY <1>1, TypesAre DEF IInv
    <3> QED
      BY <1>1, <3>1
  <2>3. (Mine(r) => ~queue[1].decode) /\ (~Mine(r) => nacc[r] = 1)
    BY <1>1, <2>2 DEF Ready
  <2> QED
    BY <1>1, <2>1, <2>3
<1>12. EntryOK(k)' <=>
         LET x == Column(Lo(k)' + queue'[k].n)
         IN  /\ Distinct(queue'[k].t)
             /\ Hi(k)' + queue'[k].n <= MaxLen /\ Hi(k)' <= End(Src(k)') /\ Src(k)' <= x
             /\ Column(Hi(k)' + queue'[k].n) + 1 <= Len(queue'[k].t)
             /\ Src(k)' > 0 => queue'[k].t[Src(k)'] # Null
             /\ queue'[k].decode => queue'[k].n = 1 + Drafts /\ Lo(k)' > 0 /\ Full(queue'[k].t, Src(k)')
             /\ ~queue'[k].decode =>
                  /\ Exact(k)' /\ End(Src(k)') = Lo(k)' /\ Len(queue'[k].t) = x + 1
                  /\ queue'[k].t[x] # Null /\ queue'[k].t[x + 1] # Null
                  /\ \A j \in Src(k)' + 1 .. x - 1 : queue'[k].t[j] = Null
                  /\ ~Follows(k)' => nacc'[queue'[k].req] = 1
  BY DEF EntryOK, Distinct, Full, End, Column
<1>13. /\ Distinct(t)
       /\ hi + n <= MaxLen /\ hi <= End(s) /\ s <= d /\ g + 1 <= z
       /\ s > 0 => t[s] # Null
       /\ e.decode => n = 1 + Drafts /\ lo > 0 /\ Full(t, s)
       /\ ~e.decode => /\ Exact(k)' /\ End(s) = lo /\ z = d + 1 /\ t[d] # Null /\ t[d + 1] # Null
                       /\ \A j \in s + 1 .. d - 1 : t[j] = Null
                       /\ ~Follows(k)' => nacc'[r] = 1
  BY <1>1, <1>4, <1>6, <1>8, <1>9, <1>10, <1>11
<1> QED
  BY <1>1, <1>3, <1>5, <1>7, <1>12, <1>13

LEMMA NextPair ==
    ASSUME IInv, NEW r, NEW end, NEW e, NEW s, NEW lo, NEW hi, NEW c, NEW mv, NEW F, NEW k,
           Planned(r, end, e, s, lo, hi, c, mv, F, k)
    PROVE  PairOK'
<1>1. /\ r \in Requests /\ e.req = r /\ Ready(r, s, lo, hi) /\ Placed(r, e, s, lo, c, mv, F)
      /\ prompt' = prompt /\ Len(queue) \in 0 .. 1
      /\ k \in 1 .. 2 /\ k = Len(queue) + 1 /\ Len(queue') = k /\ queue'[k] = e
      /\ \A i \in 1 .. Len(queue) : queue'[i] = queue[i]
      /\ (Follows(k)' <=> Mine(r)) /\ Src(k)' = s
  BY DEF Planned, NextOK
<1> SUFFICES ASSUME Len(queue') = 2 PROVE PairOK'
  BY DEF PairOK
<1>2. k = 2 /\ Len(queue) = 1 /\ queue'[1] = queue[1] /\ queue'[2] = e /\ 1 \in 1 .. Len(queue)
  <2>1. k = 2 /\ Len(queue) = 1
    BY <1>1
  <2> QED
    BY <1>1, <2>1
<1>3. CASE Mine(r)
  <2>1. PICK f : f = queue[1] /\ bt[r] = f.t
    BY <1>1, <1>3 DEF Ready
  <2>2. /\ \A j \in 1 .. s : e.t[j] \in {Null, f.t[j]}
        /\ (s > 0 => e.t[s] = f.t[s]) /\ (e.decode => e.t[s + 1] = f.t[s + 1])
    BY <1>1, <2>1 DEF Placed
  <2>3. s > 0
    <3>1. PICK m : m = computed[r]
      OBVIOUS
    <3>2. Here(r)
      BY DEF Planned
    <3>3. s = Column(m + f.n)
      BY <1>1, <1>3, <2>1, <3>1 DEF Ready
    <3>4. MineOK(f, r, m, s)
      BY <1>1, <1>3, <2>1, <3>1, <3>2, <3>3, MineIs
    <3> QED
      BY <3>4 DEF MineOK
  <2>4. Follows(2)' /\ Src(2)' = s
    BY <1>1, <1>2, <1>3
  <2>5. /\ \A j \in 1 .. Src(2)' : queue'[2].t[j] \in {Null, queue'[1].t[j]}
        /\ queue'[2].t[Src(2)'] = queue'[1].t[Src(2)']
        /\ queue'[2].decode => queue'[2].t[Src(2)' + 1] = queue'[1].t[Src(2)' + 1]
    BY <1>2, <2>1, <2>2, <2>3, <2>4
  <2> QED
    BY <2>4, <2>5 DEF PairOK
<1>4. CASE ~Mine(r)
  <2>1. ~Follows(2)'
    BY <1>1, <1>2, <1>4
  <2>2. PICK q, t : q = queue[1].req /\ t = queue[1].t
    OBVIOUS
  <2>3. q \in Requests \ {r}
    BY <1>2, <1>4, <2>2, QueueIs DEF IInv, Mine
  <2>4. ASSUME Here(q), NEW j \in 1 .. Len(t) PROVE t[j] \notin Writes(2)'
    <3>1. bt[q] = t
      <4>1. LastOK(q)
        BY <2>3, <2>4 DEF IInv, RequestOK, TableOK
      <4>2. \A h \in 1 + 1 .. Len(queue) : queue[h].req # q
        BY <1>2
      <4> QED
        BY <1>2, <2>2, <4>1, <4>2 DEF LastOK
    <3>2. bt[q][j] \notin Writes(k)'
      BY <2>3, <2>4, <3>1, Spared
    <3> QED
      BY <1>2, <3>1, <3>2
  <2>5. Here(queue[1].req)' => \A j \in 1 .. Len(queue'[1].t) : queue'[1].t[j] \notin Writes(2)'
    BY <1>1, <1>2, <2>2, <2>4 DEF Here
  <2>6. prompt'[queue'[1].req] > 0 => \A j \in 1 .. Len(queue'[1].t) : queue'[1].t[j] \notin Writes(2)'
    BY <1>1, <1>2, <2>2, <2>4 DEF Here
  <2> QED
    BY <2>1, <2>6 DEF PairOK, Here
<1> QED
  BY <1>3, <1>4

-----------------------------------------------------------------------------
(* A step is scheduled: what its request has after it.                     *)

\* The blocks up to what the request will surely have.
LEMMA NextOwn ==
    ASSUME IInv, NEW r, NEW end, NEW e, NEW s, NEW lo, NEW hi, NEW c, NEW mv, NEW F, NEW k,
           Planned(r, end, e, s, lo, hi, c, mv, F, k)
    PROVE  /\ \A j \in 1 .. Len(e.t) :
                e.t[j] # Null /\ End(j) <= Certain(r)' => Good(k, e.t[j], End(j))'
           /\ Certain(r)' \in Nat /\ lo <= Certain(r)'
           /\ (~e.decode => Certain(r)' = end)
           /\ (e.decode /\ ~Mine(r) => Certain(r)' = lo + 1)
<1>1. /\ r \in Requests /\ Here(r) /\ Ready(r, s, lo, hi) /\ Placed(r, e, s, lo, c, mv, F)
      /\ queue'[k] = e /\ Lo(k)' = lo /\ k \in 1 .. 2 /\ k = Len(queue) + 1
      /\ (Exact(k)' <=> (Mine(r) => ~queue[1].decode))
      /\ Certain(r)' = lo + (IF Exact(k)' THEN Least(e) ELSE 0)
      /\ (e.decode <=> known[r] >= prompt[r])
  BY DEF Planned, NextOK
<1>2. Reach(r, end, e, s, lo, hi, c)
  BY ReachIs
<1>3. PICK n \in Nat, x \in Nat : n = e.n /\ x = Least(e)
  BY <1>2 DEF Reach, Least
<1>b. PICK t, T : t = e.t /\ T = bt[r]
  OBVIOUS
<1>c. PICK l \in Nat, z \in Nat : l = Len(T) /\ z = Len(t)
  BY <1>1, <1>b DEF Placed
<1>a. t = e.t /\ T = bt[r] /\ l = Len(T) /\ z = Len(t)
  BY <1>b, <1>c
<1>4. /\ lo \in Nat /\ s \in Nat /\ c \in Nat /\ end \in Nat /\ c = Column(end) /\ e.decode \in BOOLEAN
      /\ (~e.decode => lo + n = end /\ hi = lo /\ End(s) = lo)
      /\ lo <= hi
  BY <1>2, <1>3 DEF Reach
<1>5. (e.decode => x = 1) /\ (~e.decode => x = n)
  BY <1>3 DEF Least
<1>6. ~e.decode => Exact(k)'
  <2> SUFFICES ASSUME ~e.decode PROVE Exact(k)'
    OBVIOUS
  <2>1. known[r] < prompt[r]
    <3>1. known[r] \in Nat /\ prompt[r] \in Nat
      BY <1>1, TypesAre DEF IInv
    <3> QED
      BY <1>1, <3>1
  <2>2. Mine(r) => ~queue[1].decode
    BY <1>1, <2>1 DEF Ready
  <2> QED
    BY <1>1, <2>2
<1>7. PICK nc \in Nat : /\ nc = Certain(r)' /\ (Exact(k)' => nc = lo + x) /\ (~Exact(k)' => nc = lo)
                        /\ lo <= nc
  <2>1. CASE Exact(k)'
    <3>1. Certain(r)' = lo + x
      BY <1>1, <1>3, <2>1
    <3>2. lo + x \in Nat /\ lo <= lo + x
      BY <1>4
    <3> QED
      BY <2>1, <3>1, <3>2
  <2>2. CASE ~Exact(k)'
    <3>1. Certain(r)' = lo
      BY <1>1, <1>4, <2>2
    <3>2. lo <= lo
      BY <1>4
    <3> QED
      BY <1>4, <2>2, <3>1, <3>2
  <2> QED
    BY <2>1, <2>2
<1>8. (~e.decode => nc = end) /\ (e.decode /\ ~Mine(r) => nc = lo + 1)
  BY <1>1, <1>4, <1>5, <1>6, <1>7
<1>9. ASSUME NEW j \in 1 .. z, t[j] # Null, End(j) <= nc PROVE Good(k, t[j], End(j))'
  <2>1. End(j) \in Nat
    BY <1>9, EndIs
  <2>2. CASE End(j) <= lo
    <3>1. j <= s
      <4>1. End(s) \in Nat /\ lo <= End(s)
        <5>1. lo <= hi /\ hi \in Nat /\ hi <= End(s) /\ End(s) \in Nat
          BY <1>1, <1>4, EndIs DEF Ready
        <5> QED
          BY <1>4, <5>1
      <4>2. End(j) <= End(s) /\ j \in Nat
        BY <1>4, <2>1, <2>2, <4>1
      <4>3. s \in Nat
        BY <1>4
      <4> QED
        BY <4>2, <4>3, Ends
    <3>2. t[j] = T[j] /\ s <= l
      <4>1. s <= Len(bt[r]) /\ \A i \in 1 .. s : e.t[i] \in {Null, bt[r][i]}
        BY <1>1 DEF Placed
      <4>2. j \in 1 .. s
        BY <1>4, <1>9, <3>1
      <4>3. e.t[j] \in {Null, bt[r][j]}
        BY <4>1, <4>2
      <4> QED
        BY <1>a, <1>9, <4>1, <4>3
    <3>3. j \in 1 .. l
      BY <1>4, <3>1, <3>2, <1>9
    <3>4. PICK b, p, h : b = t[j] /\ p = End(j) /\ h = Len(queue)
      OBVIOUS
    <3>5. Good(h, b, p)
      <4>1. OwnOK(r) /\ lo = Certain(r)
        BY <1>1 DEF IInv, RequestOK, Ready
      <4> QED
        BY <1>a, <1>9, <2>2, <3>2, <3>3, <3>4, <4>1 DEF OwnOK
    <3>6. h = k - 1
      <4>1. Len(queue) \in Nat
        BY QueueIs DEF IInv
      <4> QED
        BY <1>1, <3>4, <4>1
    <3>7. b \notin Writes(k)'
      BY <1>a, <1>9, <2>2, <3>4, Spared
    <3>8. Good(k, b, p)'
      BY <3>5, <3>6, <3>7, GoodNext
    <3> QED
      BY <3>4, <3>8 DEF Good, Makes, Least, End
  <2>3. CASE End(j) > lo
    <3>1. Exact(k)' /\ nc = lo + x
      BY <1>4, <1>7, <1>9, <2>1, <2>3
    <3>2. End(j) = lo + x
      <4>1. CASE e.decode
        BY <1>4, <1>5, <1>9, <2>1, <2>3, <3>1, <4>1
      <4>2. CASE ~e.decode
        <5>1. z = c + 1 /\ \A i \in s + 1 .. c - 1 : t[i] = Null
          BY <1>1, <1>a, <4>2 DEF Placed
        <5>2. End(s) = lo /\ lo + n = end /\ x = n
          BY <1>4, <1>5, <4>2
        <5>3. s < j
          <6>1. ~(End(j) <= End(s)) /\ j \in Nat
            BY <1>4, <1>9, <2>1, <2>3, <5>2
          <6>2. ~(j <= s)
            BY <1>4, <6>1, Ends
          <6> QED
            BY <1>4, <6>1, <6>2
        <5>4. j >= c
          <6>1. ~(j \in s + 1 .. c - 1)
            BY <1>9, <5>1
          <6> QED
            BY <1>4, <1>9, <5>3, <6>1
        <5>5. end <= End(c) /\ End(c) <= End(j) /\ End(c) \in Nat
          <6>1. end <= End(c)
            BY <1>4, Columns
          <6>2. j \in Nat /\ c <= j
            BY <1>9, <5>4
          <6> QED
            BY <1>4, <6>1, <6>2, Ends
        <5>6. End(j) <= end
          BY <1>8, <1>9, <4>2
        <5> QED
          BY <1>4, <2>1, <5>2, <5>5, <5>6
      <4> QED
        BY <1>4, <4>1, <4>2
    <3>3. Makes(k, t[j], End(j))'
      <4>1. PICK b, p : b = t[j] /\ p = End(j)
        OBVIOUS
      <4>2. Exact(k)' /\ p > lo /\ p = lo + x /\ \E i \in 1 .. z : t[i] = b /\ p = End(i)
        BY <1>9, <2>3, <3>1, <3>2, <4>1
      <4>3. Exact(k)' /\ p > Lo(k)' /\ p = Lo(k)' + Least(queue'[k])
            /\ \E i \in 1 .. Len(queue'[k].t) : queue'[k].t[i] = b /\ p = End(i)
        BY <1>1, <1>3, <1>a, <4>2
      <4>4. Makes(k, b, p)'
        BY <4>3 DEF Makes, Least, End
      <4> QED
        BY <4>1, <4>4 DEF Makes, Least, End
    <3>4. \A h \in k + 1 .. k : FALSE
      BY <1>1
    <3>5. k \in 1 .. k
      BY <1>1
    <3> QED
      BY <3>3, <3>4, <3>5 DEF Good
  <2> QED
    BY <1>4, <2>1, <2>2, <2>3
<1>10. \A j \in 1 .. Len(e.t) : e.t[j] # Null /\ End(j) <= Certain(r)' => Good(k, e.t[j], End(j))'
  BY <1>a, <1>7, <1>9 DEF Good, Makes, Least, End
<1> QED
  BY <1>7, <1>8, <1>10

-----------------------------------------------------------------------------
(* A step is scheduled: the states the requests start from.                *)

\* A request whose step is the first of the queue.
LEMMA FirstSource ==
    ASSUME Types, Frame, Len(queue) = 1, NEW k, k = Len(queue'), k \in 1 .. 2, queue'[1] = queue[1],
           NEW q \in Requests, queue[1].req = q, SourceOK(q)
    PROVE  SourceOK(q)'
<1>1. 1 \in 1 .. Len(queue)
  OBVIOUS
<1>2. PICK s, x, m, t : s = col[q] /\ x = nacc[q] /\ m = computed[q] /\ t = queue[1].t
  OBVIOUS
<1>3. s = col'[q] /\ x = nacc'[q] /\ m = computed'[q] /\ t = queue'[1].t /\ slot' = slot
  BY <1>1, <1>2 DEF Frame
<1>4. FirstOf(q) = 1 /\ Table(q) = t
  <2>1. FirstOf(q) = 1
    BY DEF FirstOf
  <2> QED
    BY <1>2, <2>1 DEF Table
<1>5. FirstOf(q)' = 1 /\ Table(q)' = t
  <2>1. FirstOf(q)' = 1
    BY DEF FirstOf
  <2>2. 1 <= Len(queue')
    OBVIOUS
  <2> QED
    BY <1>3, <2>1, <2>2 DEF Table
<1>6. SUFFICES ASSUME m > 0 PROVE SourceOK(q)'
  BY <1>3 DEF SourceOK
<1>7. /\ s \in 1 .. Len(t) /\ t[s] # Null /\ (x > 1 => s + 1 <= Len(t))
      /\ \/ Replayed(slot, t[s], t[s + 1], x - 1) = m
         \/ x = 1 /\ End(s) = m /\ Good(0, t[s], m)
  BY <1>2, <1>4, <1>6 DEF SourceOK
<1>8. (FirstOf(q) - 1)' = 0
  BY <1>5
<1>9. \A i \in 1 .. 0 : FALSE
  OBVIOUS
<1>10. CASE Replayed(slot, t[s], t[s + 1], x - 1) = m
  <2>1. Replayed(slot', t[s], t[s + 1], x - 1) = m
    BY <1>3, <1>10
  <2>2. (Replayed(slot, Table(q)[col[q]], Table(q)[col[q] + 1], nacc[q] - 1) = computed[q])'
    <3>1. /\ Table(q)'[col'[q]] = t[s] /\ Table(q)'[col'[q] + 1] = t[s + 1]
          /\ nacc'[q] - 1 = x - 1 /\ computed'[q] = m
      BY <1>3, <1>5
    <3>2. PICK b, d, y : b = t[s] /\ d = t[s + 1] /\ y = x - 1
      OBVIOUS
    <3>3. Replayed(slot', b, d, y) = m
      BY <2>1, <3>2
    <3>4. /\ b = Table(q)'[col'[q]] /\ d = Table(q)'[col'[q] + 1] /\ y = nacc'[q] - 1
          /\ m = computed'[q]
      BY <3>1, <3>2
    <3> QED
      BY <3>3, <3>4 DEF Replayed, Base
  <2>3. (\A i \in 1 .. FirstOf(q) - 1 :
            Table(q)[col[q]] \notin Writes(i)
            /\ (nacc[q] > 1 => Table(q)[col[q] + 1] \notin Writes(i)))'
    BY <1>8, <1>9
  <2>4. (/\ col[q] \in 1 .. Len(Table(q)) /\ Table(q)[col[q]] # Null
         /\ (nacc[q] > 1 => col[q] + 1 <= Len(Table(q))))'
    BY <1>3, <1>5, <1>7
  <2> QED
    BY <2>2, <2>3, <2>4, Zenon DEF SourceOK
<1>11. CASE x = 1 /\ End(s) = m /\ Good(0, t[s], m)
  <2>1. 0 \in 0 .. Len(queue)
    OBVIOUS
  <2>2. Good(0, t[s], m)'
    BY <1>11, <2>1, GoodKept
  <2> QED
    BY <1>3, <1>5, <1>7, <1>8, <1>11, <2>2 DEF SourceOK, Good, Makes, Least, End
<1> QED
  BY <1>7, <1>10, <1>11

\* What a request without steps in the queue starts from, when l steps have run.
Later(l, s, x, m, t) ==
    /\ s \in 1 .. Len(t) /\ t[s] # Null /\ (x > 1 => s + 1 <= Len(t))
    /\ \/ /\ Replayed(slot, t[s], t[s + 1], x - 1) = m
          /\ \A i \in 1 .. l : t[s] \notin Writes(i) /\ (x > 1 => t[s + 1] \notin Writes(i))
       \/ x = 1 /\ End(s) = m /\ Good(l, t[s], m)

LEMMA LaterSource ==
    ASSUME Types, NEW q \in Requests, NEW l \in 0 .. 1, l = Len(queue), ~Queued(q), SourceOK(q),
           NEW s, NEW x, NEW m, s = col[q], x = nacc[q], m = computed[q],
           NEW t, t = bt[q], m > 0
    PROVE  Later(l, s, x, m, t)
<1>1. \A i \in 1 .. l : queue[i].req # q
  BY DEF Queued
<1>2. FirstOf(q) = l + 1
  BY <1>1 DEF FirstOf
<1>3. Table(q) = t
  <2>1. ~(l + 1 <= l)
    OBVIOUS
  <2> QED
    BY <1>2, <2>1 DEF Table
<1>4. FirstOf(q) - 1 = l
  BY <1>2
<1> QED
  BY <1>3, <1>4 DEF SourceOK, Later

\* The request of the new step, which has none before it.
LEMMA OwnSource ==
    ASSUME IInv, NEW r, NEW end, NEW e, NEW s, NEW lo, NEW hi, NEW c, NEW mv, NEW F, NEW k,
           Planned(r, end, e, s, lo, hi, c, mv, F, k), ~Mine(r)
    PROVE  SourceOK(r)'
<1>1. /\ r \in Requests /\ Here(r) /\ Ready(r, s, lo, hi) /\ Placed(r, e, s, lo, c, mv, F) /\ Frame
      /\ k \in 1 .. 2 /\ k = Len(queue) + 1 /\ Len(queue) \in 0 .. 1 /\ Len(queue') = k
      /\ queue'[k] = e /\ \A i \in 1 .. Len(queue) : queue'[i] = queue[i]
      /\ e.req = r /\ (e.decode <=> known[r] >= prompt[r])
      /\ slot' = slot /\ computed' = computed /\ nacc' = nacc /\ col' = col
  BY DEF Planned, NextOK
<1>2. PICK l \in 0 .. 1 : l = Len(queue) /\ k = l + 1
  BY <1>1
<1>3. ~Queued(r) /\ Types /\ SourceOK(r)
  BY <1>1, IdleIs DEF IInv, RequestOK
<1>4. PICK x, m, t, T : x = nacc[r] /\ m = computed[r] /\ t = e.t /\ T = bt[r]
  OBVIOUS
<1>5. s = col[r]
  BY <1>1 DEF Ready
<1>6. FirstOf(r)' = k /\ Table(r)' = t /\ (FirstOf(r) - 1)' = l
  <2>1. FirstOf(r)' = k
    <3>1. \A i \in 1 .. l : queue[i].req # r
      BY <1>2, <1>3 DEF Queued
    <3>2. CASE l = 0
      BY <1>1, <1>2, <3>2 DEF FirstOf
    <3>3. CASE l = 1
      <4>1. queue'[1].req # r
        BY <1>1, <1>2, <3>1, <3>3
      <4> QED
        BY <1>1, <1>2, <3>3, <4>1 DEF FirstOf
    <3> QED
      BY <3>2, <3>3
  <2>2. k <= Len(queue')
    BY <1>1
  <2>3. Table(r)' = queue'[k].t
    BY <2>1, <2>2 DEF Table
  <2> QED
    BY <1>1, <1>2, <1>4, <2>1, <2>3
<1>7. SUFFICES ASSUME m > 0 PROVE SourceOK(r)'
  BY <1>1, <1>4 DEF SourceOK
<1>8. /\ s \in 1 .. Len(T) /\ T[s] # Null /\ (x > 1 => s + 1 <= Len(T))
      /\ \/ /\ Replayed(slot, T[s], T[s + 1], x - 1) = m
            /\ \A i \in 1 .. l : T[s] \notin Writes(i) /\ (x > 1 => T[s + 1] \notin Writes(i))
         \/ x = 1 /\ End(s) = m /\ Good(l, T[s], m)
  <2>1. Later(l, s, x, m, T)
    BY <1>1, <1>2, <1>3, <1>4, <1>5, <1>7, LaterSource
  <2> QED
    BY <2>1 DEF Later
<1>9. /\ t[s] = T[s] /\ (e.decode => t[s + 1] = T[s + 1])
      /\ Len(T) \in Nat /\ Len(t) \in Nat /\ Len(T) <= Len(t)
  BY <1>1, <1>4, <1>8 DEF Placed
<1>10. x \in Nat /\ x >= 1 /\ (x > 1 => e.decode)
  <2>1. x \in Nat /\ x >= 1 /\ known[r] \in Nat /\ prompt[r] \in Nat
    BY <1>1, <1>3, <1>4, TypesAre
  <2>2. known[r] < prompt[r] => x = 1
    BY <1>1, <1>4 DEF Ready
  <2>3. x > 1 => known[r] >= prompt[r]
    BY <2>1, <2>2
  <2> QED
    BY <1>1, <2>1, <2>3
<1>11. s \in 1 .. Len(t) /\ t[s] # Null /\ (x > 1 => s + 1 <= Len(t))
  BY <1>8, <1>9
<1>12. CASE /\ Replayed(slot, T[s], T[s + 1], x - 1) = m
            /\ \A i \in 1 .. l : T[s] \notin Writes(i) /\ (x > 1 => T[s + 1] \notin Writes(i))
  <2>1. Replayed(slot, t[s], t[s + 1], x - 1) = m
    <3>1. CASE x = 1
      <4>1. x - 1 = 0
        BY <3>1
      <4> QED
        BY <1>9, <1>12, <4>1 DEF Replayed
    <3>2. CASE x > 1
      BY <1>9, <1>10, <1>12, <3>2
    <3> QED
      BY <1>10, <3>1, <3>2
  <2>2. \A i \in 1 .. l : t[s] \notin Writes(i)' /\ (x > 1 => t[s + 1] \notin Writes(i)')
    <3> SUFFICES ASSUME NEW i \in 1 .. l
                 PROVE  t[s] \notin Writes(i)' /\ (x > 1 => t[s + 1] \notin Writes(i)')
      OBVIOUS
    <3>1. i \in 1 .. Len(queue)
      BY <1>2
    <3>2. Writes(i)' = Writes(i)
      BY <1>1, <1>3, <3>1, StepsKept DEF Kept
    <3>3. T[s] \notin Writes(i) /\ (x > 1 => T[s + 1] \notin Writes(i))
      BY <1>12
    <3> QED
      BY <1>9, <1>10, <3>2, <3>3
  <2>3. Replayed(slot', t[s], t[s + 1], x - 1) = m
    BY <1>1, <2>1
  <2>4. s = col'[r] /\ x = nacc'[r] /\ m = computed'[r]
    BY <1>1, <1>4, <1>5
  <2> QED
    BY <1>6, <1>11, <2>2, <2>3, <2>4 DEF SourceOK, Replayed, Base
<1>13. CASE x = 1 /\ End(s) = m /\ Good(l, T[s], m)
  <2>1. Good(l, t[s], m)'
    <3>1. PICK b : b = t[s] /\ b = T[s]
      BY <1>9
    <3>2. l \in 0 .. Len(queue) /\ Good(l, b, m)
      BY <1>2, <1>13, <3>1
    <3>3. Good(l, b, m)'
      BY <1>1, <1>3, <3>2, GoodKept
    <3> QED
      BY <3>1, <3>3 DEF Good, Makes, Least, End
  <2>2. s = col'[r] /\ x = nacc'[r] /\ m = computed'[r]
    BY <1>1, <1>4, <1>5
  <2> QED
    BY <1>6, <1>11, <1>13, <2>1, <2>2 DEF SourceOK, Good, Makes, Least, End
<1> QED
  BY <1>8, <1>12, <1>13

\* Another request without steps in the queue.
LEMMA OtherSource ==
    ASSUME IInv, NEW r, NEW end, NEW e, NEW s, NEW lo, NEW hi, NEW c, NEW mv, NEW F, NEW k,
           Planned(r, end, e, s, lo, hi, c, mv, F, k),
           NEW q \in Requests \ {r}, Here(q), ~Queued(q)
    PROVE  SourceOK(q)'
<1>1. /\ Frame /\ Untouched(q) /\ ~Queued(q)'
      /\ k \in 1 .. 2 /\ k = Len(queue) + 1 /\ Len(queue) \in 0 .. 1 /\ Len(queue') = k
      /\ slot' = slot
  BY DEF Planned, NextOK
<1>2. PICK l \in 0 .. 1 : l = Len(queue) /\ k = l + 1 /\ l = k - 1
  BY <1>1
<1>3. Types /\ SourceOK(q) /\ q \in Requests
  BY DEF IInv, RequestOK
<1>4. PICK z, x, m, T : z = col[q] /\ x = nacc[q] /\ m = computed[q] /\ T = bt[q]
  OBVIOUS
<1>5. z = col'[q] /\ x = nacc'[q] /\ m = computed'[q] /\ T = bt'[q]
  BY <1>1, <1>4 DEF Untouched
<1>6. FirstOf(q)' = k + 1 /\ Table(q)' = T /\ (FirstOf(q) - 1)' = k
  <2>1. \A i \in 1 .. Len(queue') : queue'[i].req # q
    BY <1>1 DEF Queued
  <2>2. FirstOf(q)' = k + 1
    BY <1>1, <2>1 DEF FirstOf
  <2>3. ~(k + 1 <= Len(queue'))
    BY <1>1
  <2>4. Table(q)' = bt'[q]
    BY <2>2, <2>3 DEF Table
  <2> QED
    BY <1>1, <1>5, <2>2, <2>4
<1>7. SUFFICES ASSUME m > 0 PROVE SourceOK(q)'
  BY <1>5 DEF SourceOK
<1>8. /\ z \in 1 .. Len(T) /\ T[z] # Null /\ (x > 1 => z + 1 <= Len(T))
      /\ \/ /\ Replayed(slot, T[z], T[z + 1], x - 1) = m
            /\ \A i \in 1 .. l : T[z] \notin Writes(i) /\ (x > 1 => T[z + 1] \notin Writes(i))
         \/ x = 1 /\ End(z) = m /\ Good(l, T[z], m)
  <2>1. q \in Requests /\ l \in 0 .. 1 /\ l = Len(queue) /\ ~Queued(q) /\ SourceOK(q) /\ Types
    BY <1>2, <1>3
  <2>2. z = col[q] /\ x = nacc[q] /\ m = computed[q] /\ T = bt[q] /\ m > 0
    BY <1>4, <1>7
  <2>3. Later(l, z, x, m, T)
    BY <2>1, <2>2, LaterSource
  <2> QED
    BY <2>3 DEF Later
<1>9. \A i \in 1 .. Len(T) : T[i] \notin Writes(k)'
  BY <1>4, Spared
<1>10. x > 1 => z + 1 \in 1 .. Len(T)
  <2>1. Len(T) \in Nat
    BY <1>3, <1>4, TypesAre
  <2> QED
    BY <1>8, <2>1
<1>11. CASE /\ Replayed(slot, T[z], T[z + 1], x - 1) = m
            /\ \A i \in 1 .. l : T[z] \notin Writes(i) /\ (x > 1 => T[z + 1] \notin Writes(i))
  <2>1. \A i \in 1 .. k : T[z] \notin Writes(i)' /\ (x > 1 => T[z + 1] \notin Writes(i)')
    <3> SUFFICES ASSUME NEW i \in 1 .. k
                 PROVE  T[z] \notin Writes(i)' /\ (x > 1 => T[z + 1] \notin Writes(i)')
      OBVIOUS
    <3>1. CASE i = k
      BY <1>8, <1>9, <1>10, <3>1
    <3>2. CASE i # k
      <4>1. i \in 1 .. Len(queue) /\ i \in 1 .. l
        BY <1>2, <3>2
      <4>2. Writes(i)' = Writes(i)
        BY <1>1, <1>3, <4>1, StepsKept DEF Kept
      <4> QED
        BY <1>11, <4>1, <4>2
    <3> QED
      BY <3>1, <3>2
  <2>2. Replayed(slot', T[z], T[z + 1], x - 1) = m
    BY <1>1, <1>11
  <2> QED
    BY <1>5, <1>6, <1>8, <2>1, <2>2 DEF SourceOK, Replayed, Base
<1>12. CASE x = 1 /\ End(z) = m /\ Good(l, T[z], m)
  <2>1. PICK b : b = T[z]
    OBVIOUS
  <2>2. Good(k - 1, b, m) /\ b \notin Writes(k)'
    BY <1>2, <1>8, <1>9, <1>12, <2>1
  <2>3. Good(k, b, m)'
    BY <2>2, GoodNext
  <2>4. Good(k, T[z], m)'
    BY <2>1, <2>3 DEF Good, Makes, Least, End
  <2> QED
    BY <1>5, <1>6, <1>8, <1>12, <2>4 DEF SourceOK, Good, Makes, Least, End
<1> QED
  BY <1>8, <1>11, <1>12

LEMMA NextSource ==
    ASSUME IInv, NEW r, NEW end, NEW e, NEW s, NEW lo, NEW hi, NEW c, NEW mv, NEW F, NEW k,
           Planned(r, end, e, s, lo, hi, c, mv, F, k),
           NEW q \in Requests, Here(q)' \/ Queued(q)'
    PROVE  SourceOK(q)'
<1>1. /\ r \in Requests /\ Here(r) /\ prompt' = prompt
      /\ Frame /\ k \in 1 .. 2 /\ k = Len(queue) + 1 /\ Len(queue) \in 0 .. 1 /\ Len(queue') = k
      /\ \A i \in 1 .. Len(queue) : queue'[i] = queue[i]
      /\ \A o \in Requests \ {r} : Queued(o)' <=> Queued(o)
  BY DEF Planned, NextOK
<1>2. Types
  BY DEF IInv
<1>3. Here(q)' <=> Here(q)
  BY <1>1 DEF Here
<1>4. CASE Len(queue) = 1 /\ queue[1].req = q
  <2>1. SourceOK(q)
    <3>1. 1 \in 1 .. Len(queue)
      BY <1>4
    <3>2. Queued(q)
      BY <1>4, <3>1 DEF Queued
    <3> QED
      BY <3>2 DEF IInv, RequestOK
  <2>2. 1 \in 1 .. Len(queue)
    BY <1>4
  <2>3. queue'[1] = queue[1]
    BY <1>1, <2>2
  <2> QED
    BY <1>1, <1>2, <1>4, <2>1, <2>3, FirstSource
<1>5. CASE ~(Len(queue) = 1 /\ queue[1].req = q)
  <2>1. ~Mine(q)
    BY <1>5 DEF Mine
  <2>2. ~Queued(q)
    BY <1>1, <2>1, IdleIs
  <2>3. CASE q = r
    BY <2>1, <2>3, OwnSource
  <2>4. CASE q # r
    <3>1. q \in Requests \ {r} /\ Here(q)
      BY <1>1, <1>3, <2>2, <2>4
    <3> QED
      BY <2>2, <3>1, OtherSource
  <2> QED
    BY <2>3, <2>4
<1> QED
  BY <1>4, <1>5

-----------------------------------------------------------------------------
(* A step is scheduled: the block tables and the counts.                   *)

LEMMA NextTotals ==
    ASSUME IInv, NEW r, NEW end, NEW e, NEW s, NEW lo, NEW hi, NEW c, NEW mv, NEW F, NEW k,
           Planned(r, end, e, s, lo, hi, c, mv, F, k), NEW q \in Requests, Here(q)
    PROVE  TotalsOK(q)'
<1>1. /\ r \in Requests /\ known'[r] = end /\ flight'[r] = flight[r] + e.n /\ e.n = end - known[r]
      /\ QueuedTokens(r)' = QueuedTokens(r) + e.n /\ done' = done /\ computed' = computed
      /\ end \in 1 .. MaxLen
      /\ \A o \in Requests \ {r} : Untouched(o) /\ QueuedTokens(o)' = QueuedTokens(o)
  BY DEF Planned, NextOK
<1>2. TotalsOK(q)
  BY DEF IInv, RequestOK, TableOK
<1>3. PICK a, b, d : a = QueuedTokens(q) /\ b = DoneTokens(q) /\ d = DoneAccepted(q)
  OBVIOUS
<1>4. a \in Nat /\ b \in Nat /\ d \in Nat
  BY <1>3, SumsAre DEF IInv
<1>5. PICK x \in Nat, y \in Nat, m \in Nat : x = known[q] /\ y = flight[q] /\ m = computed[q]
  BY TypesAre DEF IInv
<1>6. b = DoneTokens(q)' /\ d = DoneAccepted(q)'
  BY <1>1, <1>3 DEF DoneTokens, DoneAccepted
<1>7. x = m + a + b - d /\ y = a + b /\ x - y >= 0
  BY <1>2, <1>3, <1>5 DEF TotalsOK, Committed
<1>8. CASE q = r
  <2>1. PICK n \in Int : n = e.n /\ end = x + n
    <3>1. end - x \in Int /\ end = x + (end - x)
      BY <1>1, <1>5
    <3> QED
      BY <1>1, <1>5, <1>8, <3>1
  <2>2. known'[q] = x + n /\ flight'[q] = y + n /\ QueuedTokens(q)' = a + n /\ computed'[q] = m
    BY <1>1, <1>3, <1>5, <1>8, <2>1
  <2>3. x + n = m + (a + n) + b - d /\ y + n = (a + n) + b /\ (x + n) - (y + n) >= 0
    BY <1>4, <1>5, <1>7, <2>1
  <2> QED
    BY <1>6, <2>2, <2>3 DEF TotalsOK, Committed
<1>9. CASE q # r
  <2>1. known'[q] = x /\ flight'[q] = y /\ QueuedTokens(q)' = a /\ computed'[q] = m
    BY <1>1, <1>3, <1>5, <1>9 DEF Untouched
  <2> QED
    BY <1>6, <1>7, <2>1 DEF TotalsOK, Committed
<1> QED
  BY <1>8, <1>9

LEMMA NextTable ==
    ASSUME IInv, NEW r, NEW end, NEW e, NEW s, NEW lo, NEW hi, NEW c, NEW mv, NEW F, NEW k,
           Planned(r, end, e, s, lo, hi, c, mv, F, k)
    PROVE  TableOK(r)'
<1>1. /\ r \in Requests /\ Here(r) /\ bt'[r] = e.t /\ known'[r] = end /\ begun' = begun \cup {r}
      /\ Ready(r, s, lo, hi) /\ Placed(r, e, s, lo, c, mv, F)
      /\ done' = done /\ prompt' = prompt /\ Queued(r)' /\ end \in 1 .. MaxLen /\ end > known[r]
      /\ k \in 1 .. 2 /\ k = Len(queue) + 1 /\ Len(queue') = k /\ queue'[k] = e /\ e.req = r
      /\ \A i \in 1 .. Len(queue) : queue'[i] = queue[i]
      /\ (e.decode <=> known[r] >= prompt[r])
      /\ (~e.decode => end = prompt[r] \/ (end < prompt[r] /\ end % BlockSize = 0))
      /\ c = Column(end)
  BY DEF Planned, NextOK
<1>2. TotalsOK(r)'
  BY <1>1, NextTotals
<1>3. Distinct(bt[r])'
  <2>1. Distinct(e.t)
    BY <1>1 DEF Placed
  <2> QED
    BY <1>1, <2>1 DEF Distinct
<1>a. PICK l \in Nat : l = Len(queue) /\ k = l + 1
  BY <1>1, QueueIs DEF IInv
<1>4. LastOK(r)'
  <2> SUFFICES ASSUME NEW i \in 1 .. Len(queue'), queue'[i].req = r,
                      \A h \in i + 1 .. Len(queue') : queue'[h].req # r
               PROVE  bt'[r] = queue'[i].t
    BY DEF LastOK
  <2>1. i = k \/ k \in i + 1 .. Len(queue')
    BY <1>1, <1>a
  <2>2. i = k
    BY <1>1, <2>1
  <2> QED
    BY <1>1, <2>2
<1>5. IdleOK(r)' /\ FreshOK(r)'
  BY <1>1 DEF IdleOK, FreshOK
<1>6. PICK m \in Nat, p \in Nat : m = known[r] /\ p = prompt[r] /\ end > m
  BY <1>1, TypesAre DEF IInv
<1>7. (e.decode <=> m >= p) /\ end \in Nat
  BY <1>1, <1>6
<1>8. Len(e.t) >= c + 1 /\ (~e.decode => Len(e.t) = c + 1) /\ c \in Nat
  <2>1. Len(e.t) \in Nat /\ c \in Nat /\ c + 1 <= Len(e.t) /\ (~e.decode => Len(e.t) = c + 1)
    BY <1>1 DEF Placed
  <2> QED
    BY <2>1
<1>9. PromptOK(r)'
  <2> SUFFICES ASSUME end < p PROVE PromptOK(r)'
    BY <1>1, <1>6 DEF PromptOK
  <2>1. ~e.decode /\ m < p /\ end # p
    BY <1>6, <1>7
  <2>2. end % BlockSize = 0
    BY <1>1, <1>6, <2>1
  <2>3. end = End(c)
    BY <1>1, <1>7, <2>2, Boundary
  <2>4. /\ \A i \in 1 .. Len(queue) : queue[i].req = r => ~queue[i].decode
        /\ \A i \in 1 .. Len(done) : done[i].req = r => done[i].accepted = done[i].n
    <3>1. PromptOK(r)
      BY <1>1 DEF IInv, RequestOK, TableOK
    <3> QED
      BY <1>6, <2>1, <3>1 DEF PromptOK
  <2>5. ASSUME NEW i \in 1 .. Len(queue'), queue'[i].req = r PROVE ~queue'[i].decode
    <3>1. i = k \/ i \in 1 .. Len(queue)
      BY <1>1, <1>a
    <3>2. CASE i = k
      BY <1>1, <2>1, <3>2
    <3>3. CASE i \in 1 .. Len(queue)
      BY <1>1, <2>4, <2>5, <3>3
    <3> QED
      BY <3>1, <3>2, <3>3
  <2>6. \A i \in 1 .. Len(done') : done'[i].req = r => done'[i].accepted = done'[i].n
    BY <1>1, <2>4
  <2>7. Len(bt'[r]) = Column(known'[r]) + 1 /\ known'[r] = End(Column(known'[r]))
    BY <1>1, <1>8, <2>1, <2>3
  <2> QED
    BY <1>1, <2>5, <2>6, <2>7 DEF PromptOK, End, Column
<1>10. GrownOK(r)'
  <2> SUFFICES ASSUME end >= p PROVE GrownOK(r)'
    BY <1>1, <1>6 DEF GrownOK
  <2>1. PICK nc \in Nat : nc = Certain(r)' /\ lo <= nc /\ (~e.decode => nc = end)
    BY NextOwn
  <2>2. nc >= p
    <3>1. CASE ~e.decode
      BY <2>1, <3>1
    <3>2. CASE e.decode
      <4>1. lo \in Nat /\ lo >= p
        BY <1>1, <1>6, <3>2 DEF Ready
      <4> QED
        BY <1>6, <2>1, <4>1
    <3> QED
      BY <3>1, <3>2
  <2> QED
    BY <1>1, <1>6, <1>8, <2>1, <2>2 DEF GrownOK, Column
<1> QED
  BY <1>2, <1>3, <1>4, <1>5, <1>9, <1>10 DEF TableOK

LEMMA OtherTable ==
    ASSUME IInv, NEW r, NEW end, NEW e, NEW s, NEW lo, NEW hi, NEW c, NEW mv, NEW F, NEW k,
           Planned(r, end, e, s, lo, hi, c, mv, F, k),
           NEW q \in Requests \ {r}, Here(q)
    PROVE  TableOK(q)'
<1>1. /\ k \in 1 .. 2 /\ k = Len(queue) + 1 /\ Len(queue') = k /\ queue'[k] = e /\ e.req = r
      /\ \A i \in 1 .. Len(queue) : queue'[i] = queue[i]
      /\ done' = done /\ Untouched(q) /\ Certain(q)' = Certain(q) /\ (Queued(q)' <=> Queued(q))
  BY DEF Planned, NextOK
<1>2. /\ bt'[q] = bt[q] /\ computed'[q] = computed[q] /\ nacc'[q] = nacc[q] /\ col'[q] = col[q]
      /\ known'[q] = known[q] /\ prompt'[q] = prompt[q] /\ (q \in begun' <=> q \in begun)
  BY <1>1 DEF Untouched
<1>3. Distinct(bt[q]) /\ LastOK(q) /\ IdleOK(q) /\ FreshOK(q) /\ PromptOK(q) /\ GrownOK(q)
  BY DEF IInv, RequestOK, TableOK
<1>4. PICK l \in Nat : l = Len(queue) /\ k = l + 1
  BY <1>1, QueueIs DEF IInv
<1>5. ASSUME NEW i \in 1 .. Len(queue'), queue'[i].req = q
      PROVE  i \in 1 .. Len(queue) /\ queue'[i] = queue[i]
  <2>1. i = k \/ i \in 1 .. Len(queue)
    BY <1>1, <1>4
  <2>2. i # k
    BY <1>1, <1>5
  <2> QED
    BY <1>1, <2>1, <2>2
<1>6. TotalsOK(q)'
  BY NextTotals
<1>7. Distinct(bt[q])'
  BY <1>2, <1>3 DEF Distinct
<1>8. LastOK(q)'
  <2> SUFFICES ASSUME NEW i \in 1 .. Len(queue'), queue'[i].req = q,
                      \A h \in i + 1 .. Len(queue') : queue'[h].req # q
               PROVE  bt'[q] = queue'[i].t
    BY DEF LastOK
  <2>1. i \in 1 .. Len(queue) /\ queue'[i] = queue[i]
    BY <1>5
  <2>2. ASSUME NEW h \in i + 1 .. Len(queue) PROVE queue[h].req # q
    <3>1. h \in 1 .. Len(queue) /\ h \in i + 1 .. Len(queue')
      BY <1>1, <1>4
    <3>2. queue'[h] = queue[h]
      BY <1>1, <3>1
    <3> QED
      BY <3>1, <3>2
  <2>3. bt[q] = queue[i].t
    BY <1>3, <2>1, <2>2 DEF LastOK
  <2> QED
    BY <1>2, <2>1, <2>3
<1>9. IdleOK(q)'
  BY <1>1, <1>2, <1>3 DEF IdleOK, End, Column, Full
<1>10. FreshOK(q)'
  BY <1>1, <1>2, <1>3 DEF FreshOK
<1>11. PromptOK(q)'
  <2>1. \A i \in 1 .. Len(queue) : known[q] < prompt[q] /\ queue[i].req = q => ~queue[i].decode
    BY <1>3 DEF PromptOK
  <2>2. \A i \in 1 .. Len(queue') : known[q] < prompt[q] /\ queue'[i].req = q => ~queue'[i].decode
    BY <1>5, <2>1
  <2> QED
    BY <1>1, <1>2, <1>3, <2>2 DEF PromptOK, End, Column
<1>12. GrownOK(q)'
  BY <1>1, <1>2, <1>3 DEF GrownOK, Column
<1> QED
  BY <1>6, <1>7, <1>8, <1>9, <1>10, <1>11, <1>12 DEF TableOK

-----------------------------------------------------------------------------
(* A step is scheduled: shared blocks and good blocks.                     *)

LEMMA NextShared ==
    ASSUME IInv, NEW r, NEW end, NEW e, NEW s, NEW lo, NEW hi, NEW c, NEW mv, NEW F, NEW k,
           Planned(r, end, e, s, lo, hi, c, mv, F, k), NEW q \in Requests, Here(q)
    PROVE  SharedOK(q)'
<1>1. /\ r \in Requests /\ Here(r) /\ bt'[r] = e.t /\ prompt' = prompt
      /\ \A o \in Requests \ {r} : bt'[o] = bt[o] /\ Certain(o)' = Certain(o)
  BY DEF Planned, NextOK, Untouched
<1>2. PICK nc \in Nat : nc = Certain(r)' /\ lo <= nc /\ lo \in Nat
  <2>1. Certain(r)' \in Nat /\ lo <= Certain(r)'
    BY NextOwn
  <2>2. lo \in Nat
    BY DEF Planned, Placed
  <2> QED
    BY <2>1, <2>2
<1>3. SUFFICES ASSUME NEW o \in Requests \ {q}, Here(o)',
                      NEW j \in 1 .. Len(bt'[q]), NEW i \in 1 .. Len(bt'[o]),
                      bt'[q][j] # Null, bt'[q][j] = bt'[o][i]
               PROVE  i = j /\ End(j) <= Certain(q)'
  BY DEF SharedOK, Here, End
<1>4. Here(o)
  BY <1>1, <1>3 DEF Here
<1>5. CASE q = r
  <2>1. o \in Requests \ {r} /\ i \in 1 .. Len(bt[o]) /\ j \in 1 .. Len(e.t)
        /\ e.t[j] # Null /\ bt[o][i] = e.t[j]
    BY <1>1, <1>3, <1>5
  <2>2. i = j /\ End(j) <= lo
    BY <1>4, <2>1, Apart
  <2>3. End(j) \in Nat
    BY <2>1, EndIs
  <2> QED
    BY <1>2, <1>5, <2>2, <2>3
<1>6. CASE q # r /\ o = r
  <2>1. q \in Requests \ {r} /\ j \in 1 .. Len(bt[q]) /\ i \in 1 .. Len(e.t)
        /\ e.t[i] # Null /\ bt[q][j] = e.t[i]
    BY <1>1, <1>3, <1>6
  <2>2. j = i /\ End(i) <= Certain(q)
    BY <2>1, Apart
  <2> QED
    BY <1>1, <2>1, <2>2
<1>7. CASE q # r /\ o # r
  <2>1. bt'[q] = bt[q] /\ bt'[o] = bt[o] /\ Certain(q)' = Certain(q)
    BY <1>1, <1>3, <1>7
  <2>2. SharedOK(q)
    BY DEF IInv, RequestOK
  <2>3. i = j /\ End(j) <= Certain(q)
    BY <1>3, <1>4, <2>1, <2>2 DEF SharedOK
  <2> QED
    BY <2>1, <2>3
<1> QED
  BY <1>5, <1>6, <1>7

LEMMA NextOwns ==
    ASSUME IInv, NEW r, NEW end, NEW e, NEW s, NEW lo, NEW hi, NEW c, NEW mv, NEW F, NEW k,
           Planned(r, end, e, s, lo, hi, c, mv, F, k), NEW q \in Requests, Here(q)
    PROVE  OwnOK(q)'
<1>1. /\ r \in Requests /\ bt'[r] = e.t /\ k \in 1 .. 2 /\ k = Len(queue) + 1 /\ Len(queue') = k
      /\ \A o \in Requests \ {r} : bt'[o] = bt[o] /\ Certain(o)' = Certain(o)
  BY DEF Planned, NextOK, Untouched
<1>2. CASE q = r
  <2>1. PICK t, n : t = e.t /\ n = Certain(r)'
    OBVIOUS
  <2>2. ASSUME NEW j \in 1 .. Len(t), t[j] # Null, End(j) <= n PROVE Good(k, t[j], End(j))'
    <3>1. j \in 1 .. Len(e.t) /\ e.t[j] # Null /\ End(j) <= Certain(r)'
      BY <2>1, <2>2
    <3>2. Good(k, e.t[j], End(j))'
      BY <3>1, NextOwn
    <3> QED
      BY <2>1, <3>2 DEF Good, Makes, Least, End
  <2>3. t = bt'[q] /\ n = Certain(q)' /\ Len(queue') = k
    BY <1>1, <1>2, <2>1
  <2> QED
    BY <2>2, <2>3 DEF OwnOK, Good, Makes, Least, End
<1>3. CASE q # r
  <2>1. PICK t, n : t = bt[q] /\ n = Certain(q)
    OBVIOUS
  <2>2. t = bt'[q] /\ n = Certain(q)'
    BY <1>1, <1>3, <2>1
  <2>3. PICK l \in Nat : l = Len(queue) /\ l = k - 1
    BY <1>1, QueueIs DEF IInv
  <2>4. ASSUME NEW j \in 1 .. Len(t), t[j] # Null, End(j) <= n PROVE Good(k, t[j], End(j))'
    <3>1. OwnOK(q)
      BY DEF IInv, RequestOK
    <3>2. PICK b, p : b = t[j] /\ p = End(j)
      OBVIOUS
    <3>3. Good(k - 1, b, p)
      BY <2>1, <2>3, <2>4, <3>1, <3>2 DEF OwnOK
    <3>4. b \notin Writes(k)'
      <4>1. q \in Requests \ {r} /\ j \in 1 .. Len(bt[q]) /\ b = bt[q][j]
        BY <1>3, <2>1, <2>4, <3>2
      <4> QED
        BY <4>1, Spared
    <3>5. Good(k, b, p)'
      BY <3>3, <3>4, GoodNext
    <3> QED
      BY <3>2, <3>5 DEF Good, Makes, Least, End
  <2> QED
    BY <1>1, <2>2, <2>4 DEF OwnOK, Good, Makes, Least, End
<1> QED
  BY <1>2, <1>3

-----------------------------------------------------------------------------
(* A step is scheduled: the prefix cache.                                  *)

\* A block that is registered for boundary o is of column o, which the step surely reaches.
LEMMA RegisteredIs ==
    ASSUME IInv, NEW r, NEW end, NEW e, NEW s, NEW lo, NEW hi, NEW c, NEW mv, NEW F, NEW k,
           Planned(r, end, e, s, lo, hi, c, mv, F, k),
           NEW o \in 1 .. MaxLen, o % BlockSize = 0, o <= Registered(r, end)
    PROVE  Column(o) \in 1 .. Len(e.t) /\ o = End(Column(o)) /\ o <= Certain(r)'
<1>1. /\ r \in Requests /\ Here(r) /\ Ready(r, s, lo, hi) /\ Placed(r, e, s, lo, c, mv, F)
      /\ end \in 1 .. MaxLen /\ c = Column(end) /\ (e.decode <=> known[r] >= prompt[r])
      /\ e.decode \in BOOLEAN
  <2>1. Reach(r, end, e, s, lo, hi, c)
    BY ReachIs
  <2> QED
    BY <2>1 DEF Planned, Reach
<1>2. o \in Nat /\ o > 0 /\ end \in Nat
  BY <1>1
<1>3. PICK x \in Nat, m \in Nat, p \in Nat : x = Committed(r) /\ m = computed[r] /\ p = prompt[r]
  BY <1>1, TypesAre DEF Ready, IInv
<1>4. o <= end /\ (x < p => o <= p) /\ (~(x < p) => o <= x + 1)
  <2>1. PICK y \in Nat : y = IF x < p THEN p ELSE x + 1
    OBVIOUS
  <2>2. Registered(r, end) = IF end < y THEN end ELSE y
    BY <1>3, <2>1 DEF Registered
  <2>3. o <= (IF end < y THEN end ELSE y)
    BY <2>2
  <2>4. o <= end /\ o <= y
    BY <1>2, <2>1, <2>3
  <2> QED
    BY <2>1, <2>4
<1>5. o = End(Column(o))
  BY <1>2, Boundary
<1>6. Column(o) \in 1 .. Len(e.t)
  <2>1. Column(o) \in Nat /\ Column(o) > 0
    BY <1>2, Columns
  <2>2. Column(o) <= c
    BY <1>1, <1>2, <1>4, ColumnGrows
  <2>3. c \in Nat /\ Len(e.t) \in Nat /\ c + 1 <= Len(e.t)
    BY <1>1 DEF Placed
  <2> QED
    BY <2>1, <2>2, <2>3
<1>7. PICK nc \in Nat : /\ nc = Certain(r)' /\ lo <= nc /\ (~e.decode => nc = end)
                        /\ (e.decode /\ ~Mine(r) => nc = lo + 1)
  BY NextOwn
<1>8. /\ lo \in Nat /\ m <= lo /\ x <= m /\ (Mine(r) => m < lo) /\ (e.decode => lo >= p)
  <2>1. /\ lo \in Nat /\ m <= lo /\ x <= m /\ (Mine(r) => m < lo)
    BY <1>1, <1>3 DEF Ready
  <2>2. known[r] >= prompt[r] => lo >= prompt[r]
    BY <1>1 DEF Ready
  <2> QED
    BY <1>1, <1>3, <2>1, <2>2
<1>9. o <= nc
  <2>1. CASE ~e.decode
    BY <1>4, <1>7, <2>1
  <2>2. CASE e.decode
    <3>1. CASE o <= lo
      BY <1>2, <1>7, <1>8, <3>1
    <3>2. CASE o > lo
      <4>1. ~(x < p)
        BY <1>2, <1>3, <1>4, <1>8, <2>2, <3>2
      <4>2. o <= x + 1
        BY <1>4, <4>1
      <4>3. x = lo /\ m = lo /\ o = lo + 1
        BY <1>2, <1>3, <1>8, <3>2, <4>2
      <4>4. ~Mine(r)
        BY <1>8, <4>3
      <4> QED
        BY <1>7, <1>8, <2>2, <4>3, <4>4
    <3> QED
      BY <1>2, <1>8, <3>1, <3>2
  <2> QED
    BY <1>1, <2>1, <2>2
<1> QED
  BY <1>5, <1>6, <1>7, <1>9

\* What is in the cache for boundary o: what was, or the block of its column, or none.
Refilled(r, e, F, o) ==
    \/ cached[o] # Null /\ cached[o] \notin F /\ cached'[o] = cached[o]
    \/ /\ Column(o) \in 1 .. Len(e.t) /\ o = End(Column(o)) /\ o <= Certain(r)'
       /\ cached'[o] = e.t[Column(o)]
    \/ cached'[o] = Null

LEMMA RefilledIs ==
    ASSUME IInv, NEW r, NEW end, NEW e, NEW s, NEW lo, NEW hi, NEW c, NEW mv, NEW F, NEW k,
           Planned(r, end, e, s, lo, hi, c, mv, F, k), NEW o \in 1 .. MaxLen
    PROVE  Refilled(r, e, F, o)
<1>1. \/ cached[o] # Null /\ cached[o] \notin F /\ cached'[o] = cached[o]
      \/ o % BlockSize = 0 /\ o <= Registered(r, end) /\ cached'[o] = e.t[Column(o)]
      \/ cached'[o] = Null
  BY DEF Planned
<1>2. CASE o % BlockSize = 0 /\ o <= Registered(r, end) /\ cached'[o] = e.t[Column(o)]
  <2>1. Column(o) \in 1 .. Len(e.t) /\ o = End(Column(o)) /\ o <= Certain(r)'
    BY <1>2, RegisteredIs
  <2> QED
    BY <1>2, <2>1 DEF Refilled
<1> QED
  BY <1>1, <1>2 DEF Refilled

\* A block of the table that stays cached is of that boundary, which was certain.
LEMMA KeptColumn ==
    ASSUME IInv, NEW r, NEW end, NEW e, NEW s, NEW lo, NEW hi, NEW c, NEW mv, NEW F, NEW k,
           Planned(r, end, e, s, lo, hi, c, mv, F, k), NEW o \in 1 .. MaxLen,
           NEW j \in 1 .. Len(e.t), e.t[j] # Null, cached[o] \notin F, cached[o] = e.t[j]
    PROVE  o = End(j) /\ o <= lo
<1>1. /\ r \in Requests /\ Here(r) /\ Placed(r, e, s, lo, c, mv, F) /\ Ready(r, s, lo, hi)
  BY DEF Planned
<1>2. lo = Certain(r) /\ lo \in Nat
  BY <1>1 DEF Ready
<1>3. PICK t, T, l : t = e.t /\ T = bt[r] /\ l = Len(bt[r])
  OBVIOUS
<1>4. l \in Nat /\ Kinds(t, T, lo, c, mv, F, j)
  BY <1>1, <1>3 DEF Placed
<1>5. \A i \in 1 .. l : T[i] = cached[o] => o = End(i) /\ o <= lo
  <2>1. CachedOK(o)
    BY DEF IInv
  <2> QED
    BY <1>1, <1>2, <1>3, <2>1 DEF CachedOK
<1>6. CASE j <= l /\ ~(mv /\ j = l) /\ t[j] = T[j] /\ t[j] \notin F
  <2>1. j \in 1 .. l /\ T[j] = cached[o]
    BY <1>3, <1>4, <1>6
  <2> QED
    BY <1>5, <2>1
<1>7. CASE mv /\ j = c /\ c > l /\ t[j] = T[l] /\ t[j] \notin F /\ l > 0 /\ End(l) > lo
  <2>1. l \in 1 .. l /\ T[l] = cached[o]
    BY <1>3, <1>4, <1>7
  <2>2. o = End(l) /\ o <= lo
    BY <1>5, <2>1
  <2>3. End(l) \in Nat
    BY <1>4, EndIs
  <2> QED
    BY <1>2, <1>7, <2>2, <2>3
<1>8. CASE t[j] \in F
  BY <1>3, <1>8
<1> QED
  BY <1>3, <1>4, <1>6, <1>7, <1>8 DEF Kinds

LEMMA NextColumn ==
    ASSUME IInv, NEW r, NEW end, NEW e, NEW s, NEW lo, NEW hi, NEW c, NEW mv, NEW F, NEW k,
           Planned(r, end, e, s, lo, hi, c, mv, F, k), NEW o \in 1 .. MaxLen,
           NEW j \in 1 .. Len(e.t), e.t[j] # Null, cached'[o] = e.t[j]
    PROVE  o = End(j) /\ o <= Certain(r)'
<1>1. Refilled(r, e, F, o)
  BY RefilledIs
<1>2. PICK nc \in Nat : nc = Certain(r)' /\ lo <= nc /\ lo \in Nat
  <2>1. Certain(r)' \in Nat /\ lo <= Certain(r)'
    BY NextOwn
  <2>2. lo \in Nat
    BY DEF Planned, Placed
  <2> QED
    BY <2>1, <2>2
<1>3. CASE cached[o] # Null /\ cached[o] \notin F /\ cached'[o] = cached[o]
  <2>1. cached[o] \notin F /\ cached[o] = e.t[j]
    BY <1>3
  <2>2. o = End(j) /\ o <= lo
    BY <2>1, KeptColumn
  <2>3. o \in Nat
    OBVIOUS
  <2> QED
    BY <1>2, <2>2, <2>3
<1>4. CASE /\ Column(o) \in 1 .. Len(e.t) /\ o = End(Column(o)) /\ o <= Certain(r)'
           /\ cached'[o] = e.t[Column(o)]
  <2>1. Distinct(e.t)
    BY DEF Planned, Placed
  <2>2. Column(o) = j
    BY <1>4, <2>1 DEF Distinct
  <2> QED
    BY <1>4, <2>2
<1> QED
  BY <1>1, <1>3, <1>4 DEF Refilled

\* The state of a boundary that is cached.
LEMMA NextGood ==
    ASSUME IInv, NEW r, NEW end, NEW e, NEW s, NEW lo, NEW hi, NEW c, NEW mv, NEW F, NEW k,
           Planned(r, end, e, s, lo, hi, c, mv, F, k), NEW p \in 1 .. MaxLen, cached'[p] # Null,
           NEW b, b = cached'[p]
    PROVE  Good(k, b, p)' /\ p = End(Column(p))
<1>1. Refilled(r, e, F, p)
  BY RefilledIs
<1>2. CASE cached[p] # Null /\ cached[p] \notin F /\ cached'[p] = cached[p]
  <2>1. b = cached[p]
    BY <1>2
  <2>2. p = End(Column(p)) /\ Good(Len(queue), cached[p], p)
    <3>1. CachedOK(p)
      BY DEF IInv
    <3> QED
      BY <1>2, <3>1 DEF CachedOK
  <2>3. b \notin Writes(k)'
    <3> SUFFICES ASSUME b \in Writes(k)' PROVE FALSE
      OBVIOUS
    <3>1. Writes(k)' = {a \in Slots : \E j \in 1 .. Len(e.t) : e.t[j] = a /\ End(j) > lo}
      BY WritesNext
    <3>2. PICK j \in 1 .. Len(e.t) : e.t[j] = b /\ End(j) > lo
      BY <3>1
    <3>3. e.t[j] # Null /\ cached[p] = e.t[j] /\ cached[p] \notin F
      BY <1>2, <2>1, <3>2
    <3>4. p = End(j) /\ p <= lo
      BY <3>3, KeptColumn
    <3>5. p \in Nat /\ lo \in Nat
      BY DEF Planned, Placed
    <3> QED
      BY <3>2, <3>4, <3>5
  <2>4. Good(k - 1, b, p)
    <3>1. PICK l \in Nat : l = Len(queue)
      BY QueueIs DEF IInv
    <3>2. k = Len(queue) + 1
      BY DEF Planned, NextOK
    <3>3. l = k - 1
      BY <3>1, <3>2
    <3> QED
      BY <2>1, <2>2, <3>1, <3>3
  <2>5. Good(k, b, p)'
    BY <2>3, <2>4, GoodNext
  <2> QED
    BY <2>2, <2>5
<1>3. CASE /\ Column(p) \in 1 .. Len(e.t) /\ p = End(Column(p)) /\ p <= Certain(r)'
           /\ cached'[p] = e.t[Column(p)]
  <2>1. PICK j \in 1 .. Len(e.t) : j = Column(p)
    BY <1>3
  <2>2. e.t[j] # Null /\ e.t[j] = b /\ End(j) = p /\ End(j) <= Certain(r)'
    BY <1>3, <2>1
  <2>3. Good(k, e.t[j], End(j))'
    BY <2>2, NextOwn
  <2>4. Good(k, b, p)'
    BY <2>2, <2>3 DEF Good, Makes, Least, End
  <2> QED
    BY <1>3, <2>4
<1> QED
  BY <1>1, <1>2, <1>3 DEF Refilled

\* No other boundary has the block.
LEMMA NextOnly ==
    ASSUME IInv, NEW r, NEW end, NEW e, NEW s, NEW lo, NEW hi, NEW c, NEW mv, NEW F, NEW k,
           Planned(r, end, e, s, lo, hi, c, mv, F, k),
           NEW p \in 1 .. MaxLen, NEW o \in 1 .. MaxLen, cached'[p] # Null, cached'[o] = cached'[p]
    PROVE  o = p
<1>1. Refilled(r, e, F, p) /\ Refilled(r, e, F, o)
  BY RefilledIs
<1>2. ASSUME NEW u \in 1 .. MaxLen, NEW v \in 1 .. MaxLen, cached'[u] # Null, cached'[v] = cached'[u],
             Column(u) \in 1 .. Len(e.t), u = End(Column(u)), cached'[u] = e.t[Column(u)]
      PROVE  v = u
  <2>1. PICK j \in 1 .. Len(e.t) : j = Column(u)
    BY <1>2
  <2>2. e.t[j] # Null /\ cached'[v] = e.t[j] /\ u = End(j)
    BY <1>2, <2>1
  <2>3. v = End(j)
    BY <1>2, <2>2, NextColumn
  <2> QED
    BY <2>2, <2>3
<1>3. CASE /\ cached[p] # Null /\ cached[p] \notin F /\ cached'[p] = cached[p]
           /\ cached[o] # Null /\ cached[o] \notin F /\ cached'[o] = cached[o]
  <2>1. CachedOK(p)
    BY DEF IInv
  <2> QED
    BY <1>3, <2>1 DEF CachedOK
<1>4. CASE Column(p) \in 1 .. Len(e.t) /\ p = End(Column(p)) /\ cached'[p] = e.t[Column(p)]
  BY <1>2, <1>4
<1>5. CASE Column(o) \in 1 .. Len(e.t) /\ o = End(Column(o)) /\ cached'[o] = e.t[Column(o)]
  BY <1>2, <1>5
<1> QED
  BY <1>1, <1>3, <1>4, <1>5 DEF Refilled

LEMMA NextCached ==
    ASSUME IInv, NEW r, NEW end, NEW e, NEW s, NEW lo, NEW hi, NEW c, NEW mv, NEW F, NEW k,
           Planned(r, end, e, s, lo, hi, c, mv, F, k), NEW p \in 1 .. MaxLen
    PROVE  CachedOK(p)'
<1> SUFFICES ASSUME cached'[p] # Null PROVE CachedOK(p)'
  BY DEF CachedOK
<1>1. PICK b : b = cached'[p]
  OBVIOUS
<1>2. Good(k, b, p)' /\ p = End(Column(p))
  BY <1>1, NextGood
<1>3. \A o \in 1 .. MaxLen : cached'[o] = b => o = p
  BY <1>1, NextOnly
<1>4. ASSUME NEW q \in Requests, Here(q)', NEW i \in 1 .. Len(bt'[q]), bt'[q][i] = b
      PROVE  p = End(i) /\ p <= Certain(q)'
  <2>1. /\ r \in Requests /\ bt'[r] = e.t /\ prompt' = prompt
        /\ \A o \in Requests \ {r} : bt'[o] = bt[o] /\ Certain(o)' = Certain(o)
    BY DEF Planned, NextOK, Untouched
  <2>2. Here(q)
    BY <1>4, <2>1 DEF Here
  <2>3. CASE q = r
    <3>1. i \in 1 .. Len(e.t) /\ e.t[i] # Null /\ cached'[p] = e.t[i]
      BY <1>1, <1>4, <2>1, <2>3
    <3>2. p = End(i) /\ p <= Certain(r)'
      BY <3>1, NextColumn
    <3> QED
      BY <2>3, <3>2
  <2>4. CASE q # r
    <3>1. i \in 1 .. Len(bt[q]) /\ bt[q][i] = b /\ Certain(q)' = Certain(q) /\ q \in Requests \ {r}
      BY <1>4, <2>1, <2>4
    <3>2. Refilled(r, e, F, p)
      BY RefilledIs
    <3>3. CASE cached[p] # Null /\ cached[p] \notin F /\ cached'[p] = cached[p]
      <4>1. CachedOK(p)
        BY DEF IInv
      <4>2. p = End(i) /\ p <= Certain(q)
        BY <1>1, <2>2, <3>1, <3>3, <4>1 DEF CachedOK
      <4> QED
        BY <3>1, <4>2
    <3>4. CASE /\ Column(p) \in 1 .. Len(e.t) /\ p = End(Column(p)) /\ cached'[p] = e.t[Column(p)]
      <4>1. PICK j \in 1 .. Len(e.t) : j = Column(p)
        BY <3>4
      <4>2. e.t[j] # Null /\ bt[q][i] = e.t[j] /\ p = End(j)
        BY <1>1, <3>1, <3>4, <4>1
      <4>3. i = j /\ End(j) <= Certain(q)
        BY <2>2, <3>1, <4>2, Apart
      <4> QED
        BY <3>1, <4>2, <4>3
    <3> QED
      BY <3>2, <3>3, <3>4 DEF Refilled
  <2> QED
    BY <2>3, <2>4
<1>5. Len(queue') = k
  BY DEF Planned, NextOK
<1>6. Good(Len(queue), cached[p], p)'
  BY <1>1, <1>2, <1>5 DEF Good, Makes, Least, End
<1>7. /\ \A o \in 1 .. MaxLen : cached'[o] = cached'[p] => o = p
      /\ \A q \in Requests : Here(q)' =>
            \A j \in 1 .. Len(bt'[q]) : bt'[q][j] = cached'[p] => p = End(j) /\ p <= Certain(q)'
  BY <1>1, <1>3, <1>4
<1> QED
  BY <1>2, <1>6, <1>7 DEF CachedOK, End, Column

-----------------------------------------------------------------------------
(* A step is scheduled: the inductive invariant.                           *)

LEMMA NextTypes ==
    ASSUME IInv, NEW r \in Requests, NEW end \in 1 .. MaxLen, Schedule(r, end),
           NEW e, NEW s, NEW lo, NEW hi, NEW c, NEW mv, NEW F, NEW k,
           Planned(r, end, e, s, lo, hi, c, mv, F, k)
    PROVE  Types'
<1>1. /\ turns' = turns
      /\ known' = [known EXCEPT ![r] = end]
      /\ flight' = [flight EXCEPT ![r] = @ + end - known[r]]
      /\ retired' = [retired EXCEPT ![r] = Retired(r)]
      /\ \E d : queue' = Append(queue, d) /\ bt' = [bt EXCEPT ![r] = d.t]
      /\ cached' \in [1 .. MaxLen -> {cached'[o] : o \in 1 .. MaxLen}]
  BY ScheduleIs
<1>2. /\ e \in Entry /\ queue'[k] = e /\ k = Len(queue) + 1 /\ Len(queue') = k
      /\ slot' = slot /\ computed' = computed /\ nacc' = nacc /\ col' = col
      /\ prompt' = prompt /\ done' = done /\ begun' = begun \cup {r}
      /\ Here(r) /\ Ready(r, s, lo, hi) /\ end > known[r]
      /\ Len(queue) + Len(done) < 2
  BY DEF Planned, NextOK
<1>3. Types
  BY DEF IInv
<1>4. e.t \in Tables
  BY <1>2 DEF Entry
<1>5. queue \in Seq(Entry) /\ bt \in [Requests -> Tables]
  BY <1>3 DEF Types
<1>6. queue' \in Seq(Entry) /\ bt' \in [Requests -> Tables]
  <2>1. PICK d : queue' = Append(queue, d) /\ bt' = [bt EXCEPT ![r] = d.t]
    BY <1>1
  <2>2. Append(queue, d)[Len(queue) + 1] = d
    BY <1>5
  <2>3. d = e
    BY <1>2, <2>1, <2>2
  <2>4. Append(queue, e) \in Seq(Entry)
    BY <1>2, <1>5
  <2>5. [bt EXCEPT ![r] = e.t] \in [Requests -> Tables]
    BY <1>4, <1>5
  <2> QED
    BY <2>1, <2>3, <2>4, <2>5
<1>7. cached' \in [1 .. MaxLen -> Slots \cup {Null}]
  <2>1. ASSUME NEW o \in 1 .. MaxLen PROVE cached'[o] \in Slots \cup {Null}
    <3>1. Refilled(r, e, F, o)
      BY RefilledIs
    <3>2. cached[o] \in Slots \cup {Null}
      BY <1>3 DEF Types
    <3>3. \A j \in 1 .. Len(e.t) : e.t[j] \in Slots \cup {Null}
      BY <1>4 DEF Tables
    <3> QED
      BY <3>1, <3>2, <3>3 DEF Refilled
  <2>2. {cached'[o] : o \in 1 .. MaxLen} \subseteq Slots \cup {Null}
    BY <2>1
  <2> QED
    BY <1>1, <2>2
<1>8. known' \in [Requests -> 0 .. MaxLen] /\ end \in 0 .. MaxLen
  <2>1. end \in 0 .. MaxLen
    BY Sizes
  <2>2. known \in [Requests -> 0 .. MaxLen]
    BY <1>3 DEF Types
  <2> QED
    BY <1>1, <2>1, <2>2
<1>9. flight' \in [Requests -> 0 .. MaxLen]
  <2>1. PICK x \in Nat, y \in Nat : x = known[r] /\ y = flight[r]
    BY <1>3, TypesAre
  <2>2. x - y >= 0
    <3>1. TotalsOK(r)
      BY <1>2 DEF IInv, RequestOK, TableOK
    <3> QED
      BY <2>1, <3>1 DEF TotalsOK, Committed
  <2>3. y + end - x \in 0 .. MaxLen
    <3>1. end \in Nat /\ end <= MaxLen /\ end > x
      BY <1>2, <2>1, Sizes
    <3> QED
      BY <2>2, <3>1, Sizes
  <2>4. flight \in [Requests -> 0 .. MaxLen]
    BY <1>3 DEF Types
  <2>5. flight[r] + end - known[r] \in 0 .. MaxLen
    BY <2>1, <2>3
  <2> QED
    BY <1>1, <2>4, <2>5
<1>10. retired' \in [Requests -> 0 .. MaxLen]
  <2>1. Retired(r) \in Nat /\ Retired(r) <= MaxLen
    BY <1>2, RetireIs
  <2>2. Retired(r) \in 0 .. MaxLen
    BY <2>1, Sizes
  <2>3. retired \in [Requests -> 0 .. MaxLen]
    BY <1>3 DEF Types
  <2> QED
    BY <1>1, <2>2, <2>3
<1>11. Len(queue') + Len(done') <= 2
  <2>1. PICK a \in 0 .. 2, b \in 0 .. 2 : a = Len(queue) /\ b = Len(done)
    BY <1>3, QueueIs
  <2>2. a + b < 2
    BY <1>2, <2>1
  <2>3. (a + 1) + b <= 2
    BY <2>2
  <2> QED
    BY <1>2, <2>1, <2>3
<1>12. /\ slot' \in [Slots -> Content] /\ begun' \subseteq Requests
       /\ prompt' \in [Requests -> 0 .. MaxLen]
       /\ computed' \in [Requests -> 0 .. MaxLen] /\ nacc' \in [Requests -> 1 .. 1 + Drafts]
       /\ col' \in [Requests -> 0 .. MaxLen] /\ done' \in Seq(Outcome)
       /\ \A i \in 1 .. Len(done') : done'[i].accepted <= done'[i].n
       /\ turns' \in 0 .. MaxTurns
  BY <1>1, <1>2, <1>3 DEF Types
<1> QED
  BY <1>6, <1>7, <1>8, <1>9, <1>10, <1>11, <1>12
     DEF Types, Content, Entry, Outcome, Tables, State

LEMMA ScheduleKeeps ==
    ASSUME IInv, NEW r \in Requests, NEW end \in 1 .. MaxLen, Schedule(r, end)
    PROVE  IInv'
<1>1. PICK e, s, lo, hi, c, mv, F, k : Planned(r, end, e, s, lo, hi, c, mv, F, k)
  BY ScheduleIs
<1>2. /\ Here(r) /\ Placed(r, e, s, lo, c, mv, F) /\ Ready(r, s, lo, hi) /\ Frame
      /\ k = Len(queue) + 1 /\ Len(queue') = k /\ bt'[r] = e.t /\ retired'[r] = Retired(r)
      /\ prompt' = prompt /\ \A q \in Requests \ {r} : Untouched(q)
  BY <1>1 DEF Planned, NextOK
<1>3. Types /\ \A i \in 1 .. Len(queue) : EntryOK(i)
  BY DEF IInv
<1>4. Types'
  BY <1>1, NextTypes
<1>5. PairOK'
  BY <1>1, NextPair
<1>6. ASSUME NEW i \in 1 .. Len(queue') PROVE EntryOK(i)'
  <2>1. i \in 1 .. Len(queue) \/ i = k
    <3>1. Len(queue) \in Nat
      BY <1>3, QueueIs
    <3> QED
      BY <1>2, <3>1
  <2>2. CASE i \in 1 .. Len(queue)
    BY <1>2, <1>3, <2>2, StepsKept DEF Kept
  <2>3. CASE i = k
    <3>1. EntryOK(k)'
      BY <1>1, NextEntry
    <3> QED
      BY <2>3, <3>1
  <2> QED
    BY <2>1, <2>2, <2>3
<1>7. ASSUME NEW q \in Requests PROVE RequestOK(q)'
  <2>1. Here(q)' <=> Here(q)
    BY <1>2 DEF Here
  <2>2. Here(q)' \/ Queued(q)' => SourceOK(q)'
    BY <1>1, NextSource
  <2>3. Here(q)' => OwnOK(q)' /\ SharedOK(q)'
    BY <1>1, <2>1, NextOwns, NextShared
  <2>4. Here(q)' => TableOK(q)'
    <3>1. CASE q = r
      BY <1>1, <3>1, NextTable
    <3>2. CASE q # r
      <4>1. q \in Requests \ {r}
        BY <3>2
      <4> QED
        BY <1>1, <2>1, <4>1, OtherTable
    <3> QED
      BY <3>1, <3>2
  <2>5. (~Here(q)' => bt'[q] = << >> /\ q \notin begun') /\ retired'[q] <= Len(bt'[q])
    <3>1. CASE q = r
      <4>1. Retired(r) \in Nat /\ Retired(r) <= Len(bt[r])
        BY <1>2, RetireIs
      <4>2. Len(bt[r]) \in Nat /\ Len(e.t) \in Nat /\ Len(bt[r]) <= Len(e.t)
        BY <1>2 DEF Placed
      <4>3. Retired(r) <= Len(e.t)
        BY <4>1, <4>2
      <4> QED
        BY <1>2, <2>1, <3>1, <4>3
    <3>2. CASE q # r
      <4>1. bt'[q] = bt[q] /\ retired'[q] = retired[q] /\ (q \in begun' <=> q \in begun)
        BY <1>2, <3>2 DEF Untouched
      <4>2. (~Here(q) => bt[q] = << >> /\ q \notin begun) /\ retired[q] <= Len(bt[q])
        BY DEF IInv, RequestOK
      <4> QED
        BY <2>1, <4>1, <4>2
    <3> QED
      BY <3>1, <3>2
  <2> QED
    BY <2>2, <2>3, <2>4, <2>5 DEF RequestOK
<1>8. \A p \in 1 .. MaxLen : CachedOK(p)'
  BY <1>1, NextCached
<1> QED
  BY <1>4, <1>5, <1>6, <1>7, <1>8 DEF IInv

-----------------------------------------------------------------------------
(* The theorems.                                                           *)

LEMMA StutterKeeps ==
    ASSUME IInv, UNCHANGED vars
    PROVE  IInv'
<1>1. UNCHANGED <<cached, bt, begun, prompt, known, flight, retired, turns,
                  slot, computed, nacc, col, queue, done>>
  BY DEF vars, schedVars, workVars
<1>2. Types /\ Types' /\ Frame
  <2>1. Types /\ Frame
    BY <1>1 DEF IInv, Frame
  <2> QED
    BY <1>1, <2>1 DEF Types, Content, Entry, Outcome, Tables, State
<1>3. NoneComes /\ \A q \in Requests : Untouched(q)
  BY <1>1 DEF NoneComes, Untouched, Here
<1>4. PairOK'
  <2>1. Len(queue) = 2 /\ prompt'[queue[1].req] > 0 => Here(queue[1].req)
    BY <1>1 DEF Here
  <2> QED
    BY <1>1, <1>2, <2>1, PairKept DEF IInv
<1>5. \A i \in 1 .. Len(queue') : EntryOK(i)'
  BY <1>1, <1>2, StepsKept DEF IInv, Kept
<1>6. ASSUME NEW q \in Requests PROVE RequestOK(q)'
  <2>1. RequestOK(q) /\ Untouched(q) /\ (Here(q)' <=> Here(q)) /\ (Queued(q)' <=> Queued(q))
        /\ Certain(q)' = Certain(q)
    BY <1>1, <1>3, CertainKept DEF IInv, Here
  <2>2. Here(q)' \/ Queued(q)' => SourceOK(q)'
    BY <1>1, <1>2, <2>1, SourceKept DEF RequestOK
  <2>3. Here(q)' => TableOK(q)' /\ OwnOK(q)' /\ SharedOK(q)'
    BY <1>1, <1>2, <1>3, <2>1, TableKept, OwnKept, SharedKept DEF RequestOK
  <2>4. (~Here(q)' => bt'[q] = << >> /\ q \notin begun') /\ retired'[q] <= Len(bt'[q])
    BY <1>1, <2>1 DEF RequestOK
  <2> QED
    BY <2>2, <2>3, <2>4 DEF RequestOK
<1>7. \A p \in 1 .. MaxLen : CachedOK(p)'
  BY <1>2, <1>3, CachedKept DEF IInv
<1> QED
  BY <1>2, <1>4, <1>5, <1>6, <1>7 DEF IInv

LEMMA NextKeeps == IInv /\ [Next]_vars => IInv'
<1> SUFFICES ASSUME IInv, [Next]_vars PROVE IInv'
  OBVIOUS
<1>1. CASE \E r \in Requests, p \in Prompts, hit \in 0 .. MaxLen : Arrive(r, p, hit)
  BY <1>1, ArriveKeeps
<1>2. CASE \E r \in Requests, end \in 1 .. MaxLen : Schedule(r, end)
  BY <1>2, ScheduleKeeps
<1>3. CASE \E r \in Requests : Leave(r)
  BY <1>3, LeaveKeeps
<1>4. CASE \E good \in 0 .. Drafts : RunStep(good)
  BY <1>4, RunStepKeeps
<1>5. CASE Output
  BY <1>5, OutputKeeps
<1>6. CASE UNCHANGED vars
  BY <1>6, StutterKeeps
<1> QED
  BY <1>1, <1>2, <1>3, <1>4, <1>5, <1>6 DEF Next

(* Whatever requests arrive, share prefixes, leave and come back, and      *)
(* whatever drafts are right: every scheduled step has the blocks it needs,*)
(* and every state that will be read is in place or will be made before.   *)
THEOREM SpecIInv == Spec => []IInv
<1>1. Init => IInv
  BY InitHolds
<1>2. IInv /\ [Next]_vars => IInv'
  BY NextKeeps
<1> QED
  BY <1>1, <1>2, PTL DEF Spec

(* The types; no retired prefix is longer than its block table, and at     *)
(* most one step is scheduled ahead of the one that runs.                  *)
THEOREM TypesHold == Spec => []TypeOK
<1>1. ASSUME IInv PROVE TypeOK
  <2>1. Types
    BY <1>1 DEF IInv
  <2>2. ASSUME NEW r \in Requests PROVE bt[r] \in Seq(Slots \cup {Null}) /\ retired[r] <= Len(bt[r])
    BY <1>1, <2>1 DEF Types, Tables, IInv, RequestOK
  <2> QED
    BY <2>1, <2>2 DEF TypeOK, Types, Content
<1> QED
  BY <1>1, SpecIInv, PTL

(* The state a step starts from is the state after exactly the tokens      *)
(* accepted so far, whichever block it comes from and however many drafts  *)
(* are replayed.                                                           *)
THEOREM StepsStartExact == Spec => []StepsExact
<1>1. IInv => StepsExact
  BY ExactSteps
<1> QED
  BY <1>1, SpecIInv, PTL

(* When no step is scheduled, each block in the prefix cache holds the     *)
(* state at its boundary, for any requests that shared or reused it.       *)
THEOREM CacheIsExact == Spec => []CheckpointsExact
<1>1. ASSUME IInv, queue = << >>, NEW p \in 1 .. MaxLen, cached[p] # Null
      PROVE  slot[cached[p]] = State(p)
  <2>1. CachedOK(p)
    BY <1>1 DEF IInv
  <2>2. Good(Len(queue), cached[p], p)
    BY <1>1, <2>1 DEF CachedOK
  <2>3. Len(queue) = 0
    BY <1>1
  <2>4. \A i \in 1 .. 0 : FALSE
    OBVIOUS
  <2> QED
    BY <2>2, <2>3, <2>4 DEF Good
<1>2. IInv => CheckpointsExact
  BY <1>1 DEF CheckpointsExact
<1> QED
  BY <1>2, SpecIInv, PTL

-----------------------------------------------------------------------------
(* What a request holds.  The steps in flight, the oldest first: those run *)
(* and not known to the scheduler, then the queue.                         *)
Depth == Len(done) + Len(queue)
Owner(i) == IF i <= Len(done) THEN done[i].req ELSE queue[i - Len(done)].req
Tokens(i) == IF i <= Len(done) THEN done[i].n ELSE queue[i - Len(done)].n

(* All its tokens are accepted.                                            *)
Whole(i) == IF i <= Len(done) THEN done[i].accepted = done[i].n
            ELSE ~queue[i - Len(done)].decode

Owns(r, i) == Depth >= i /\ Owner(i) = r

(* The tokens of its newest step, and those that may have been refused     *)
(* since the table last grew.                                              *)
LastTokens(r) == IF Owns(r, 2) THEN Tokens(2) ELSE IF Owns(r, 1) THEN Tokens(1) ELSE 0
Slack(r) == (IF Owns(r, 1) THEN 0 ELSE Drafts) + (IF Owns(r, 2) THEN 0 ELSE Drafts)

(* The columns a chunk of the prompt skips are null.                       *)
SkippedOK(r) ==
    LastTokens(r) > BlockSize =>
        /\ \A i \in 1 .. Depth : Owner(i) = r => Whole(i)
        /\ \A j \in 1 .. Len(bt[r]) :
              bt[r][j] # Null /\ j > Column(known[r] - LastTokens(r)) => j >= Column(known[r])

FewOK(r) ==
    Here(r) =>
        /\ \A j \in 1 .. Len(bt[r]) : j <= retired[r] => bt[r][j] = Null
        /\ known[r] >= prompt[r] => Len(bt[r]) <= Column(known[r] + Slack(r)) + 1
        /\ SkippedOK(r)

RefusedOK == \A i \in 1 .. Len(done) : done[i].n <= done[i].accepted + Drafts

HInv == RefusedOK /\ \A r \in Requests : FewOK(r)

LEMMA DepthIs ==
    ASSUME Types
    PROVE  /\ Depth \in 0 .. 2 /\ Len(done) \in 0 .. 2 /\ Len(queue) \in 0 .. 2
           /\ \A i \in 1 .. Depth : /\ Owner(i) \in Requests
                                    /\ Tokens(i) \in Nat /\ Tokens(i) > 0 /\ Tokens(i) <= MaxLen
<1>1. PICK d \in 0 .. 2, l \in 0 .. 2 : d = Len(done) /\ l = Len(queue) /\ d + l <= 2
  <2>1. Len(queue) \in 0 .. 2 /\ Len(done) \in 0 .. 2 /\ Len(queue) + Len(done) <= 2
    BY QueueIs
  <2> QED
    BY <2>1
<1>2. ASSUME NEW i \in 1 .. d + l
      PROVE  Owner(i) \in Requests /\ Tokens(i) \in 1 .. MaxLen
  <2>1. CASE i <= d
    <3>1. i \in 1 .. Len(done)
      BY <1>1, <2>1
    <3>2. done[i].req \in Requests /\ done[i].n \in 1 .. MaxLen
      BY <3>1, QueueIs
    <3> QED
      BY <1>1, <2>1, <3>2 DEF Owner, Tokens
  <2>2. CASE ~(i <= d)
    <3>1. i - d \in 1 .. Len(queue)
      BY <1>1, <2>2
    <3>2. queue[i - d].req \in Requests /\ queue[i - d].n \in 1 .. MaxLen
      BY <3>1, QueueIs
    <3> QED
      BY <1>1, <2>2, <3>2 DEF Owner, Tokens
  <2> QED
    BY <2>1, <2>2
<1>3. Depth = d + l /\ d + l \in 0 .. 2
  BY <1>1 DEF Depth
<1> QED
  BY <1>1, <1>2, <1>3, Sizes

\* The newest step of r, and what it may have refused, as numbers.
LEMMA LastIs ==
    ASSUME Types, NEW r \in Requests
    PROVE  /\ LastTokens(r) \in Nat /\ Slack(r) \in Nat /\ Slack(r) <= 2 * Drafts
           /\ Slack(r)' \in Nat
<1>1. LastTokens(r) \in Nat
  <2>1. CASE Owns(r, 2)
    <3>1. 2 \in 1 .. Depth
      BY <2>1, DepthIs DEF Owns
    <3> QED
      BY <2>1, <3>1, DepthIs DEF LastTokens
  <2>2. CASE ~Owns(r, 2) /\ Owns(r, 1)
    <3>1. 1 \in 1 .. Depth
      BY <2>2, DepthIs DEF Owns
    <3> QED
      BY <2>2, <3>1, DepthIs DEF LastTokens
  <2>3. CASE ~Owns(r, 2) /\ ~Owns(r, 1)
    BY <2>3 DEF LastTokens
  <2> QED
    BY <2>1, <2>2, <2>3
<1>2. Slack(r) \in Nat /\ Slack(r) <= 2 * Drafts
  BY Sizes DEF Slack
<1>3. Slack(r)' \in Nat
  BY Sizes DEF Slack, Owns
<1> QED
  BY <1>1, <1>2, <1>3

\* What r holds stays few when its newest step stays, and no more is
\* accepted than was known.
LEMMA FewKept ==
    ASSUME Types, Types', NEW r \in Requests, FewOK(r),
           bt'[r] = bt[r], retired'[r] = retired[r], prompt'[r] = prompt[r],
           known'[r] + Slack(r)' >= known[r] + Slack(r), known'[r] <= known[r],
           LastTokens(r)' > BlockSize =>
             /\ LastTokens(r)' = LastTokens(r) /\ known'[r] = known[r]
             /\ (\A i \in 1 .. Depth : Owner(i) = r => Whole(i))
                   => \A i \in 1 .. Depth' : Owner(i)' = r => Whole(i)'
    PROVE  FewOK(r)'
<1> SUFFICES ASSUME Here(r)' PROVE /\ \A j \in 1 .. Len(bt'[r]) : j <= retired'[r] => bt'[r][j] = Null
                                   /\ known'[r] >= prompt'[r] =>
                                        Len(bt'[r]) <= Column(known'[r] + Slack(r)') + 1
                                   /\ SkippedOK(r)'
  BY DEF FewOK
<1>1. Here(r)
  BY DEF Here
<1>2. known'[r] >= prompt'[r] => Len(bt'[r]) <= Column(known'[r] + Slack(r)') + 1
  <2>1. PICK m \in Nat, n \in Nat, x \in Nat, y \in Nat, p \in Nat, l \in Nat :
           /\ m = known[r] /\ n = known'[r] /\ x = Slack(r) /\ y = Slack(r)'
           /\ p = prompt[r] /\ l = Len(bt[r])
    <3>1. Slack(r) \in Nat /\ known[r] \in Nat /\ prompt[r] \in Nat /\ Len(bt[r]) \in Nat
      BY TypesAre, LastIs
    <3>2. Slack(r)' \in Nat
      BY LastIs
    <3>3. known'[r] \in Nat
      BY Sizes DEF Types
    <3> QED
      BY <3>1, <3>2, <3>3
  <2>2. n >= p => l <= Column(m + x) + 1
    <3>1. n >= p => m >= p
      BY <2>1
    <3> QED
      BY <1>1, <2>1, <3>1 DEF FewOK
  <2>3. Column(m + x) <= Column(n + y) /\ Column(m + x) \in Nat /\ Column(n + y) \in Nat
    <3>1. m + x \in Nat /\ n + y \in Nat /\ m + x <= n + y
      BY <2>1
    <3> QED
      BY <3>1, ColumnGrows, Columns
  <2> QED
    BY <2>1, <2>2, <2>3
<1>3. SkippedOK(r)'
  <2> SUFFICES ASSUME LastTokens(r)' > BlockSize
               PROVE  /\ \A i \in 1 .. Depth' : Owner(i)' = r => Whole(i)'
                      /\ \A j \in 1 .. Len(bt'[r]) :
                            bt'[r][j] # Null /\ j > Column(known'[r] - LastTokens(r)')
                               => j >= Column(known'[r])
    BY DEF SkippedOK
  <2>1. LastTokens(r)' = LastTokens(r) /\ known'[r] = known[r]
    OBVIOUS
  <2>2. LastTokens(r) > BlockSize /\ SkippedOK(r)
    BY <1>1, <2>1 DEF FewOK
  <2> QED
    BY <2>1, <2>2 DEF SkippedOK
<1> QED
  BY <1>1, <1>2, <1>3 DEF FewOK

\* A step of the queue runs: the steps in flight are the same, and what was
\* sure to be accepted is.
LEMMA DepthRuns ==
    ASSUME IInv, queue # << >>,
           NEW e, e = queue[1], NEW r, r = e.req, NEW c, RanOK(e, r, c), StepOK(e, r, c)
    PROVE  /\ Depth' = Depth
           /\ \A i \in 1 .. Depth : /\ Owner(i)' = Owner(i) /\ Tokens(i)' = Tokens(i)
                                    /\ Whole(i) => Whole(i)'
<1>1. PICK d \in 0 .. 2, l \in 1 .. 2 : d = Len(done) /\ l = Len(queue) /\ d + l <= 2
  <2>1. Len(queue) \in 0 .. 2 /\ Len(done) \in 0 .. 2 /\ Len(queue) + Len(done) <= 2
        /\ Len(queue) >= 1
    BY QueueIs DEF IInv
  <2> QED
    BY <2>1
<1>2. PICK o : o = [req |-> r, n |-> e.n, accepted |-> computed'[r] - computed[r]]
  OBVIOUS
<1>3. o.req = r /\ o.n = e.n /\ (~e.decode => o.accepted = o.n)
  <2>1. computed[r] \in Nat /\ e.n \in Nat
    BY DEF StepOK
  <2>2. ~e.decode => computed'[r] = computed[r] + e.n
    BY DEF RanOK
  <2> QED
    BY <1>2, <2>1, <2>2
<1>4. /\ Len(done') = d + 1 /\ done'[d + 1] = o /\ \A i \in 1 .. d : done'[i] = done[i]
  <2>1. done' = Append(done, o) /\ done \in Seq(Outcome)
    BY <1>2 DEF RanOK, IInv, Types
  <2> QED
    BY <1>1, <2>1
<1>5. Len(queue') = l - 1 /\ \A i \in 1 .. l - 1 : queue'[i] = queue[i + 1]
  <2>1. queue' = Tail(queue) /\ queue \in Seq(Entry)
    BY DEF RanOK, IInv, Types
  <2> QED
    BY <1>1, <2>1
<1>6. Depth = d + l /\ Depth' = d + l
  <2>1. Depth' = d + 1 + (l - 1)
    BY <1>4, <1>5 DEF Depth
  <2> QED
    BY <1>1, <2>1 DEF Depth
<1>7. ASSUME NEW i \in 1 .. d + l
      PROVE  Owner(i)' = Owner(i) /\ Tokens(i)' = Tokens(i) /\ (Whole(i) => Whole(i)')
  <2>1. CASE i <= d
    <3>1. i <= Len(done') /\ i <= Len(done) /\ done'[i] = done[i]
      BY <1>1, <1>4, <2>1
    <3> QED
      BY <3>1 DEF Owner, Tokens, Whole
  <2>2. CASE i = d + 1
    <3>1. i <= Len(done') /\ ~(i <= Len(done)) /\ i - Len(done) = 1
      BY <1>1, <1>4, <2>2
    <3> QED
      BY <1>3, <1>4, <2>2, <3>1 DEF Owner, Tokens, Whole
  <2>3. CASE i > d + 1
    <3>1. /\ ~(i <= Len(done')) /\ ~(i <= Len(done))
          /\ i - Len(done') = i - d - 1 /\ i - Len(done) = i - d
      BY <1>1, <1>4, <2>3
    <3>2. queue'[i - d - 1] = queue[i - d]
      <4>1. i - d - 1 \in 1 .. l - 1 /\ i - d - 1 + 1 = i - d
        BY <1>1, <2>3
      <4> QED
        BY <1>5, <4>1
    <3> QED
      BY <3>1, <3>2 DEF Owner, Tokens, Whole
  <2> QED
    BY <1>1, <2>1, <2>2, <2>3
<1> QED
  BY <1>6, <1>7

\* The scheduler learns of the oldest step.
LEMMA DepthOut ==
    ASSUME Types, done # << >>, done' = Tail(done), queue' = queue
    PROVE  /\ Depth \in 1 .. 2 /\ Depth' = Depth - 1 /\ Owner(1) = done[1].req
           /\ Depth = 2 => /\ Owner(1)' = Owner(2) /\ Tokens(1)' = Tokens(2)
                           /\ (Whole(1)' <=> Whole(2))
<1>1. PICK d \in 1 .. 2, l \in 0 .. 2 : d = Len(done) /\ l = Len(queue) /\ d + l <= 2
  <2>1. Len(queue) \in 0 .. 2 /\ Len(done) \in 0 .. 2 /\ Len(queue) + Len(done) <= 2
        /\ 1 \in 1 .. Len(done)
    <3>1. Len(queue) \in 0 .. 2 /\ Len(done) \in 0 .. 2 /\ Len(queue) + Len(done) <= 2
      BY QueueIs
    <3>2. PICK h : h = Head(done)
      OBVIOUS
    <3>3. 1 \in 1 .. Len(done)
      BY <3>2, HeadIs
    <3> QED
      BY <3>1, <3>3
  <2> QED
    <3>1. PICK x \in Nat, y \in Nat : x = Len(done) /\ y = Len(queue) /\ x + y <= 2
      BY <2>1
    <3>2. 1 \in 1 .. x
      BY <2>1, <3>1
    <3>3. x \in 1 .. 2 /\ y \in 0 .. 2
      BY <3>1, <3>2
    <3> QED
      BY <3>1, <3>3
<1>2. Len(done') = d - 1 /\ (d = 2 => done'[1] = done[2])
  <2>1. done \in Seq(Outcome)
    BY DEF Types
  <2> QED
    BY <1>1, <2>1
<1>3. Depth = d + l /\ Depth' = d - 1 + l /\ Owner(1) = done[1].req
  BY <1>1, <1>2 DEF Depth, Owner
<1>4. CASE d = 2
  <2>1. 1 <= Len(done') /\ 2 <= Len(done)
    BY <1>1, <1>2, <1>4
  <2> QED
    BY <1>1, <1>2, <1>3, <1>4, <2>1 DEF Owner, Tokens, Whole
<1>5. CASE d = 1
  <2>1. /\ ~(1 <= Len(done')) /\ ~(2 <= Len(done)) /\ 1 - Len(done') = 1 /\ 2 - Len(done) = 1
    BY <1>1, <1>2, <1>5
  <2>2. /\ Owner(1)' = queue[1].req /\ Tokens(1)' = queue[1].n /\ (Whole(1)' <=> ~queue[1].decode)
    BY <2>1 DEF Owner, Tokens, Whole
  <2>3. /\ Owner(2) = queue[1].req /\ Tokens(2) = queue[1].n /\ (Whole(2) <=> ~queue[1].decode)
    BY <2>1 DEF Owner, Tokens, Whole
  <2> QED
    BY <1>1, <1>3, <2>2, <2>3
<1> QED
  BY <1>1, <1>4, <1>5

\* Step e is scheduled.
LEMMA DepthGrows ==
    ASSUME Types, Depth < 2, NEW e, queue' = Append(queue, e), done' = done,
           NEW k, k = Depth + 1
    PROVE  /\ Depth \in 0 .. 1 /\ Depth' = k
           /\ Owner(k)' = e.req /\ Tokens(k)' = e.n /\ (Whole(k)' <=> ~e.decode)
           /\ Depth = 1 => /\ Owner(1)' = Owner(1) /\ Tokens(1)' = Tokens(1)
                           /\ (Whole(1)' <=> Whole(1))
<1>1. PICK d \in 0 .. 1, l \in 0 .. 1 : d = Len(done) /\ l = Len(queue) /\ d + l < 2
  <2>1. Len(queue) \in 0 .. 2 /\ Len(done) \in 0 .. 2 /\ Len(done) + Len(queue) < 2
    BY QueueIs DEF Depth
  <2> QED
    BY <2>1
<1>2. Len(queue') = l + 1 /\ queue'[l + 1] = e /\ (l = 1 => queue'[1] = queue[1])
  <2>1. queue \in Seq(Entry)
    BY DEF Types
  <2> QED
    BY <1>1, <2>1
<1>3. Depth = d + l /\ Depth' = d + l + 1
  BY <1>1, <1>2 DEF Depth
<1>4. Owner(k)' = e.req /\ Tokens(k)' = e.n /\ (Whole(k)' <=> ~e.decode)
  <2>1. ~(k <= Len(done')) /\ k - Len(done') = l + 1
    BY <1>1, <1>3
  <2> QED
    BY <1>2, <2>1 DEF Owner, Tokens, Whole
<1>5. d + l = 1 => Owner(1)' = Owner(1) /\ Tokens(1)' = Tokens(1) /\ (Whole(1)' <=> Whole(1))
  <2>1. CASE d = 1
    <3>1. 1 <= Len(done) /\ 1 <= Len(done')
      BY <1>1, <2>1
    <3> QED
      BY <3>1 DEF Owner, Tokens, Whole
  <2>2. CASE d = 0 /\ l = 1
    <3>1. /\ ~(1 <= Len(done)) /\ ~(1 <= Len(done')) /\ 1 - Len(done) = 1 /\ 1 - Len(done') = 1
      BY <1>1, <2>2
    <3> QED
      BY <1>2, <2>2, <3>1 DEF Owner, Tokens, Whole
  <2> QED
    BY <1>1, <2>1, <2>2
<1>6. d + l \in 0 .. 1
  BY <1>1
<1> QED
  BY <1>3, <1>4, <1>5, <1>6

\* With the same steps in flight, the newest of q is the same.
LEMMA LastKept ==
    ASSUME Types, NEW q \in Requests, Depth' = Depth,
           \A i \in 1 .. Depth : Owner(i)' = Owner(i) /\ Tokens(i)' = Tokens(i)
    PROVE  LastTokens(q)' = LastTokens(q) /\ Slack(q)' = Slack(q)
<1>1. /\ Depth >= 1 => Owner(1)' = Owner(1) /\ Tokens(1)' = Tokens(1)
      /\ Depth >= 2 => Owner(2)' = Owner(2) /\ Tokens(2)' = Tokens(2)
  BY DepthIs
<1>2. (Owns(q, 1)' <=> Owns(q, 1)) /\ (Owns(q, 2)' <=> Owns(q, 2))
  BY <1>1 DEF Owns
<1>3. LastTokens(q)' = LastTokens(q)
  BY <1>1, <1>2 DEF LastTokens, Owns
<1>4. Slack(q)' = Slack(q)
  BY <1>2 DEF Slack, Owns
<1> QED
  BY <1>3, <1>4

\* When none of r's tables and no step in flight changes.
LEMMA FewStays ==
    ASSUME IInv, IInv', NEW q \in Requests, FewOK(q), queue' = queue, done' = done,
           bt'[q] = bt[q], retired'[q] = retired[q], prompt'[q] = prompt[q], known'[q] = known[q]
    PROVE  FewOK(q)'
<1>1. Types /\ Types'
  BY DEF IInv
<1>2. Depth' = Depth
  BY DEF Depth
<1>3. \A i \in 1 .. Depth : Owner(i)' = Owner(i) /\ Tokens(i)' = Tokens(i) /\ (Whole(i)' <=> Whole(i))
  BY DEF Owner, Tokens, Whole
<1>4. LastTokens(q)' = LastTokens(q) /\ Slack(q)' = Slack(q)
  BY <1>1, <1>2, <1>3, LastKept
<1>5. known'[q] + Slack(q)' >= known[q] + Slack(q) /\ known'[q] <= known[q]
  <2>1. known[q] \in Nat /\ Slack(q) \in Nat
    BY <1>1, TypesAre, LastIs
  <2> QED
    BY <1>4, <2>1
<1>6. (\A i \in 1 .. Depth : Owner(i) = q => Whole(i))
         => \A i \in 1 .. Depth' : Owner(i)' = q => Whole(i)'
  BY <1>2, <1>3
<1> QED
  BY <1>1, <1>4, <1>5, <1>6, FewKept

LEMMA FewStutters ==
    ASSUME IInv, IInv', HInv, UNCHANGED <<bt, prompt, known, retired, queue, done>>
    PROVE  HInv'
<1>1. ASSUME NEW q \in Requests PROVE FewOK(q)'
  BY <1>1, FewStays DEF HInv
<1>2. RefusedOK'
  BY DEF HInv, RefusedOK
<1> QED
  BY <1>1, <1>2 DEF HInv

LEMMA FewLeaves ==
    ASSUME IInv, IInv', HInv, NEW r \in Requests, Leave(r)
    PROVE  HInv'
<1>1. /\ prompt' = [prompt EXCEPT ![r] = 0] /\ bt' = [bt EXCEPT ![r] = << >>]
      /\ retired' = [retired EXCEPT ![r] = 0]
      /\ UNCHANGED <<known, queue, done>>
  BY DEF Leave
<1>2. /\ prompt \in [Requests -> 0 .. MaxLen] /\ bt \in [Requests -> Tables]
      /\ retired \in [Requests -> 0 .. MaxLen]
  BY DEF IInv, Types
<1>3. ASSUME NEW q \in Requests PROVE FewOK(q)'
  <2>1. CASE q = r
    <3>1. ~Here(q)'
      BY <1>1, <1>2, <2>1 DEF Here
    <3> QED
      BY <3>1 DEF FewOK
  <2>2. CASE q # r
    <3>1. /\ bt'[q] = bt[q] /\ retired'[q] = retired[q] /\ prompt'[q] = prompt[q]
          /\ known'[q] = known[q]
      BY <1>1, <1>2, <2>2
    <3> QED
      BY <1>1, <3>1, FewStays DEF HInv
  <2> QED
    BY <2>1, <2>2
<1>4. RefusedOK'
  BY <1>1 DEF HInv, RefusedOK
<1> QED
  BY <1>3, <1>4 DEF HInv

LEMMA FewArrive ==
    ASSUME IInv, IInv', HInv, NEW r \in Requests, NEW p \in Prompts, NEW hit \in 0 .. MaxLen,
           Arrive(r, p, hit)
    PROVE  HInv'
<1>1. PICK b : hit > 0 => b = cached[hit]
  OBVIOUS
<1>2. ArrivedOK(r, p, hit, b)
  BY <1>1, ArriveIs
<1>3. /\ UNCHANGED <<retired, queue, done>> /\ ~Queued(r)
      /\ \A i \in 1 .. Len(done) : done[i].req # r
      /\ \A q \in Requests : q # r => Untouched(q)
      /\ retired[r] = 0 /\ hit < p
      /\ prompt'[r] = p /\ known'[r] = hit
  BY <1>2 DEF ArrivedOK
<1>4. PICK d \in 0 .. 2, l \in 0 .. 2 : d = Len(done) /\ l = Len(queue)
  BY QueueIs DEF IInv
<1>5. ~Owns(r, 1)' /\ ~Owns(r, 2)'
  <2>1. ASSUME NEW i \in 1 .. d + l PROVE Owner(i) # r
    <3>1. CASE i <= d
      BY <1>3, <1>4, <3>1 DEF Owner
    <3>2. CASE ~(i <= d)
      <4>1. i - d \in 1 .. Len(queue)
        BY <1>4, <3>2
      <4> QED
        BY <1>3, <1>4, <3>2, <4>1 DEF Owner, Queued
    <3> QED
      BY <3>1, <3>2
  <2>2. Depth = d + l /\ Depth' = Depth /\ Owner(1)' = Owner(1) /\ Owner(2)' = Owner(2)
    BY <1>3, <1>4 DEF Depth, Owner
  <2>3. d + l >= 1 => Owner(1) # r
    BY <1>4, <2>1
  <2>4. d + l >= 2 => Owner(2) # r
    BY <1>4, <2>1
  <2> QED
    BY <1>4, <2>2, <2>3, <2>4 DEF Owns
<1>6. FewOK(r)'
  <2> DEFINE t == bt'[r]
  <2>1. LastTokens(r)' = 0
    BY <1>5 DEF LastTokens
  <2>2. SkippedOK(r)'
    <3>1. ~(LastTokens(r)' > BlockSize)
      BY <2>1, Sizes
    <3> QED
      BY <3>1 DEF SkippedOK
  <2>3. \A j \in 1 .. Len(t) : j <= retired'[r] => t[j] = Null
    <3>1. \A j \in 1 .. Len(t) : ~(j <= 0)
      OBVIOUS
    <3> QED
      BY <1>3, <3>1
  <2>5. ~(known'[r] >= prompt'[r])
    <3>1. p \in Nat /\ hit \in Nat
      BY <1>2, Sizes DEF ArrivedOK
    <3> QED
      BY <1>3, <3>1
  <2> QED
    BY <2>2, <2>3, <2>5 DEF FewOK
<1>7. ASSUME NEW q \in Requests, q # r PROVE FewOK(q)'
  <2>1. Untouched(q)
    BY <1>3, <1>7
  <2>2. /\ bt'[q] = bt[q] /\ retired'[q] = retired[q] /\ prompt'[q] = prompt[q]
        /\ known'[q] = known[q]
    BY <2>1 DEF Untouched
  <2> QED
    BY <1>3, <1>7, <2>2, FewStays DEF HInv
<1>8. RefusedOK'
  BY <1>3 DEF HInv, RefusedOK
<1> QED
  BY <1>6, <1>7, <1>8 DEF HInv

LEMMA FewRun ==
    ASSUME IInv, IInv', HInv, NEW good \in 0 .. Drafts, RunStep(good)
    PROVE  HInv'
<1>1. queue # << >>
  BY DEF RunStep
<1>2. PICK e : e = queue[1]
  OBVIOUS
<1>3. PICK r : r = e.req
  OBVIOUS
<1>4. PICK c : c = Column(computed[r] + e.n)
  OBVIOUS
<1>5. RanOK(e, r, c) /\ StepOK(e, r, c)
  BY <1>2, <1>3, <1>4, StepRuns
<1>6. UNCHANGED <<bt, prompt, known, retired>>
  BY <1>5 DEF RanOK, schedVars
<1>7. Types /\ Types'
  BY DEF IInv
<1>8. /\ Depth' = Depth
      /\ \A i \in 1 .. Depth : /\ Owner(i)' = Owner(i) /\ Tokens(i)' = Tokens(i)
                               /\ Whole(i) => Whole(i)'
  BY <1>1, <1>2, <1>3, <1>5, DepthRuns
<1>9. ASSUME NEW q \in Requests PROVE FewOK(q)'
  <2>1. LastTokens(q)' = LastTokens(q) /\ Slack(q)' = Slack(q)
    BY <1>7, <1>8, LastKept
  <2>2. known'[q] + Slack(q)' >= known[q] + Slack(q) /\ known'[q] <= known[q]
    <3>1. known[q] \in Nat /\ Slack(q) \in Nat
      BY <1>7, TypesAre, LastIs
    <3> QED
      BY <1>6, <2>1, <3>1
  <2>3. (\A i \in 1 .. Depth : Owner(i) = q => Whole(i))
           => \A i \in 1 .. Depth' : Owner(i)' = q => Whole(i)'
    BY <1>8
  <2>4. FewOK(q)
    BY DEF HInv
  <2> QED
    BY <1>6, <1>7, <2>1, <2>2, <2>3, <2>4, FewKept
<1>10. RefusedOK'
  <2>1. PICK d \in Nat : d = Len(done)
    BY <1>7, QueueIs
  <2>2. PICK o : o = [req |-> r, n |-> e.n, accepted |-> computed'[r] - computed[r]]
    OBVIOUS
  <2>3. Len(done') = d + 1 /\ done'[d + 1] = o /\ \A i \in 1 .. d : done'[i] = done[i]
    <3>1. done' = Append(done, o) /\ done \in Seq(Outcome)
      BY <1>5, <1>7, <2>2 DEF RanOK, Types
    <3> QED
      BY <2>1, <3>1
  <2>4. o.n <= o.accepted + Drafts
    <3>1. /\ e.n \in Nat /\ e.n > 0 /\ computed[r] \in Nat /\ e.decode \in BOOLEAN
          /\ computed'[r] \in Nat /\ (e.decode => e.n = 1 + Drafts)
          /\ computed[r] + Least(e) <= computed'[r]
      BY <1>5 DEF StepOK, RanOK
    <3>2. e.decode => computed[r] + 1 <= computed'[r]
      BY <3>1 DEF Least
    <3>3. ~e.decode => computed[r] + e.n <= computed'[r]
      BY <3>1 DEF Least
    <3> QED
      BY <2>2, <3>1, <3>2, <3>3, Sizes
  <2>5. ASSUME NEW i \in 1 .. d + 1 PROVE done'[i].n <= done'[i].accepted + Drafts
    <3>1. CASE i = d + 1
      BY <2>3, <2>4, <3>1
    <3>2. CASE i # d + 1
      <4>1. i \in 1 .. d
        BY <2>1, <3>2
      <4> QED
        BY <2>1, <2>3, <4>1 DEF HInv, RefusedOK
    <3> QED
      BY <3>1, <3>2
  <2> QED
    BY <2>3, <2>5 DEF RefusedOK
<1> QED
  BY <1>9, <1>10 DEF HInv

LEMMA FewOutput ==
    ASSUME IInv, IInv', HInv, Output
    PROVE  HInv'
<1>1. PICK d : d = Head(done)
  OBVIOUS
<1>2. /\ done # << >> /\ done' = Tail(done) /\ UNCHANGED <<bt, prompt, retired, queue>>
      /\ IF Here(d.req) THEN known' = [known EXCEPT ![d.req] = @ - (d.n - d.accepted)]
                        ELSE known' = known
  BY <1>1 DEF Output
<1>3. Types /\ Types'
  BY DEF IInv
<1>4. /\ 1 \in 1 .. Len(done) /\ d = done[1] /\ d.req \in Requests
      /\ d.n \in Nat /\ d.accepted \in Nat /\ d.accepted <= d.n /\ d.n <= d.accepted + Drafts
  BY <1>1, <1>2, <1>3, HeadIs DEF HInv, RefusedOK
<1>5. /\ Depth \in 1 .. 2 /\ Depth' = Depth - 1 /\ Owner(1) = d.req
      /\ Depth = 2 => /\ Owner(1)' = Owner(2) /\ Tokens(1)' = Tokens(2)
                      /\ (Whole(1)' <=> Whole(2))
  BY <1>2, <1>3, <1>4, DepthOut
<1>6. ASSUME NEW q \in Requests PROVE (Owns(q, 1)' <=> Owns(q, 2)) /\ ~Owns(q, 2)'
  <2>1. Depth = 1 => ~(Depth' >= 1) /\ ~(Depth >= 2) /\ ~(Depth' >= 2)
    BY <1>5
  <2>2. Depth = 2 => Depth' >= 1 /\ Depth >= 2 /\ ~(Depth' >= 2)
    BY <1>5
  <2> QED
    BY <1>5, <2>1, <2>2 DEF Owns
<1>7. ASSUME NEW q \in Requests
      PROVE  /\ LastTokens(q)' = IF Owns(q, 2) THEN LastTokens(q) ELSE 0
             /\ Slack(q)' = (IF Owns(q, 2) THEN 0 ELSE Drafts) + Drafts
             /\ Slack(q) = (IF Owns(q, 1) THEN 0 ELSE Drafts) + (IF Owns(q, 2) THEN 0 ELSE Drafts)
  <2>1. LastTokens(q)' = IF Owns(q, 2)' THEN Tokens(2)' ELSE IF Owns(q, 1)' THEN Tokens(1)' ELSE 0
    BY DEF LastTokens
  <2>2. Owns(q, 2) => Depth = 2
    BY <1>5 DEF Owns
  <2>3. LastTokens(q)' = IF Owns(q, 2) THEN LastTokens(q) ELSE 0
    BY <1>5, <1>6, <2>1, <2>2 DEF LastTokens
  <2>4. Slack(q)' = (IF Owns(q, 1)' THEN 0 ELSE Drafts) + (IF Owns(q, 2)' THEN 0 ELSE Drafts)
    BY DEF Slack
  <2>5. Slack(q)' = (IF Owns(q, 2) THEN 0 ELSE Drafts) + Drafts
    BY <1>6, <2>4
  <2> QED
    BY <2>3, <2>5 DEF Slack
<1>8. ASSUME NEW q \in Requests, Here(q) PROVE FewOK(q)'
  <2>1. FewOK(q) /\ SkippedOK(q)
    BY <1>8 DEF HInv, FewOK
  <2>2. known[q] \in Nat /\ known \in [Requests -> 0 .. MaxLen]
    BY <1>3, TypesAre DEF Types
  <2>3. (\A i \in 1 .. Depth : Owner(i) = q => Whole(i))
           => \A i \in 1 .. Depth' : Owner(i)' = q => Whole(i)'
    <3> SUFFICES ASSUME \A i \in 1 .. Depth : Owner(i) = q => Whole(i),
                        NEW i \in 1 .. Depth', Owner(i)' = q
                 PROVE  Whole(i)'
      OBVIOUS
    <3>1. i = 1 /\ Depth = 2 /\ 2 \in 1 .. Depth
      BY <1>5
    <3> QED
      BY <1>5, <3>1
  <2>4. CASE q = d.req
    <3>1. known'[q] = known[q] - (d.n - d.accepted)
      BY <1>2, <1>8, <2>2, <2>4
    <3>2. Owns(q, 1)
      BY <1>5, <2>4 DEF Owns
    <3>3. known'[q] + Slack(q)' >= known[q] + Slack(q) /\ known'[q] <= known[q]
      <4>1. PICK x \in Nat : x = IF Owns(q, 2) THEN 0 ELSE Drafts
        BY Sizes
      <4>2. Slack(q)' = x + Drafts /\ Slack(q) = x
        BY <1>7, <3>2, <4>1
      <4> QED
        <5>1. PICK u \in Nat, v \in Nat, k \in Nat, z \in Nat :
                u = d.n /\ v = d.accepted /\ k = known[q] /\ z = Drafts /\ v <= u /\ u <= v + z
          BY <1>4, <2>2, Sizes
        <5>2. known'[q] = k - (u - v) /\ Slack(q)' = x + z /\ Slack(q) = x
          BY <3>1, <4>2, <5>1
        <5>3. k - (u - v) + (x + z) >= k + x /\ k - (u - v) <= k
          BY <5>1
        <5> QED
          BY <5>1, <5>2, <5>3
    <3>4. LastTokens(q)' > BlockSize => LastTokens(q)' = LastTokens(q) /\ known'[q] = known[q]
      <4> SUFFICES ASSUME LastTokens(q)' > BlockSize
                   PROVE  LastTokens(q)' = LastTokens(q) /\ known'[q] = known[q]
        OBVIOUS
      <4>1. Owns(q, 2)
        <5>1. ~(0 > BlockSize)
          BY Sizes
        <5> QED
          BY <1>7, <5>1
      <4>2. LastTokens(q)' = LastTokens(q) /\ LastTokens(q) > BlockSize
        BY <1>7, <4>1
      <4>3. Whole(1)
        BY <1>5, <2>1, <2>4, <4>2 DEF SkippedOK
      <4>4. d.accepted = d.n
        <5>1. 1 <= Len(done)
          BY <1>3, <1>4, QueueIs
        <5> QED
          BY <1>4, <4>3, <5>1 DEF Whole
      <4> QED
        BY <1>4, <2>2, <3>1, <4>2, <4>4
    <3> QED
      BY <1>2, <1>3, <2>1, <2>3, <3>3, <3>4, FewKept
  <2>5. CASE q # d.req
    <3>1. known'[q] = known[q]
      BY <1>2, <2>2, <2>5
    <3>2. ~Owns(q, 1)
      BY <1>5, <2>5 DEF Owns
    <3>3. known'[q] + Slack(q)' >= known[q] + Slack(q) /\ known'[q] <= known[q]
      <4>1. PICK x \in Nat : x = IF Owns(q, 2) THEN 0 ELSE Drafts
        BY Sizes
      <4>2. Slack(q)' = x + Drafts /\ Slack(q) = Drafts + x
        BY <1>7, <3>2, <4>1
      <4> QED
        BY <2>2, <3>1, <4>2, Sizes
    <3>4. LastTokens(q)' > BlockSize => LastTokens(q)' = LastTokens(q)
      <4>1. ~(0 > BlockSize)
        BY Sizes
      <4> QED
        BY <1>7, <4>1
    <3> QED
      BY <1>2, <1>3, <2>1, <2>3, <3>1, <3>3, <3>4, FewKept
  <2> QED
    BY <2>4, <2>5
<1>9. ASSUME NEW q \in Requests PROVE FewOK(q)'
  <2>1. Here(q)' <=> Here(q)
    BY <1>2 DEF Here
  <2>2. ~Here(q)' => FewOK(q)'
    BY DEF FewOK
  <2> QED
    BY <1>8, <2>1, <2>2
<1>10. RefusedOK'
  <2>1. PICK l \in 1 .. 2 : l = Len(done)
    BY <1>3, <1>4, QueueIs
  <2>2. Len(done') = l - 1 /\ \A i \in 1 .. l - 1 : done'[i] = done[i + 1]
    <3>1. done \in Seq(Outcome)
      BY <1>3 DEF Types
    <3> QED
      BY <1>2, <2>1, <3>1
  <2>3. ASSUME NEW i \in 1 .. l - 1 PROVE done'[i].n <= done'[i].accepted + Drafts
    <3>1. i + 1 \in 1 .. Len(done)
      BY <2>1
    <3> QED
      BY <2>2, <3>1 DEF HInv, RefusedOK
  <2> QED
    BY <2>2, <2>3 DEF RefusedOK
<1> QED
  BY <1>9, <1>10 DEF HInv

\* With less than two steps in flight, what r has there.
LEMMA InFlightIs ==
    ASSUME IInv, NEW r \in Requests, Here(r), Depth < 2
    PROVE  /\ flight[r] = LastTokens(r) /\ Committed(r) = known[r] - LastTokens(r)
           /\ Committed(r) \in Nat
           /\ Slack(r) = Drafts + (IF Owns(r, 1) THEN 0 ELSE Drafts)
           /\ ~Owns(r, 1) => LastTokens(r) = 0
<1>1. PICK d \in 0 .. 1, l \in 0 .. 1 : d = Len(done) /\ l = Len(queue) /\ d + l < 2
  <2>1. Len(queue) \in 0 .. 2 /\ Len(done) \in 0 .. 2 /\ Len(done) + Len(queue) < 2
    BY QueueIs DEF IInv, Depth
  <2> QED
    BY <2>1
<1>2. Depth = d + l /\ ~Owns(r, 2)
  BY <1>1 DEF Depth, Owns
<1>3. LastTokens(r) = (IF Owns(r, 1) THEN Tokens(1) ELSE 0)
      /\ Slack(r) = Drafts + (IF Owns(r, 1) THEN 0 ELSE Drafts)
  <2>1. Slack(r) = (IF Owns(r, 1) THEN 0 ELSE Drafts) + Drafts
    BY <1>2 DEF Slack
  <2> QED
    BY <1>2, <2>1, Sizes DEF LastTokens
<1>4. flight[r] = QueuedTokens(r) + DoneTokens(r) /\ Committed(r) >= 0
  BY DEF IInv, RequestOK, TableOK, TotalsOK
<1>5. flight[r] = LastTokens(r)
  <2>1. CASE d = 0 /\ l = 0
    <3>1. QueuedTokens(r) = 0 + 0 /\ DoneTokens(r) = 0 + 0 /\ ~Owns(r, 1)
      BY <1>1, <1>2, <2>1 DEF QueuedTokens, DoneTokens, Owns
    <3> QED
      BY <1>3, <1>4, <3>1
  <2>2. CASE d = 0 /\ l = 1
    <3>1. QueuedTokens(r) = (IF queue[1].req = r THEN queue[1].n ELSE 0) + 0
          /\ DoneTokens(r) = 0 + 0
      BY <1>1, <2>2 DEF QueuedTokens, DoneTokens
    <3>2. ~(1 <= Len(done)) /\ 1 - Len(done) = 1 /\ Depth >= 1
      BY <1>1, <1>2, <2>2
    <3>3. (Owns(r, 1) <=> queue[1].req = r) /\ Tokens(1) = queue[1].n
      BY <3>2 DEF Owns, Owner, Tokens
    <3>4. queue[1].n \in Nat
      BY <1>1, <2>2, QueueIs, Sizes DEF IInv
    <3> QED
      BY <1>3, <1>4, <3>1, <3>3, <3>4
  <2>3. CASE d = 1 /\ l = 0
    <3>1. DoneTokens(r) = (IF done[1].req = r THEN done[1].n ELSE 0) + 0
          /\ QueuedTokens(r) = 0 + 0
      BY <1>1, <2>3 DEF QueuedTokens, DoneTokens
    <3>2. 1 <= Len(done) /\ Depth >= 1
      BY <1>1, <1>2, <2>3
    <3>3. (Owns(r, 1) <=> done[1].req = r) /\ Tokens(1) = done[1].n
      BY <3>2 DEF Owns, Owner, Tokens
    <3>4. done[1].n \in Nat
      BY <1>1, <2>3, QueueIs, Sizes DEF IInv
    <3> QED
      BY <1>3, <1>4, <3>1, <3>3, <3>4
  <2> QED
    BY <1>1, <2>1, <2>2, <2>3
<1>6. known[r] \in Nat /\ LastTokens(r) \in Nat
  BY TypesAre, LastIs DEF IInv
<1>7. Committed(r) = known[r] - LastTokens(r)
  BY <1>5 DEF Committed
<1> QED
  BY <1>3, <1>4, <1>5, <1>6, <1>7

\* What is left when the states before the last committed token's have been
\* retired.
LEMMA RetiredAre ==
    ASSUME IInv, NEW r \in Requests, Here(r), FewOK(r), Committed(r) \in Nat,
           NEW j \in 1 .. Len(bt[r])
    PROVE  /\ j <= Retired(r) => Retire(r)[j] = Null
           /\ Retire(r)[j] # Null => bt[r][j] # Null /\ j >= Column(Committed(r))
<1>1. PICK l \in Nat, n \in Nat, o \in Nat :
         l = Len(bt[r]) /\ n = Committed(r) /\ o = retired[r] /\ j \in 1 .. l
  BY TypesAre DEF IInv
<1>2. PICK k \in Int : k = (n - 1) \div BlockSize /\ n <= (k + 1) * BlockSize
  <2>1. CASE n = 0
    <3>1. (n - 1) \div BlockSize = -1
      BY <2>1, Sizes
    <3>2. n <= (-1 + 1) * BlockSize
      BY <2>1, Sizes
    <3> QED
      BY <3>1, <3>2
  <2>2. CASE n > 0
    <3>1. n - 1 \in Nat
      BY <2>2
    <3>2. PICK q \in Nat, m \in 0 .. BlockSize - 1 :
             q = (n - 1) \div BlockSize /\ n - 1 = q * BlockSize + m
      BY <3>1, Division, Sizes
    <3>3. (q + 1) * BlockSize = q * BlockSize + BlockSize /\ q * BlockSize \in Nat
      BY <3>2, Sizes
    <3>4. n <= (q + 1) * BlockSize
      BY <3>2, <3>3, Sizes
    <3> QED
      BY <3>2, <3>4
  <2> QED
    BY <1>1, <2>1, <2>2
<1>3. PICK x \in Int : x = (IF k < l THEN k ELSE l) /\ Past(r) = 1 .. x
  BY <1>1, <1>2 DEF Past
<1>4. Retire(r)[j] = IF j \in 1 .. x /\ j > o THEN Null ELSE bt[r][j]
  <2>1. Retire(r) = [i \in 1 .. l |-> IF i \in 1 .. x /\ i > o THEN Null ELSE bt[r][i]]
    BY <1>1, <1>3 DEF Retire
  <2> QED
    BY <1>1, <2>1, Zenon
<1>5. j <= o => bt[r][j] = Null
  BY <1>1 DEF FewOK
<1>6. j <= Retired(r) => j \in 1 .. x \/ j <= o
  <2>1. Cardinality(1 .. x) = IF 1 > x THEN 0 ELSE x - 1 + 1
    BY FS_Interval
  <2>2. Cardinality(Past(r)) = IF x > 0 THEN x ELSE 0
    BY <1>3, <2>1
  <2>3. j \in Nat /\ j > 0
    BY <1>1
  <2> QED
    BY <1>1, <1>3, <2>2, <2>3 DEF Retired
<1>7. ~(j \in 1 .. x) => j >= Column(n)
  <2> SUFFICES ASSUME ~(j \in 1 .. x) PROVE j >= Column(n)
    OBVIOUS
  <2>1. k + 1 <= j /\ j \in Nat
    BY <1>1, <1>3
  <2>2. n <= End(j)
    <3>1. CASE k + 1 <= 0
      <4>1. (k + 1) * BlockSize <= 0
        BY <3>1, Sizes
      <4>2. End(j) \in Nat
        BY <2>1, EndIs
      <4> QED
        BY <1>1, <1>2, <4>1, <4>2, Sizes
    <3>2. CASE ~(k + 1 <= 0)
      <4>1. k + 1 \in Nat
        BY <3>2
      <4>2. End(k + 1) <= End(j) /\ End(k + 1) \in Nat /\ End(j) \in Nat
        BY <2>1, <4>1, Ends
      <4>3. n <= End(k + 1)
        BY <1>2 DEF End
      <4> QED
        BY <1>1, <4>2, <4>3
    <3> QED
      BY <3>1, <3>2
  <2> QED
    BY <1>1, <2>1, <2>2, Columns
<1> QED
  BY <1>1, <1>4, <1>5, <1>6, <1>7

\* The columns before the one of the last scheduled token.
LEMMA OldColumns ==
    ASSUME IInv, NEW r \in Requests, Here(r), FewOK(r), Depth < 2,
           NEW j \in 1 .. Len(bt[r]), Retire(r)[j] # Null
    PROVE  j >= Column(known[r]) \/ (Owns(r, 1) /\ j = Column(Committed(r)))
<1>1. /\ Committed(r) = known[r] - LastTokens(r) /\ Committed(r) \in Nat
      /\ ~Owns(r, 1) => LastTokens(r) = 0
  BY InFlightIs
<1>2. PICK m \in Nat, n \in Nat, x \in Nat :
         m = known[r] /\ n = Committed(r) /\ x = LastTokens(r) /\ m = n + x
  <2>1. known[r] \in Nat /\ LastTokens(r) \in Nat
    BY TypesAre, LastIs DEF IInv
  <2> QED
    BY <1>1, <2>1
<1>3. bt[r][j] # Null /\ j >= Column(n)
  BY <1>1, <1>2, RetiredAre
<1>4. CASE ~Owns(r, 1)
  <2>1. m = n
    BY <1>1, <1>2, <1>4
  <2> QED
    BY <1>2, <1>3, <2>1
<1>5. CASE Owns(r, 1)
  <2> SUFFICES ASSUME j # Column(n) PROVE j >= Column(m)
    BY <1>2, <1>5
  <2>1. j > Column(n) /\ Column(n) \in Nat /\ j \in Nat
    BY <1>2, <1>3, Columns
  <2>2. CASE x > BlockSize
    <3>1. SkippedOK(r) /\ Column(known[r] - LastTokens(r)) = Column(n)
      BY <1>1, <1>2 DEF FewOK
    <3> QED
      BY <1>2, <1>3, <2>1, <2>2, <3>1 DEF SkippedOK
  <2>3. CASE ~(x > BlockSize)
    <3>1. x <= BlockSize
      BY <1>2, <2>3, Sizes
    <3>2. Column(n + x) <= Column(n) + 1 /\ Column(n + x) \in Nat
      <4>1. n + x \in Nat
        BY <1>2
      <4> QED
        BY <1>2, <3>1, <4>1, ColumnNext, Columns
    <3> QED
      BY <1>2, <2>1, <3>2
  <2> QED
    BY <2>2, <2>3
<1> QED
  BY <1>4, <1>5

\* The columns that hold a block once a step is scheduled: three, and the one
\* of the last committed token if a step of r is in flight.
FewIn(r, t) ==
    \E a, b, d \in Nat :
       \A j \in 1 .. Len(t) :
          t[j] # Null => j \in {a, b, d} \/ (Owns(r, 1) /\ j = Column(Committed(r)))

LEMMA NewColumns ==
    ASSUME 2 * Drafts <= BlockSize, IInv, NEW r, NEW end, NEW e, NEW s, NEW lo, NEW hi, NEW c,
           NEW mv, NEW F, NEW k, Planned(r, end, e, s, lo, hi, c, mv, F, k), FewOK(r)
    PROVE  FewIn(r, e.t)
<1>1. /\ r \in Requests /\ Here(r) /\ Depth < 2 /\ e.decode \in BOOLEAN
      /\ end \in 1 .. MaxLen /\ end > known[r] /\ c = Column(end)
      /\ (e.decode <=> known[r] >= prompt[r]) /\ (e.decode => end = known[r] + 1 + Drafts)
      /\ Ready(r, s, lo, hi) /\ Placed(r, e, s, lo, c, mv, F)
      /\ GrownTo(e.t, Retire(r), Len(bt[r]), c, mv, F)
  <2>1. Len(queue) + Len(done) < 2 /\ e \in Entry
    BY DEF Planned
  <2>2. Len(queue) \in 0 .. 2 /\ Len(done) \in 0 .. 2
    BY QueueIs DEF IInv
  <2>3. Depth < 2
    BY <2>1, <2>2 DEF Depth
  <2> QED
    BY <2>1, <2>3 DEF Planned, Entry
<1>2. PICK t : t = e.t
  OBVIOUS
<1>3. PICK l \in Nat, m \in Nat, n \in Nat, x \in Nat :
         l = Len(bt[r]) /\ m = known[r] /\ n = Column(m) /\ x = Slack(r) /\ x <= 2 * Drafts
  <2>1. Len(bt[r]) \in Nat /\ known[r] \in Nat /\ Slack(r) \in Nat /\ Slack(r) <= 2 * Drafts
    BY <1>1, TypesAre, LastIs DEF IInv
  <2> QED
    BY <2>1, Columns
<1>4. c \in Nat /\ Len(t) \in Nat /\ Len(t) = IF c + 1 <= l THEN l ELSE c + 1
  BY <1>1, <1>2, <1>3 DEF Placed, GrownTo
<1>5. ASSUME NEW j \in 1 .. Len(t), t[j] # Null, j <= l, mv => l < c
      PROVE  j >= n \/ (Owns(r, 1) /\ j = Column(Committed(r)))
  <2>1. ~(mv /\ j = l)
    <3> SUFFICES ASSUME mv, j = l PROVE FALSE
      OBVIOUS
    <3>1. j < c
      BY <1>3, <1>4, <1>5
    <3> QED
      BY <1>1, <1>2, <1>3, <1>5, <3>1 DEF GrownTo
  <2>2. t[j] = Retire(r)[j]
    BY <1>1, <1>2, <1>3, <1>5, <2>1 DEF GrownTo
  <2>3. j \in 1 .. Len(bt[r])
    BY <1>3, <1>4, <1>5
  <2> QED
    BY <1>1, <1>3, <1>5, <2>2, <2>3, OldColumns
<1>6. mv => l < c
  BY <1>1, <1>3 DEF GrownTo
<1>7. CASE ~e.decode
  <2>1. s = n
    <3>1. End(s) = known[r] /\ s \in Nat
      <4>1. known[r] < prompt[r]
        <5>1. known[r] \in Nat /\ prompt[r] \in Nat
          BY <1>1, TypesAre DEF IInv
        <5> QED
          BY <1>1, <1>7, <5>1
      <4> QED
        BY <1>1, <4>1 DEF Ready
    <3> QED
      BY <1>3, <3>1, Columns
  <2>2. s <= l /\ Len(t) = c + 1 /\ \A j \in s + 1 .. c - 1 : t[j] = Null
    BY <1>1, <1>2, <1>3, <1>7 DEF Placed
  <2>3. ASSUME NEW j \in 1 .. Len(t), t[j] # Null
        PROVE  j \in {n, c, c + 1} \/ (Owns(r, 1) /\ j = Column(Committed(r)))
    <3>1. CASE j <= n
      <4>1. j <= l
        BY <1>3, <1>4, <2>1, <2>2, <3>1
      <4>2. j >= n \/ (Owns(r, 1) /\ j = Column(Committed(r)))
        BY <1>5, <1>6, <2>3, <4>1
      <4>3. j >= n => j = n
        BY <1>3, <1>4, <3>1
      <4> QED
        BY <4>2, <4>3
    <3>2. CASE ~(j <= n)
      <4>1. j \notin s + 1 .. c - 1
        BY <2>2, <2>3
      <4> QED
        BY <1>3, <1>4, <2>1, <2>2, <3>2, <4>1
    <3> QED
      BY <3>1, <3>2
  <2>4. n \in Nat /\ c \in Nat /\ c + 1 \in Nat
    BY <1>3, <1>4
  <2> QED
    BY <1>2, <2>3, <2>4 DEF FewIn
<1>8. CASE e.decode
  <2>1. l >= n + 1
    <3>1. Len(bt[r]) >= Column(known[r]) + 1
      BY <1>1, <1>8 DEF Ready
    <3> QED
      BY <1>3, <3>1
  <2>2. c <= n + 1
    <3>1. end = m + (1 + Drafts) /\ 1 + Drafts \in Nat /\ 1 + Drafts <= BlockSize
      <4>1. PICK g \in Nat : g = Drafts /\ 1 + g <= BlockSize
        BY Sizes
      <4>2. end = m + 1 + g
        BY <1>1, <1>3, <1>8, <4>1
      <4> QED
        BY <1>3, <4>1, <4>2
    <3> QED
      BY <1>1, <1>3, <3>1, ColumnNext
  <2>3. l <= n + 2
    <3>1. l <= Column(m + x) + 1
      BY <1>1, <1>3, <1>8 DEF FewOK
    <3>2. x <= BlockSize
      BY <1>3, Sizes
    <3>3. Column(m + x) <= n + 1
      BY <1>3, <3>2, ColumnNext
    <3>4. m + x \in Nat
      BY <1>3
    <3>5. Column(m + x) \in Nat
      BY <3>4, Columns
    <3> QED
      BY <1>3, <3>1, <3>3, <3>5
  <2>4. Len(t) <= n + 2
    BY <1>3, <1>4, <2>2, <2>3
  <2>5. ASSUME NEW j \in 1 .. Len(t), t[j] # Null
        PROVE  j \in {n, n + 1, n + 2} \/ (Owns(r, 1) /\ j = Column(Committed(r)))
    <3>1. CASE j <= l
      <4>1. j >= n \/ (Owns(r, 1) /\ j = Column(Committed(r)))
        BY <1>5, <1>6, <2>5, <3>1
      <4>2. j >= n => j \in {n, n + 1, n + 2}
        <5>1. PICK w \in Nat : w = Len(t) /\ w <= n + 2
          BY <1>4, <2>4
        <5>2. PICK i \in Nat : i = j /\ i <= w
          BY <5>1
        <5>3. i >= n => i = n \/ i = n + 1 \/ i = n + 2
          BY <5>1, <5>2
        <5> QED
          BY <5>2, <5>3
      <4> QED
        BY <4>1, <4>2
    <3>2. CASE ~(j <= l)
      BY <1>3, <1>4, <2>1, <2>4, <3>2
    <3> QED
      BY <3>1, <3>2
  <2>6. n \in Nat /\ n + 1 \in Nat /\ n + 2 \in Nat
    BY <1>3
  <2> QED
    BY <1>2, <2>5, <2>6 DEF FewIn
<1> QED
  BY <1>1, <1>7, <1>8

LEMMA FewNext ==
    ASSUME IInv, HInv, NEW r, NEW end, NEW e, NEW s, NEW lo, NEW hi, NEW c,
           NEW mv, NEW F, NEW k, Planned(r, end, e, s, lo, hi, c, mv, F, k),
           queue' = Append(queue, e)
    PROVE  FewOK(r)'
<1>1. /\ r \in Requests /\ Here(r) /\ Depth < 2 /\ e.decode \in BOOLEAN
      /\ end \in 1 .. MaxLen /\ end > known[r] /\ c = Column(end)
      /\ (e.decode <=> known[r] >= prompt[r]) /\ (e.decode => end = known[r] + 1 + Drafts)
      /\ e.req = r /\ e.n = end - known[r]
      /\ Ready(r, s, lo, hi) /\ Placed(r, e, s, lo, c, mv, F)
      /\ GrownTo(e.t, Retire(r), Len(bt[r]), c, mv, F)
      /\ bt'[r] = e.t /\ known'[r] = end /\ retired'[r] = Retired(r)
      /\ prompt' = prompt /\ done' = done
  <2>1. Len(queue) + Len(done) < 2 /\ e \in Entry
    BY DEF Planned
  <2>2. Len(queue) \in 0 .. 2 /\ Len(done) \in 0 .. 2
    BY QueueIs DEF IInv
  <2>3. Depth < 2
    BY <2>1, <2>2 DEF Depth
  <2> QED
    BY <2>1, <2>3 DEF Planned, Entry
<1>2. PICK t : t = e.t
  OBVIOUS
<1>3. PICK l \in Nat, m \in Nat, p \in Nat, x \in Nat :
         l = Len(bt[r]) /\ m = known[r] /\ p = prompt[r] /\ x = Slack(r)
  BY <1>1, TypesAre, LastIs DEF IInv
<1>4. FewOK(r) /\ Committed(r) \in Nat /\ x = Drafts + (IF Owns(r, 1) THEN 0 ELSE Drafts)
  BY <1>1, <1>3, InFlightIs DEF HInv
<1>5. c \in Nat /\ Len(t) \in Nat /\ Len(t) = IF c + 1 <= l THEN l ELSE c + 1
  BY <1>1, <1>2, <1>3 DEF Placed, GrownTo
<1>6. PICK h : h = Depth + 1
  OBVIOUS
<1>7. /\ h \in 1 .. 2 /\ Depth = h - 1 /\ Depth' = h
      /\ Owner(h)' = r /\ Tokens(h)' = e.n /\ (Whole(h)' <=> ~e.decode)
      /\ h = 2 => /\ Owner(1)' = Owner(1) /\ (Whole(1)' <=> Whole(1))
  <2>1. /\ Depth \in 0 .. 1 /\ Depth' = h
        /\ Owner(h)' = e.req /\ Tokens(h)' = e.n /\ (Whole(h)' <=> ~e.decode)
        /\ Depth = 1 => /\ Owner(1)' = Owner(1) /\ (Whole(1)' <=> Whole(1))
    BY <1>1, <1>6, DepthGrows DEF IInv
  <2> QED
    BY <1>1, <1>6, <2>1
<1>8. LastTokens(r)' = e.n /\ Slack(r)' = (IF Owns(r, 1) THEN 0 ELSE Drafts)
  <2>1. CASE h = 1
    <3>1. Owns(r, 1)' /\ ~Owns(r, 2)' /\ ~Owns(r, 1) /\ ~Owns(r, 2)
      BY <1>7, <2>1 DEF Owns
    <3>2. LastTokens(r)' = e.n
      BY <1>7, <2>1, <3>1 DEF LastTokens, Owns
    <3>3. Slack(r)' = 0 + Drafts
      BY <3>1 DEF Slack
    <3> QED
      BY <3>1, <3>2, <3>3, Sizes
  <2>2. CASE h = 2
    <3>1. Owns(r, 2)' /\ (Owns(r, 1)' <=> Owns(r, 1))
      BY <1>7, <2>2 DEF Owns
    <3>2. LastTokens(r)' = e.n
      BY <1>7, <2>2, <3>1 DEF LastTokens, Owns
    <3>3. Slack(r)' = (IF Owns(r, 1) THEN 0 ELSE Drafts) + 0
      BY <3>1 DEF Slack
    <3> QED
      BY <3>2, <3>3, Sizes
  <2> QED
    BY <1>7, <2>1, <2>2
<1>9. \A j \in 1 .. Len(t) : j <= Retired(r) => t[j] = Null
  <2> SUFFICES ASSUME NEW j \in 1 .. Len(t), j <= Retired(r) PROVE t[j] = Null
    OBVIOUS
  <2>1. Retired(r) \in Nat /\ Retired(r) <= Len(bt[r])
    BY <1>1, RetireIs
  <2>2. j \in 1 .. Len(bt[r]) /\ j <= l
    BY <1>3, <1>5, <2>1
  <2>3. Retire(r)[j] = Null
    BY <1>1, <1>4, <2>2, RetiredAre
  <2>4. CASE mv /\ j = l
    <3>1. mv => l < c
      BY <1>1, <1>3 DEF GrownTo
    <3>2. j < c
      BY <1>3, <1>5, <2>4, <3>1
    <3> QED
      BY <1>1, <1>2, <1>3, <2>4, <3>2 DEF GrownTo
  <2>5. CASE ~(mv /\ j = l)
    BY <1>1, <1>2, <1>3, <2>2, <2>3, <2>5 DEF GrownTo
  <2> QED
    BY <2>4, <2>5
<1>10. end >= p => Len(t) <= Column(end + Slack(r)') + 1
  <2>1. PICK y \in Nat : y = Slack(r)' /\ x = Drafts + y
    <3>1. (IF Owns(r, 1) THEN 0 ELSE Drafts) \in Nat
      BY Sizes
    <3> QED
      BY <1>4, <1>8, <3>1
  <2>2. end \in Nat /\ end + y \in Nat /\ end <= end + y
    BY <1>1, <2>1, Sizes
  <2>3. c <= Column(end + y) /\ Column(end + y) \in Nat
    BY <1>1, <2>2, ColumnGrows, Columns
  <2>4. CASE ~e.decode
    <3>1. Len(t) = c + 1
      BY <1>1, <1>2, <2>4 DEF Placed
    <3> QED
      BY <1>5, <2>1, <2>3, <3>1
  <2>5. CASE e.decode
    <3>1. l <= Column(m + x) + 1
      BY <1>1, <1>3, <1>4, <2>5 DEF FewOK
    <3>2. m + x \in Nat /\ m + x <= end + y
      <4>1. end = m + 1 + Drafts
        BY <1>1, <1>3, <2>5
      <4>2. PICK g \in Nat : g = Drafts
        BY Sizes
      <4>3. m + x = m + g + y /\ end + y = m + 1 + g + y
        BY <2>1, <4>1, <4>2
      <4>4. y \in Nat /\ m \in Nat /\ g \in Nat
        BY <1>3, <2>1, <4>2
      <4>5. m + g + y \in Nat /\ m + g + y <= m + 1 + g + y
        BY <4>4
      <4> QED
        BY <4>3, <4>5
    <3>3. Column(m + x) <= Column(end + y) /\ Column(m + x) \in Nat
      BY <2>2, <3>2, ColumnGrows, Columns
    <3>4. PICK v \in Nat, w \in Nat : v = Column(m + x) /\ w = Column(end + y)
      BY <2>3, <3>3
    <3>5. v <= w /\ l <= v + 1 /\ c <= w
      BY <2>3, <3>1, <3>3, <3>4, Zenon
    <3>6. PICK g \in Nat : g = Len(t)
      BY <1>5, Zenon
    <3>7. c \in Nat /\ g = (IF c + 1 <= l THEN l ELSE c + 1)
      BY <1>5, <3>6, Zenon
    <3>8. l <= w + 1 /\ c + 1 <= w + 1
      BY <3>4, <3>5, <3>7
    <3>9. g <= w + 1
      BY <3>7, <3>8
    <3> QED
      BY <2>1, <3>4, <3>6, <3>9, Zenon
  <2> QED
    BY <1>1, <2>4, <2>5
<1>11. SkippedOK(r)'
  <2> SUFFICES ASSUME LastTokens(r)' > BlockSize
               PROVE  /\ \A i \in 1 .. Depth' : Owner(i)' = r => Whole(i)'
                      /\ \A j \in 1 .. Len(bt'[r]) :
                            bt'[r][j] # Null /\ j > Column(known'[r] - LastTokens(r)')
                               => j >= Column(known'[r])
    BY DEF SkippedOK
  <2>1. ~e.decode
    <3>1. e.decode => e.n = 1 + Drafts
      <4>1. e.decode => end = m + 1 + Drafts
        BY <1>1, <1>3
      <4> QED
        BY <1>1, <1>3, <4>1, Sizes
    <3> QED
      BY <1>8, <3>1, Sizes
  <2>2. m < p
    BY <1>1, <1>3, <2>1
  <2>3. \A i \in 1 .. Depth' : Owner(i)' = r => Whole(i)'
    <3> SUFFICES ASSUME NEW i \in 1 .. h, Owner(i)' = r PROVE Whole(i)'
      BY <1>7
    <3>1. CASE i = h
      BY <1>7, <2>1, <3>1
    <3>2. CASE i # h
      <4>1. i = 1 /\ h = 2 /\ Depth = 1 /\ Owner(1) = r
        BY <1>7, <3>2
      <4>2. PromptOK(r)
        BY <1>1 DEF IInv, RequestOK, TableOK
      <4>3. /\ \A o \in 1 .. Len(queue) : queue[o].req = r => ~queue[o].decode
            /\ \A o \in 1 .. Len(done) : done[o].req = r => done[o].accepted = done[o].n
        BY <1>3, <2>2, <4>2 DEF PromptOK
      <4>4. Len(queue) \in 0 .. 2 /\ Len(done) \in 0 .. 2
        BY QueueIs DEF IInv
      <4>5. CASE 1 <= Len(done)
        <5>1. 1 \in 1 .. Len(done)
          BY <4>4, <4>5
        <5>2. done[1].req = r
          BY <4>1, <4>5 DEF Owner
        <5>3. Whole(1)
          BY <4>3, <4>5, <5>1, <5>2 DEF Whole
        <5> QED
          BY <1>7, <4>1, <5>3
      <4>6. CASE ~(1 <= Len(done))
        <5>1. 1 - Len(done) = 1 /\ 1 \in 1 .. Len(queue)
          BY <4>1, <4>4, <4>6 DEF Depth
        <5>2. queue[1].req = r
          BY <4>1, <4>6, <5>1 DEF Owner
        <5>3. Whole(1)
          BY <4>3, <4>6, <5>1, <5>2 DEF Whole
        <5> QED
          BY <1>7, <4>1, <5>3
      <4> QED
        BY <4>5, <4>6
    <3> QED
      BY <3>1, <3>2
  <2>4. s = Column(m) /\ s \in Nat
    <3>1. End(s) = known[r] /\ s \in Nat
      BY <1>1, <1>3, <2>2 DEF Ready
    <3> QED
      BY <1>3, <3>1, Columns
  <2>5. Len(t) = c + 1 /\ \A j \in s + 1 .. c - 1 : t[j] = Null
    BY <1>1, <1>2, <2>1 DEF Placed
  <2>6. known'[r] - LastTokens(r)' = m
    BY <1>1, <1>3, <1>8, Sizes
  <2>7. ASSUME NEW j \in 1 .. Len(t), t[j] # Null, j > s PROVE j >= c
    <3>1. j \notin s + 1 .. c - 1
      BY <2>5, <2>7
    <3> QED
      BY <1>5, <2>4, <2>5, <2>7, <3>1
  <2> QED
    BY <1>1, <1>2, <2>3, <2>4, <2>6, <2>7
<1> QED
  BY <1>1, <1>2, <1>3, <1>9, <1>10, <1>11 DEF FewOK

LEMMA FewScheduled ==
    ASSUME IInv, IInv', HInv, NEW r \in Requests, NEW end \in 1 .. MaxLen, Schedule(r, end)
    PROVE  HInv'
<1>1. PICK e, s, lo, hi, c, mv, F, k : Planned(r, end, e, s, lo, hi, c, mv, F, k)
  BY ScheduleIs
<1>2. /\ Depth < 2 /\ e.req = r /\ k = Len(queue) + 1 /\ queue'[k] = e
      /\ prompt' = prompt /\ done' = done /\ \A q \in Requests \ {r} : Untouched(q)
  <2>1. Len(queue) + Len(done) < 2
    BY <1>1 DEF Planned
  <2>2. Len(queue) \in 0 .. 2 /\ Len(done) \in 0 .. 2
    BY QueueIs DEF IInv
  <2>3. Depth < 2
    BY <2>1, <2>2 DEF Depth
  <2> QED
    BY <1>1, <2>3 DEF Planned, NextOK
<1>3. queue' = Append(queue, e)
  <2>1. PICK f : queue' = Append(queue, f)
    BY ScheduleIs
  <2>2. queue \in Seq(Entry)
    BY DEF IInv, Types
  <2>3. queue'[Len(queue) + 1] = f
    BY <2>1, <2>2
  <2> QED
    BY <1>2, <2>1, <2>3
<1>4. FewOK(r)'
  BY <1>1, <1>3, FewNext
<1>5. ASSUME NEW q \in Requests, q # r PROVE FewOK(q)'
  <2>1. /\ bt'[q] = bt[q] /\ retired'[q] = retired[q] /\ prompt'[q] = prompt[q]
        /\ known'[q] = known[q]
    BY <1>2, <1>5 DEF Untouched
  <2>2. PICK h : h = Depth + 1
    OBVIOUS
  <2>3. /\ h \in 1 .. 2 /\ Depth = h - 1 /\ Depth' = h /\ Owner(h)' = r
        /\ h = 2 => /\ Owner(1)' = Owner(1) /\ Tokens(1)' = Tokens(1)
                    /\ (Whole(1)' <=> Whole(1))
    <3>1. /\ Depth \in 0 .. 1 /\ Depth' = h /\ Owner(h)' = e.req
          /\ Depth = 1 => /\ Owner(1)' = Owner(1) /\ Tokens(1)' = Tokens(1)
                          /\ (Whole(1)' <=> Whole(1))
      BY <1>2, <1>3, <2>2, DepthGrows DEF IInv
    <3> QED
      BY <1>2, <2>2, <3>1
  <2>4. /\ (Owns(q, 1)' <=> Owns(q, 1)) /\ ~Owns(q, 2)' /\ ~Owns(q, 2)
        /\ Owns(q, 1) => Tokens(1)' = Tokens(1)
    <3>1. CASE h = 1
      BY <1>5, <2>3, <3>1 DEF Owns
    <3>2. CASE h = 2
      BY <1>5, <2>3, <3>2 DEF Owns
    <3> QED
      BY <2>3, <3>1, <3>2
  <2>5. LastTokens(q)' = LastTokens(q)
    BY <2>4 DEF LastTokens, Owns
  <2>6. Slack(q)' = Slack(q)
    BY <2>4 DEF Slack, Owns
  <2>7. known'[q] + Slack(q)' >= known[q] + Slack(q) /\ known'[q] <= known[q]
    <3>1. known[q] \in Nat /\ Slack(q) \in Nat
      BY TypesAre, LastIs DEF IInv
    <3> QED
      BY <2>1, <2>6, <3>1
  <2>8. (\A i \in 1 .. Depth : Owner(i) = q => Whole(i))
           => \A i \in 1 .. Depth' : Owner(i)' = q => Whole(i)'
    <3> SUFFICES ASSUME \A i \in 1 .. Depth : Owner(i) = q => Whole(i),
                        NEW i \in 1 .. Depth', Owner(i)' = q
                 PROVE  Whole(i)'
      OBVIOUS
    <3>1. i = 1 /\ h = 2 /\ 1 \in 1 .. Depth
      BY <1>5, <2>3
    <3> QED
      BY <2>3, <3>1
  <2>9. FewOK(q) /\ Types /\ Types'
    BY DEF HInv, IInv
  <2> QED
    BY <2>1, <2>5, <2>7, <2>8, <2>9, FewKept
<1>6. RefusedOK'
  BY <1>2 DEF HInv, RefusedOK
<1>7. ASSUME NEW q \in Requests PROVE FewOK(q)'
  BY <1>4, <1>5, <1>7
<1> QED
  BY <1>6, <1>7 DEF HInv

LEMMA FewKeeps == IInv /\ HInv /\ [Next]_vars => HInv'
<1> SUFFICES ASSUME IInv, HInv, [Next]_vars PROVE HInv'
  OBVIOUS
<1> IInv'
  BY NextKeeps
<1>1. CASE \E r \in Requests, p \in Prompts, hit \in 0 .. MaxLen : Arrive(r, p, hit)
  BY <1>1, FewArrive
<1>2. CASE \E r \in Requests, end \in 1 .. MaxLen : Schedule(r, end)
  BY <1>2, FewScheduled
<1>3. CASE \E r \in Requests : Leave(r)
  BY <1>3, FewLeaves
<1>4. CASE \E good \in 0 .. Drafts : RunStep(good)
  BY <1>4, FewRun
<1>5. CASE Output
  BY <1>5, FewOutput
<1>6. CASE UNCHANGED vars
  BY <1>6, FewStutters DEF vars, schedVars, workVars
<1> QED
  BY <1>1, <1>2, <1>3, <1>4, <1>5, <1>6 DEF Next

LEMMA InitFew == Init => HInv
<1> SUFFICES ASSUME Init PROVE HInv
  OBVIOUS
<1>1. RefusedOK
  <2>1. done = << >>
    BY DEF Init
  <2>2. Len(done) = 0
    BY <2>1
  <2> QED
    BY <2>2 DEF RefusedOK
<1>2. ASSUME NEW r \in Requests PROVE FewOK(r)
  <2>1. prompt[r] = 0
    BY <1>2 DEF Init
  <2> QED
    BY <2>1 DEF FewOK, Here
<1> QED
  BY <1>1, <1>2 DEF HInv

-----------------------------------------------------------------------------
(* The number of blocks.                                                   *)

\* Three and four blocks are no more than that.
LEMMA Three ==
    ASSUME NEW x, NEW y, NEW z
    PROVE  IsFiniteSet({x, y, z}) /\ Cardinality({x, y, z}) <= 3
<1>1. IsFiniteSet({}) /\ Cardinality({}) = 0
  BY FS_EmptySet
<1>2. IsFiniteSet({} \cup {x}) /\ Cardinality({} \cup {x}) \in 0 .. 1
  BY <1>1, FS_AddElement
<1>3. IsFiniteSet({x} \cup {y}) /\ Cardinality({x} \cup {y}) \in 0 .. 2
  <2>1. {} \cup {x} = {x}
    OBVIOUS
  <2>2. IsFiniteSet({x}) /\ Cardinality({x}) \in 0 .. 1
    BY <1>2, <2>1
  <2> QED
    BY <2>2, FS_AddElement
<1>4. IsFiniteSet({x, y} \cup {z}) /\ Cardinality({x, y} \cup {z}) \in 0 .. 3
  <2>1. {x} \cup {y} = {x, y}
    OBVIOUS
  <2>2. IsFiniteSet({x, y}) /\ Cardinality({x, y}) \in 0 .. 2
    BY <1>3, <2>1
  <2> QED
    BY <2>2, FS_AddElement
<1>5. {x, y} \cup {z} = {x, y, z}
  OBVIOUS
<1> QED
  BY <1>4, <1>5

LEMMA Four ==
    ASSUME NEW w, NEW x, NEW y, NEW z
    PROVE  IsFiniteSet({w, x, y, z}) /\ Cardinality({w, x, y, z}) <= 4
<1>1. PICK S : S = {x, y, z}
  OBVIOUS
<1>2. IsFiniteSet(S) /\ Cardinality(S) <= 3
  BY <1>1, Three
<1>3. Cardinality(S) \in Nat
  BY <1>2, FS_CardinalityType
<1>4. IsFiniteSet(S \cup {w}) /\ Cardinality(S \cup {w}) <= 4
  BY <1>2, <1>3, FS_AddElement
<1>5. S \cup {w} = {w, x, y, z}
  BY <1>1
<1> QED
  BY <1>4, <1>5

\* A set with one element, or two.
LEMMA AtLeast ==
    ASSUME NEW n \in Nat, NEW A, A \subseteq 1 .. n
    PROVE  /\ Cardinality(A) \in Nat
           /\ \A i \in A : Cardinality(A) >= 1
           /\ \A i, j \in A : i # j => Cardinality(A) >= 2
<1>1. IsFiniteSet(1 .. n)
  BY FS_Interval
<1>2. IsFiniteSet(A) /\ Cardinality(A) \in Nat
  BY <1>1, FS_Subset, FS_CardinalityType
<1>3. ASSUME NEW i \in A PROVE Cardinality(A) >= 1
  <2>1. Cardinality(A) # 0
    BY <1>2, <1>3, FS_EmptySet
  <2> QED
    BY <1>2, <2>1
<1>4. ASSUME NEW i \in A, NEW j \in A, i # j PROVE Cardinality(A) >= 2
  <2>1. IsFiniteSet(A \ {i}) /\ Cardinality(A \ {i}) = Cardinality(A) - 1
    BY <1>2, FS_RemoveElement
  <2>2. j \in A \ {i}
    BY <1>4
  <2>3. Cardinality(A \ {i}) # 0
    BY <2>1, <2>2, FS_EmptySet
  <2>4. Cardinality(A) >= 1
    BY <1>3, <1>4
  <2> QED
    BY <1>2, <2>1, <2>3, <2>4
<1> QED
  BY <1>2, <1>3, <1>4

LEMMA StepsAre ==
    ASSUME Types, Depth < 2, NEW r, NEW e, e.req = r, queue' = Append(queue, e), done' = done
    PROVE  Steps(r)' \in Nat /\ Steps(r)' >= 1 /\ (Owns(r, 1) => Steps(r)' >= 2)
<1>1. PICK d \in 0 .. 1, l \in 0 .. 1 : d = Len(done) /\ l = Len(queue) /\ d + l < 2
  <2>1. Len(queue) \in 0 .. 2 /\ Len(done) \in 0 .. 2 /\ Len(done) + Len(queue) < 2
    BY QueueIs DEF Depth
  <2> QED
    BY <2>1
<1>2. /\ DOMAIN queue' = 1 .. l + 1 /\ DOMAIN done' = 1 .. d
      /\ queue'[l + 1] = e /\ (l = 1 => queue'[1] = queue[1])
  <2>1. queue \in Seq(Entry) /\ done \in Seq(Outcome)
    BY DEF Types
  <2> QED
    BY <1>1, <2>1
<1>3. PICK A, B : /\ A = {i \in DOMAIN queue' : queue'[i].req = r}
                  /\ B = {i \in DOMAIN done' : done'[i].req = r}
  OBVIOUS
<1>4. Steps(r)' = Cardinality(A) + Cardinality(B)
  BY <1>3 DEF Steps
<1>5. A \subseteq 1 .. l + 1 /\ B \subseteq 1 .. d /\ l + 1 \in A /\ l + 1 \in Nat /\ d \in Nat
  BY <1>1, <1>2, <1>3
<1>6. /\ Cardinality(A) \in Nat /\ Cardinality(A) >= 1
      /\ (\A i, j \in A : i # j => Cardinality(A) >= 2)
  BY <1>5, AtLeast
<1>7. Cardinality(B) \in Nat /\ \A i \in B : Cardinality(B) >= 1
  BY <1>5, AtLeast
<1>8. ASSUME Owns(r, 1) PROVE Cardinality(A) + Cardinality(B) >= 2
  <2>1. d + l >= 1 /\ Owner(1) = r
    BY <1>1, <1>8 DEF Owns, Depth
  <2>2. CASE d = 1
    <3>1. 1 \in B
      BY <1>1, <1>2, <1>3, <2>1, <2>2 DEF Owner
    <3> QED
      BY <1>6, <1>7, <3>1
  <2>3. CASE d = 0
    <3>1. l = 1 /\ 1 - Len(done) = 1 /\ ~(1 <= Len(done))
      BY <1>1, <2>1, <2>3
    <3>2. 1 \in A /\ 2 \in A
      BY <1>1, <1>2, <1>3, <1>5, <2>1, <3>1 DEF Owner
    <3>3. Cardinality(A) >= 2
      BY <1>6, <3>2
    <3> QED
      BY <1>6, <1>7, <3>3
  <2> QED
    BY <1>1, <2>2, <2>3
<1> QED
  BY <1>4, <1>6, <1>7, <1>8

LEMMA FewBlocks ==
    ASSUME 2 * Drafts <= BlockSize, IInv, HInv,
           NEW r \in Requests, NEW end \in 1 .. MaxLen, Schedule(r, end)
    PROVE  /\ Cardinality(Held(r)') <= 2 + Steps(r)'
           /\ \A q \in Requests \ {r} : flight'[q] = flight[q]
<1>1. PICK e, s, lo, hi, c, mv, F, k : Planned(r, end, e, s, lo, hi, c, mv, F, k)
  BY ScheduleIs
<1>2. /\ Depth < 2 /\ e.req = r /\ k = Len(queue) + 1 /\ queue'[k] = e /\ e.t \in Tables
      /\ bt'[r] = e.t /\ done' = done /\ \A q \in Requests \ {r} : flight'[q] = flight[q]
  <2>1. Len(queue) + Len(done) < 2
    BY <1>1 DEF Planned
  <2>2. Len(queue) \in 0 .. 2 /\ Len(done) \in 0 .. 2
    BY QueueIs DEF IInv
  <2>3. Depth < 2
    BY <2>1, <2>2 DEF Depth
  <2> QED
    BY <1>1, <2>3 DEF Planned, NextOK, Placed, Untouched
<1>3. queue' = Append(queue, e)
  <2>1. PICK f : queue' = Append(queue, f)
    BY ScheduleIs
  <2>2. queue \in Seq(Entry)
    BY DEF IInv, Types
  <2>3. queue'[Len(queue) + 1] = f
    BY <2>1, <2>2
  <2> QED
    BY <1>2, <2>1, <2>3
<1>4. Steps(r)' \in Nat /\ Steps(r)' >= 1 /\ (Owns(r, 1) => Steps(r)' >= 2)
  BY <1>2, <1>3, StepsAre DEF IInv
<1>5. PICK t : t = e.t
  OBVIOUS
<1>6. PICK a, b, d \in Nat :
        \A j \in 1 .. Len(t) :
           t[j] # Null => j \in {a, b, d} \/ (Owns(r, 1) /\ j = Column(Committed(r)))
  <2>1. FewOK(r)
    BY DEF HInv
  <2>2. FewIn(r, e.t)
    BY <1>1, <2>1, NewColumns
  <2>3. FewIn(r, t)
    BY <1>5, <2>2
  <2> QED
    BY <2>3, Zenon DEF FewIn
<1>7. Held(r)' = {t[j] : j \in 1 .. Len(t)} \ {Null}
  <2>1. DOMAIN t = 1 .. Len(t)
    BY <1>2, <1>5 DEF Tables
  <2> QED
    BY <1>2, <1>5, <2>1 DEF Held, Range
<1>8. CASE Owns(r, 1)
  <2>1. PICK n : n = Column(Committed(r))
    OBVIOUS
  <2>2. Held(r)' \subseteq {t[n], t[a], t[b], t[d]}
    BY <1>6, <1>7, <2>1
  <2>3. IsFiniteSet({t[n], t[a], t[b], t[d]}) /\ Cardinality({t[n], t[a], t[b], t[d]}) <= 4
    BY Four
  <2>4. Cardinality({t[n], t[a], t[b], t[d]}) \in Nat
    BY <2>3, FS_CardinalityType
  <2>5. /\ IsFiniteSet(Held(r)')
        /\ Cardinality(Held(r)') <= Cardinality({t[n], t[a], t[b], t[d]})
    BY <2>2, <2>3, FS_Subset
  <2>6. Cardinality(Held(r)') \in Nat
    BY <2>5, FS_CardinalityType
  <2> QED
    BY <1>2, <1>4, <1>8, <2>3, <2>4, <2>5, <2>6
<1>9. CASE ~Owns(r, 1)
  <2>1. Held(r)' \subseteq {t[a], t[b], t[d]}
    BY <1>6, <1>7, <1>9
  <2>2. IsFiniteSet({t[a], t[b], t[d]}) /\ Cardinality({t[a], t[b], t[d]}) <= 3
    BY Three
  <2>3. Cardinality({t[a], t[b], t[d]}) \in Nat
    BY <2>2, FS_CardinalityType
  <2>4. /\ IsFiniteSet(Held(r)')
        /\ Cardinality(Held(r)') <= Cardinality({t[a], t[b], t[d]})
    BY <2>1, <2>2, FS_Subset
  <2>5. Cardinality(Held(r)') \in Nat
    BY <2>4, FS_CardinalityType
  <2> QED
    BY <1>2, <1>4, <2>2, <2>3, <2>4, <2>5
<1> QED
  BY <1>8, <1>9

LEMMA FewAfter ==
    ASSUME 2 * Drafts <= BlockSize, IInv, HInv, [Next]_vars,
           NEW r \in Requests, flight'[r] > flight[r]
    PROVE  Cardinality(Held(r)') <= 2 + Steps(r)'
<1>1. flight \in [Requests -> 0 .. MaxLen] /\ flight[r] \in Nat
  BY TypesAre DEF IInv, Types
<1>2. flight'[r] # flight[r]
  BY <1>1
<1>3. CASE \E q \in Requests, p \in Prompts, hit \in 0 .. MaxLen : Arrive(q, p, hit)
  <2>1. PICK q \in Requests : flight' = [flight EXCEPT ![q] = 0]
    BY <1>3 DEF Arrive
  <2>2. flight'[r] = 0
    BY <1>1, <1>2, <2>1
  <2> QED
    BY <1>1, <2>2
<1>4. CASE \E q \in Requests, end \in 1 .. MaxLen : Schedule(q, end)
  <2>1. PICK q \in Requests, end \in 1 .. MaxLen : Schedule(q, end)
    BY <1>4
  <2>2. /\ Cardinality(Held(q)') <= 2 + Steps(q)'
        /\ \A o \in Requests \ {q} : flight'[o] = flight[o]
    BY <2>1, FewBlocks
  <2>3. q = r
    BY <1>2, <2>2
  <2> QED
    BY <2>2, <2>3
<1>5. CASE \E q \in Requests : Leave(q)
  BY <1>2, <1>5 DEF Leave
<1>6. CASE \E good \in 0 .. Drafts : RunStep(good)
  BY <1>2, <1>6 DEF RunStep, schedVars
<1>7. CASE Output
  <2>1. PICK d : d = Head(done)
    OBVIOUS
  <2>2. done # << >> /\ d.n \in Nat
    <3>1. done # << >>
      BY <1>7 DEF Output
    <3> QED
      BY <2>1, <3>1, HeadIs DEF IInv
  <2>3. flight' = [flight EXCEPT ![d.req] = @ - d.n] \/ flight' = flight
    BY <1>7, <2>1 DEF Output
  <2>4. flight'[r] = flight[r] - d.n
    BY <1>1, <1>2, <2>3
  <2> QED
    BY <1>1, <2>2, <2>4
<1>8. CASE UNCHANGED vars
  BY <1>2, <1>8 DEF vars, schedVars
<1> QED
  BY <1>3, <1>4, <1>5, <1>6, <1>7, <1>8 DEF Next

(* A request never holds more blocks, when a step of it has just been      *)
(* scheduled, than the state of its last committed token, one for each     *)
(* step in flight, and a stash: retirement keeps up with a prompt of any   *)
(* length and with any run of drafts, if what two steps may refuse fits in *)
(* a block.                                                                *)
THEOREM FewAreHeld == 2 * Drafts <= BlockSize => (Spec => HoldsFew)
<1> SUFFICES ASSUME 2 * Drafts <= BlockSize PROVE Spec => HoldsFew
  OBVIOUS
<1>1. Init => HInv
  BY InitFew
<1>2. IInv /\ HInv /\ [Next]_vars => HInv'
  BY FewKeeps
<1>3. IInv /\ HInv /\ [Next]_vars
      => [\A r \in Requests : flight'[r] > flight[r] => Cardinality(Held(r)') <= 2 + Steps(r)']_vars
  <2> SUFFICES ASSUME IInv, HInv, [Next]_vars
               PROVE  \A r \in Requests :
                         flight'[r] > flight[r] => Cardinality(Held(r)') <= 2 + Steps(r)'
    OBVIOUS
  <2> QED
    BY FewAfter
<1> QED
  BY <1>1, <1>2, <1>3, SpecIInv, PTL DEF Spec, HoldsFew

=============================================================================
