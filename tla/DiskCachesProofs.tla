-------------------------- MODULE DiskCachesProofs --------------------------
(***************************************************************************)
(* Proofs about the programs around the caches on disk: the build-once     *)
(* shared objects (HipSoCache), the disk tier's reaper (KvReap) and the    *)
(* pruning of the launchers' trees (CacheReap), for any number of boots,   *)
(* keys, parts, kills, blocks and trees, and any thresholds.               *)
(***************************************************************************)
EXTENDS HipSoCache, KvReap, CacheReap, FiniteSetTheorems, TLAPS

-----------------------------------------------------------------------------
(* The shared objects, when no two boots build the same key.                *)

\* Each boot has a key of its own.
Apart == \A b, c \in Boots : KeyOf[b] = KeyOf[c] => b = c

\* A published object is whole, and is not the temporary file of any key.
SoOK(k) == so[k] # NoFile => content[so[k]] = Whole /\ \A j \in Keys : tmp[j] # so[k]

\* Two keys have different temporary files.
TmpOK(k) == \A j \in Keys : tmp[k] # NoFile /\ tmp[j] = tmp[k] => j = k

\* What a boot has open, what it has copied so far and what its container has.
BootOK(b) ==
    /\ pc[b] = "reuse" => file[b] = so[KeyOf[b]] /\ 1..(next[b] - 1) \subseteq out[b]
    /\ pc[b] = "copy" => file[b] = tmp[KeyOf[b]] /\ 1..(next[b] - 1) \subseteq content[file[b]]
    /\ pc[b] = "publish" => tmp[KeyOf[b]] # NoFile /\ content[tmp[KeyOf[b]]] = Whole
    /\ pc[b] \in {"copy", "publish", "done"} => out[b] = Whole

SoInv ==
    /\ TypeOK
    /\ \A k \in Keys : SoOK(k) /\ TmpOK(k)
    /\ \A b \in Boots : BootOK(b)

USE SoAssumption

LEMMA InitSoInv == Init => SoInv
<1> SUFFICES ASSUME Init PROVE SoInv
  OBVIOUS
<1>1. TypeOK
  BY DEF Init, TypeOK, Paths
<1> QED
  BY <1>1 DEF Init, SoInv, SoOK, TmpOK, BootOK

\* The types are preserved.
LEMMA SoTypesStep == TypeOK /\ [Next]_vars => TypeOK'
<1> SUFFICES ASSUME TypeOK, [Next]_vars PROVE TypeOK'
  OBVIOUS
<1> USE DEF TypeOK, Paths, Whole, Goto, Open, Close
<1>1. ASSUME NEW b \in Boots, Begin(b) PROVE TypeOK'
  BY <1>1 DEF Begin
<1>2. ASSUME NEW b \in Boots, Reuse(b) PROVE TypeOK'
  BY <1>2 DEF Reuse
<1>3. ASSUME NEW b \in Boots, EndReuse(b) PROVE TypeOK'
  BY <1>3 DEF EndReuse
<1>4. ASSUME NEW b \in Boots, Build(b) PROVE TypeOK'
  BY <1>4 DEF Build, TmpFiles, Free, Opened
<1>5. ASSUME NEW b \in Boots, Copy(b) PROVE TypeOK'
  BY <1>5 DEF Copy
<1>6. ASSUME NEW b \in Boots, EndCopy(b) PROVE TypeOK'
  BY <1>6 DEF EndCopy
<1>7. ASSUME NEW b \in Boots, Publish(b) PROVE TypeOK'
  BY <1>7 DEF Publish
<1>8. ASSUME NEW b \in Boots, Crash(b) PROVE TypeOK'
  BY <1>8 DEF Crash
<1>9. CASE UNCHANGED vars
  BY <1>9 DEF vars, boot
<1> QED
  BY <1>1, <1>2, <1>3, <1>4, <1>5, <1>6, <1>7, <1>8, <1>9 DEF Next, Script

\* One step preserves the rest.
LEMMA SoInvStep == ASSUME Apart, SoInv, [Next]_vars PROVE SoInv'
<1>0. TypeOK /\ TypeOK'
  BY SoTypesStep DEF SoInv
<1> USE DEF Whole, Goto, Open, Close
<1>1. ASSUME NEW b \in Boots, Begin(b)
      PROVE  (\A k \in Keys : (SoOK(k) /\ TmpOK(k))') /\ \A c \in Boots : BootOK(c)'
  BY <1>0, <1>1 DEF Begin, SoInv, SoOK, TmpOK, BootOK, TypeOK, Paths
<1>2. ASSUME NEW b \in Boots, Reuse(b)
      PROVE  (\A k \in Keys : (SoOK(k) /\ TmpOK(k))') /\ \A c \in Boots : BootOK(c)'
  <2>1. \A k \in Keys : (SoOK(k) /\ TmpOK(k))'
    BY <1>2 DEF Reuse, SoInv, SoOK, TmpOK
  <2>2. content[file[b]] = Whole
    BY <1>0, <1>2 DEF Reuse, SoInv, SoOK, BootOK, TypeOK, Paths
  <2>3. BootOK(b)'
    BY <1>0, <1>2, <2>2 DEF Reuse, SoInv, BootOK, TypeOK, Paths
  <2>4. ASSUME NEW c \in Boots, c # b PROVE BootOK(c)'
    BY <1>0, <1>2, <2>4 DEF Reuse, SoInv, BootOK, TypeOK, Paths
  <2> QED
    BY <2>1, <2>3, <2>4
<1>3. ASSUME NEW b \in Boots, EndReuse(b)
      PROVE  (\A k \in Keys : (SoOK(k) /\ TmpOK(k))') /\ \A c \in Boots : BootOK(c)'
  <2>1. \A k \in Keys : (SoOK(k) /\ TmpOK(k))'
    BY <1>3 DEF EndReuse, SoInv, SoOK, TmpOK
  <2>a. next[b] = Parts + 1 /\ 1..(next[b] - 1) \subseteq out[b] /\ out[b] \subseteq Whole
    BY <1>0, <1>3 DEF EndReuse, SoInv, BootOK, TypeOK
  <2>b. next[b] - 1 = Parts
    BY <2>a
  <2>2. out[b] = Whole
    BY <2>a, <2>b
  <2>3. ASSUME NEW c \in Boots PROVE BootOK(c)'
    BY <1>0, <1>3, <2>2 DEF EndReuse, SoInv, BootOK, TypeOK, Paths
  <2> QED
    BY <2>1, <2>3
<1>4. ASSUME NEW b \in Boots, Build(b)
      PROVE  (\A k \in Keys : (SoOK(k) /\ TmpOK(k))') /\ \A c \in Boots : BootOK(c)'
  <2>1. PICK i \in TmpFiles(b) :
           /\ Opened(b, i)
           /\ content' = [content EXCEPT ![i] = {}]
           /\ Open(b, i)
    BY <1>4 DEF Build
  <2>2. i \in Inodes
    BY <1>0, <2>1 DEF TmpFiles, Free, TypeOK, Paths
  <2>3. \A k \in Keys : so[k] # i /\ (tmp[k] = i => k = KeyOf[b])
    BY <1>0, <2>1 DEF TmpFiles, Free, SoInv, SoOK, TmpOK, TypeOK, Paths
  <2>4. \A c \in Boots : pc[c] \in {"copy", "publish"} /\ tmp[KeyOf[c]] = i => c = b
    BY <2>3 DEF Apart
  <2>5. \A k \in Keys : (SoOK(k) /\ TmpOK(k))'
    BY <1>0, <2>1, <2>2, <2>3 DEF Opened, SoInv, SoOK, TmpOK, TypeOK, Paths
  <2>6. BootOK(b)'
    BY <1>0, <1>4, <2>1, <2>2 DEF Build, Opened, BootOK, TypeOK, Paths
  <2>7. ASSUME NEW c \in Boots, c # b PROVE BootOK(c)'
    <3>1. KeyOf[c] # KeyOf[b] /\ KeyOf[c] \in Keys
      BY <2>7 DEF Apart
    <3>2. so' = so /\ tmp'[KeyOf[c]] = tmp[KeyOf[c]]
      BY <1>0, <2>1, <3>1 DEF Opened, TypeOK, Paths
    <3>3. pc'[c] = pc[c] /\ file'[c] = file[c] /\ next'[c] = next[c] /\ out'[c] = out[c]
      BY <1>0, <1>4, <2>1, <2>7 DEF Build, TypeOK
    <3>4. tmp[KeyOf[c]] # i /\ \A j \in Inodes \ {i} : content'[j] = content[j]
      BY <1>0, <2>1, <2>3, <3>1 DEF TypeOK
    <3>5. BootOK(c)
      BY DEF SoInv
    <3> QED
      BY <1>0, <3>1, <3>2, <3>3, <3>4, <3>5 DEF BootOK, TypeOK, Paths
  <2> QED
    BY <2>5, <2>6, <2>7
<1>5. ASSUME NEW b \in Boots, Copy(b)
      PROVE  (\A k \in Keys : (SoOK(k) /\ TmpOK(k))') /\ \A c \in Boots : BootOK(c)'
  <2>1. file[b] = tmp[KeyOf[b]] /\ file[b] \in Inodes
    BY <1>0, <1>5 DEF Copy, SoInv, BootOK, TypeOK, Paths
  <2>2. content' = [content EXCEPT ![file[b]] = @ \cup {next[b]}] /\ next[b] \in 1..Parts
    BY <1>0, <1>5 DEF Copy, TypeOK
  <2>3. \A k \in Keys : so[k] # file[b] /\ (tmp[k] = file[b] => k = KeyOf[b])
    BY <1>0, <2>1 DEF SoInv, SoOK, TmpOK
  <2>4. \A k \in Keys : (SoOK(k) /\ TmpOK(k))'
    BY <1>0, <1>5, <2>1, <2>2, <2>3 DEF Copy, SoInv, SoOK, TmpOK, TypeOK, Paths
  <2>5. BootOK(b)'
    BY <1>0, <1>5, <2>1, <2>2 DEF Copy, SoInv, BootOK, TypeOK
  <2>6. ASSUME NEW c \in Boots, c # b PROVE BootOK(c)'
    <3>1. tmp[KeyOf[c]] # file[b] /\ KeyOf[c] \in Keys
      BY <2>3, <2>6 DEF Apart
    <3>2. \A j \in Inodes \ {file[b]} : content'[j] = content[j]
      BY <1>0, <2>2 DEF TypeOK
    <3> QED
      BY <1>0, <1>5, <2>6, <3>1, <3>2 DEF Copy, SoInv, BootOK, TypeOK, Paths
  <2> QED
    BY <2>4, <2>5, <2>6
<1>6. ASSUME NEW b \in Boots, EndCopy(b)
      PROVE  (\A k \in Keys : (SoOK(k) /\ TmpOK(k))') /\ \A c \in Boots : BootOK(c)'
  <2>1. \A k \in Keys : (SoOK(k) /\ TmpOK(k))'
    BY <1>6 DEF EndCopy, SoInv, SoOK, TmpOK
  <2>a. file[b] = tmp[KeyOf[b]] /\ file[b] \in Inodes
    BY <1>0, <1>6 DEF EndCopy, SoInv, BootOK, TypeOK
  <2>b. /\ next[b] = Parts + 1 /\ 1..(next[b] - 1) \subseteq content[file[b]]
        /\ content[file[b]] \subseteq Whole
    BY <1>0, <1>6, <2>a DEF EndCopy, SoInv, BootOK, TypeOK
  <2>c. next[b] - 1 = Parts
    BY <2>b
  <2>2. tmp[KeyOf[b]] \in Inodes /\ content[tmp[KeyOf[b]]] = Whole
    BY <2>a, <2>b, <2>c
  <2>3. ASSUME NEW c \in Boots PROVE BootOK(c)'
    BY <1>0, <1>6, <2>2 DEF EndCopy, SoInv, BootOK, TypeOK, Paths
  <2> QED
    BY <2>1, <2>3
<1>7. ASSUME NEW b \in Boots, Publish(b)
      PROVE  (\A k \in Keys : (SoOK(k) /\ TmpOK(k))') /\ \A c \in Boots : BootOK(c)'
  <2>1. tmp[KeyOf[b]] # NoFile /\ content[tmp[KeyOf[b]]] = Whole /\ out[b] = Whole /\ KeyOf[b] \in Keys
    BY <1>7 DEF Publish, SoInv, BootOK
  <2>2. /\ so' = [so EXCEPT ![KeyOf[b]] = tmp[KeyOf[b]]]
        /\ tmp' = [tmp EXCEPT ![KeyOf[b]] = NoFile]
        /\ pc' = [pc EXCEPT ![b] = "done"]
        /\ UNCHANGED <<content, file, next, out>>
    BY <1>7, <2>1 DEF Publish
  <2>3. \A k \in Keys : (SoOK(k) /\ TmpOK(k))'
    BY <1>0, <2>1, <2>2 DEF SoInv, SoOK, TmpOK, TypeOK, Paths
  <2>4. BootOK(b)'
    BY <1>0, <2>1, <2>2 DEF BootOK, TypeOK
  <2>5. ASSUME NEW c \in Boots, c # b PROVE BootOK(c)'
    <3>1. KeyOf[c] # KeyOf[b] /\ KeyOf[c] \in Keys
      BY <2>5 DEF Apart
    <3> QED
      BY <1>0, <2>2, <2>5, <3>1 DEF SoInv, BootOK, TypeOK, Paths
  <2> QED
    BY <2>3, <2>4, <2>5
<1>8. ASSUME NEW b \in Boots, Crash(b)
      PROVE  (\A k \in Keys : (SoOK(k) /\ TmpOK(k))') /\ \A c \in Boots : BootOK(c)'
  BY <1>0, <1>8 DEF Crash, SoInv, SoOK, TmpOK, BootOK, TypeOK, Paths
<1>9. CASE UNCHANGED vars
  BY <1>9, <1>0 DEF vars, boot, SoInv, SoOK, TmpOK, BootOK
<1> QED
  BY <1>0, <1>1, <1>2, <1>3, <1>4, <1>5, <1>6, <1>7, <1>8, <1>9 DEF Next, Script, SoInv

LEMMA SoInvariance == Apart => (Spec => []SoInv)
<1> SUFFICES ASSUME Apart PROVE Spec => []SoInv
  OBVIOUS
<1>1. SoInv /\ [Next]_vars => SoInv'
  BY SoInvStep
<1> QED
  BY InitSoInv, <1>1, PTL DEF Spec

\* Types, and a file is open exactly while a cp runs: for any keys.
THEOREM TypeCorrect == Spec => []TypeOK
<1>1. Init => TypeOK
  BY InitSoInv DEF SoInv
<1> QED
  BY <1>1, SoTypesStep, PTL DEF Spec

\* What the cache publishes is whole, wherever boots are killed.
THEOREM PublishedIsWhole == Apart => (Spec => []PublishedWhole)
<1> SUFFICES ASSUME Apart PROVE Spec => []PublishedWhole
  OBVIOUS
<1>1. SoInv => PublishedWhole
  BY DEF SoInv, SoOK, PublishedWhole
<1> QED
  BY <1>1, SoInvariance, PTL

\* A boot that ends has the whole object.
THEOREM BootIsServed == Apart => (Spec => []BootHasAll)
<1> SUFFICES ASSUME Apart PROVE Spec => []BootHasAll
  OBVIOUS
<1>1. SoInv => BootHasAll
  BY DEF SoInv, BootOK, BootHasAll
<1> QED
  BY <1>1, SoInvariance, PTL

-----------------------------------------------------------------------------
(* The reaper.  As long as the engine has deleted no file itself, what a    *)
(* stage has listed is still on the volume, and only older.                 *)

\* ReapTypes of the variables the invariant speaks of, under the settings.
ReapTypes ==
    /\ ReapSettings
    /\ present \in SUBSET Blocks
    /\ age \in [Blocks -> Ages]
    /\ stage \in {"off", "A", "B", "C", "end"}
    /\ order \in [Blocks -> Ages]
    /\ stage = "A" => MaxAge > 0
    /\ removed \in Nat
    /\ damaged \in Nat

\* The least age a stage lists, less one.
Floor == CASE stage = "A" -> MaxAge [] stage = "B" -> MinAge [] OTHER -> SpareAge

\* What is listed is on the volume, and old enough.
ListedOK == list \subseteq present /\ \A b \in list : age[b] > Floor

\* The listing's order is still an order of the ages.
OrderOK == \A b, c \in list : order[c] <= order[b] => age[c] <= age[b]

\* A capacity stage has listed, or passed over as younger, all there is.
RestYounger == stage \in {"B", "C"} => \A b \in list, c \in present \ list : age[c] <= age[b]

ReapInv == ReapTypes /\ (damaged = 0 /\ stage \in {"A", "B", "C"} => ListedOK /\ OrderOK /\ RestYounger)

USE DEF ReapSettings

LEMMA InitReapInv == ReapSettings /\ ReapInit => ReapInv
  BY DEF ReapInit, ReapInv, ReapTypes, Ages

\* A stage that begins has listed what find sees.
LEMMA EnterOK ==
    ASSUME ReapTypes, NEW s \in {"A", "B", "C", "end"}, Enter(s), s = "A" => MaxAge > 0,
           UNCHANGED <<present, age>>, removed' \in Nat, UNCHANGED damaged
    PROVE  ReapInv'
<1>1. ReapTypes'
  BY DEF ReapTypes, Enter
<1>2. CASE s = "A"
  BY <1>1, <1>2 DEF Enter, Listed, Older, ReapInv, ReapTypes, Ages, ListedOK, OrderOK, RestYounger, Floor
<1>3. CASE s = "B"
  BY <1>1, <1>3 DEF Enter, Listed, Older, ReapInv, ReapTypes, Ages, ListedOK, OrderOK, RestYounger, Floor
<1>4. CASE s = "C"
  BY <1>1, <1>4 DEF Enter, Listed, Older, ReapInv, ReapTypes, Ages, ListedOK, OrderOK, RestYounger, Floor
<1>5. CASE s = "end"
  BY <1>1, <1>5 DEF Enter, ReapInv
<1> QED
  BY <1>2, <1>3, <1>4, <1>5

\* The loop takes a block: the listing loses it, and the volume too.
LEMMA TakeOK == ASSUME ReapInv, NEW b \in list, Take(b) PROVE ReapInv'
<1> USE DEF ReapInv
<1>0. ReapTypes' /\ damaged' = damaged
  BY DEF Take, ReapTypes
<1> SUFFICES ASSUME damaged = 0 PROVE ReapInv'
  BY <1>0
<1>1. /\ stage \in {"A", "B", "C"} /\ stage' = stage
      /\ list' \subseteq list \ {b}
      /\ UNCHANGED <<age, order, damaged>>
  BY DEF Take
<1>2. b \in present /\ present' = present \ {b} /\ removed' = removed + 1
  BY <1>1 DEF Take, ListedOK
<1>3. list' = {} \/ list' = list \ {b}
  BY DEF Take
<1>5. ListedOK' /\ OrderOK'
  BY <1>1, <1>2 DEF ListedOK, OrderOK, Floor
<1>6. RestYounger'
  BY <1>1, <1>2, <1>3 DEF RestYounger
<1> QED
  BY <1>0, <1>5, <1>6

\* A stored block is the youngest there is.
LEMMA StoreOK == ASSUME ReapInv, NEW b \in Blocks, Store(b) PROVE ReapInv'
<1> USE DEF ReapInv
<1>1. /\ b \notin present /\ present' = present \cup {b}
      /\ age' = [age EXCEPT ![b] = 0]
      /\ UNCHANGED <<stage, list, order, removed, damaged>>
  BY DEF Store, run
<1>2. ReapTypes'
  BY <1>1 DEF ReapTypes, Ages
<1>3. ASSUME damaged = 0, stage \in {"A", "B", "C"} PROVE ListedOK' /\ OrderOK' /\ RestYounger'
  <2>1. b \notin list /\ \A c \in list : age'[c] = age[c] /\ age[c] \in Nat /\ c \in Blocks
    BY <1>1, <1>3 DEF ListedOK, ReapTypes, Ages
  <2>2. ListedOK' /\ OrderOK'
    BY <1>1, <1>3, <2>1 DEF ListedOK, OrderOK, Floor
  <2>3. age'[b] = 0
    BY <1>1 DEF ReapTypes
  <2>4. \A c \in present : age'[c] = age[c]
    BY <1>1 DEF ReapTypes
  <2>5. RestYounger'
    BY <1>1, <1>3, <2>1, <2>3, <2>4 DEF RestYounger
  <2> QED
    BY <2>2, <2>5
<1> QED
  BY <1>1, <1>2, <1>3

\* Time passes for every block alike.
LEMMA TickOK == ASSUME ReapInv, Tick PROVE ReapInv'
<1> USE DEF ReapInv
<1>1. /\ age' = [b \in Blocks |-> IF age[b] < Ancient THEN age[b] + 1 ELSE age[b]]
      /\ UNCHANGED <<present, stage, list, order, removed, damaged>>
  BY DEF Tick, run
<1>2. Ancient \in Nat /\ MaxAge \in Nat /\ MinAge \in Nat /\ SpareAge \in Nat
  BY DEF ReapTypes
<1>3. ReapTypes'
  BY <1>1, <1>2 DEF ReapTypes, Ages
<1>4. ASSUME damaged = 0, stage \in {"A", "B", "C"} PROVE ListedOK' /\ OrderOK' /\ RestYounger'
  <2>1. \A b \in present : b \in Blocks /\ age[b] \in Nat /\ age'[b] \in Nat /\ age[b] <= age'[b]
    BY <1>1, <1>2 DEF ReapTypes, Ages
  <2>2. \A b, c \in present : age[c] <= age[b] => age'[c] <= age'[b]
    BY <1>1, <1>2 DEF ReapTypes, Ages
  <2>3. ListedOK'
    BY <1>1, <1>2, <1>4, <2>1 DEF ListedOK, Floor
  <2>4. OrderOK'
    BY <1>1, <1>4, <2>2 DEF ListedOK, OrderOK
  <2>5. RestYounger'
    BY <1>1, <1>4, <2>2 DEF ListedOK, RestYounger
  <2> QED
    BY <2>3, <2>4, <2>5
<1> QED
  BY <1>1, <1>3, <1>4

LEMMA ReapInvStep == ASSUME ReapInv, [ReapNext]_reapVars PROVE ReapInv'
<1>1. ReapTypes
  BY DEF ReapInv
<1>2. CASE Start
  <2>1. PICK s \in {"A", "B", "C", "end"} : Enter(s) /\ (s = "A" => MaxAge > 0)
    BY <1>2 DEF Start, AfterA
  <2> QED
    BY <1>1, <1>2, <2>1, EnterOK DEF Start
<1>3. CASE Cap \/ EndC
  BY <1>1, <1>3, EnterOK DEF Cap, EndC, ReapTypes
<1>4. CASE EndA
  <2>1. PICK s \in {"A", "B", "C", "end"} : Enter(s) /\ (s = "A" => MaxAge > 0)
    BY <1>4 DEF EndA, AfterA
  <2> QED
    BY <1>1, <1>4, <2>1, EnterOK DEF EndA, ReapTypes
<1>5. CASE EndB
  <2>1. PICK s \in {"A", "B", "C", "end"} : Enter(s) /\ (s = "A" => MaxAge > 0)
    BY <1>5 DEF EndB, AfterB
  <2> QED
    BY <1>1, <1>5, <2>1, EnterOK DEF EndB, ReapTypes
<1>6. CASE End
  BY <1>6 DEF End, ReapInv, ReapTypes
<1>7. ASSUME NEW b \in Blocks, Damage(b) PROVE ReapInv'
  <2>1. /\ present' = present \ {b} /\ damaged' = damaged + 1
        /\ UNCHANGED <<age, stage, order, removed>>
    BY <1>7 DEF Damage, run
  <2>2. ReapTypes' /\ damaged' # 0
    BY <1>1, <2>1 DEF ReapTypes
  <2> QED
    BY <2>2 DEF ReapInv
<1>8. CASE UNCHANGED reapVars
  BY <1>8 DEF reapVars, run, ReapInv, ReapTypes, ListedOK, OrderOK, RestYounger, Floor
<1> QED
  BY <1>2, <1>3, <1>4, <1>5, <1>6, <1>7, <1>8, TakeOK, StoreOK, TickOK DEF ReapNext, Reaper

LEMMA ReapInvariance == ReapSettings => (ReapSpec => []ReapInv)
<1> SUFFICES ASSUME ReapSettings PROVE ReapSpec => []ReapInv
  OBVIOUS
<1>1. ReapInv /\ [ReapNext]_reapVars => ReapInv'
  BY ReapInvStep
<1> QED
  BY InitReapInv, <1>1, PTL DEF ReapSpec

\* A step that reaps a block takes it from the listing.
LEMMA ReapedIsTaken ==
    ASSUME ReapInv, [ReapNext]_reapVars, NEW b \in Blocks, Reaped(b)
    PROVE  b \in list /\ Take(b) /\ damaged = 0
<1>1. b \in present /\ b \notin present' /\ removed' > removed
  BY DEF Reaped
<1>2. removed \in Nat
  BY DEF ReapInv, ReapTypes
<1>3. present' # present /\ removed' # removed
  BY <1>1, <1>2
<1>a. ~(UNCHANGED reapVars)
  BY <1>3 DEF reapVars
<1>b. ~Start /\ ~Cap /\ ~EndA /\ ~EndB /\ ~EndC /\ ~End
  BY <1>3 DEF Start, Cap, EndA, EndB, EndC, End
<1>c. ~Tick /\ \A c \in Blocks : ~Store(c) /\ ~Damage(c)
  BY <1>3 DEF Tick, Store, Damage, run
<1>4. PICK c \in list : Take(c)
  BY <1>a, <1>b, <1>c DEF ReapNext, Reaper
<1>5. b = c
  BY <1>1, <1>4 DEF Take
<1> QED
  BY <1>4, <1>5 DEF Reaped

\* No block below its stage's floor is deleted, however the run is interleaved
\* with stores and with time passing.
THEOREM FloorIsHeld == ReapSettings => (ReapSpec => FloorHeld)
<1> SUFFICES ASSUME ReapSettings PROVE ReapSpec => FloorHeld
  OBVIOUS
<1>1. ASSUME ReapInv, [ReapNext]_reapVars, NEW b \in Blocks, Reaped(b)
      PROVE  age[b] > (IF stage = "C" THEN SpareAge ELSE MinAge)
  <2>1. b \in list /\ stage \in {"A", "B", "C"} /\ damaged = 0
    BY <1>1, ReapedIsTaken DEF Take
  <2>2. age[b] > Floor /\ age[b] \in Nat
    BY <1>1, <2>1 DEF ReapInv, ListedOK, ReapTypes, Ages
  <2>3. stage = "A" => MaxAge > MinAge
    BY <1>1, <2>1 DEF ReapInv, ReapTypes
  <2> QED
    BY <2>1, <2>2, <2>3 DEF Floor
<1>2. ReapInv /\ [ReapNext]_reapVars =>
        [\A b \in Blocks : Reaped(b) => age[b] > (IF stage = "C" THEN SpareAge ELSE MinAge)]_reapVars
  BY <1>1
<1> QED
  BY <1>2, ReapInvariance, PTL DEF ReapSpec, FloorHeld

\* The capacity stages evict in insertion order over all of the volume.
THEOREM OldestGoFirst == ReapSettings => (ReapSpec => OldestEvictedFirst)
<1> SUFFICES ASSUME ReapSettings PROVE ReapSpec => OldestEvictedFirst
  OBVIOUS
<1>1. ASSUME ReapInv, [ReapNext]_reapVars, NEW b \in Blocks, Reaped(b), stage # "A", NEW c \in present
      PROVE  age[c] <= age[b]
  <2>1. b \in list /\ Take(b) /\ stage \in {"B", "C"} /\ damaged = 0
    BY <1>1, ReapedIsTaken DEF Take
  <2>2. CASE c \in list
    BY <1>1, <2>1, <2>2 DEF Take, First, ReapInv, OrderOK
  <2>3. CASE c \notin list
    BY <1>1, <2>1, <2>3 DEF ReapInv, RestYounger
  <2> QED
    BY <2>2, <2>3
<1>2. ReapInv /\ [ReapNext]_reapVars =>
        [\A b \in Blocks : Reaped(b) /\ stage # "A" => \A c \in present : age[c] <= age[b]]_reapVars
  BY <1>1
<1> QED
  BY <1>2, ReapInvariance, PTL DEF ReapSpec, OldestEvictedFirst

\* The settings under which it stops near the target: the emergency mark, if
\* there is one, is not below it.
MarkAboveTarget == Emergency = 0 \/ Target <= Emergency

\* While a capacity stage has blocks to take, the volume was above the target
\* at its last reading, and each deletion since then is in the count; and in
\* Stage C it was above the mark before the run's deletions.
NeedOK ==
    damaged = 0 =>
        /\ stage = "B" =>
             /\ aged <= removed
             /\ list # {} => Used + ((removed - aged) % Batch) > Target
        /\ stage = "C" =>
             /\ Used + removed > Emergency
             /\ list # {} => Used + (removed % Batch) > Target

NeedInv == ReapInv /\ IsFiniteSet(present) /\ aged \in Nat /\ NeedOK

\* A count and the one after it, modulo a batch.
LEMMA ModuloIs ==
    ASSUME NEW m \in Nat, m > 0, NEW q \in Nat, NEW r \in 0..(m - 1), NEW y \in Nat, y = q * m + r
    PROVE  y % m = r
  BY SMT

LEMMA NextModulo ==
    ASSUME NEW x \in Nat, NEW m \in Nat \ {0}
    PROVE  /\ x % m \in Nat /\ x % m <= m - 1
           /\ (x + 1) % m = 0 \/ (x + 1) % m = (x % m) + 1
<1>1. m \in Nat /\ m > 0
  OBVIOUS
<1>2. x % m \in Nat /\ x % m <= m - 1
  BY <1>1, SMT
<1>3. x \div m \in Nat
  BY <1>1, SMT
<1>4. x = (x \div m) * m + (x % m)
  BY <1>1, SMT
<1> DEFINE q == x \div m
           r == x % m
<1>5. q \in Nat /\ r \in Nat /\ r <= m - 1 /\ x = q * m + r
  BY <1>2, <1>3, <1>4
<1> HIDE DEF q, r
<1>6. CASE r < m - 1
  <2>1. x + 1 = q * m + (r + 1) /\ r + 1 \in 0..(m - 1) /\ x + 1 \in Nat
    BY <1>1, <1>5, <1>6
  <2>2. (x + 1) % m = r + 1
    BY <1>1, <1>5, <2>1, ModuloIs
  <2> QED
    BY <1>2, <2>2 DEF r
<1>7. CASE r = m - 1
  <2>1. x + 1 = (q + 1) * m + 0 /\ 0 \in 0..(m - 1) /\ q + 1 \in Nat /\ x + 1 \in Nat
    BY <1>1, <1>5, <1>7
  <2>2. (x + 1) % m = 0
    <3>1. \A p, y \in Nat : y = p * m + 0 => y % m = 0
      BY <1>1, <2>1, ModuloIs
    <3> QED
      BY <2>1, <3>1
  <2> QED
    BY <1>2, <2>2
<1> QED
  BY <1>1, <1>5, <1>6, <1>7

LEMMA ZeroModulo == ASSUME NEW m \in Nat \ {0} PROVE 0 % m = 0
  BY SMT

LEMMA UsedIsNat == ASSUME IsFiniteSet(present) PROVE Used \in Nat
  BY FS_CardinalityType DEF Used

LEMMA InitNeedInv == ReapSettings /\ ReapInit => NeedInv
  BY InitReapInv, FS_EmptySet DEF ReapInit, NeedInv, NeedOK

\* A stage that begins.
LEMMA EnterNeed ==
    ASSUME NeedInv, MarkAboveTarget, NEW s \in {"A", "B", "C", "end"}, Enter(s),
           UNCHANGED <<present, age, damaged>>, removed' \in Nat, aged' \in Nat, ReapInv',
           s = "B" => Used > Target /\ removed' = aged',
           s = "C" => Urgent
    PROVE  NeedInv'
<1>1. Used \in Nat /\ Used' = Used /\ stage' = s /\ IsFiniteSet(present')
  BY UsedIsNat DEF Used, Enter, NeedInv
<1>2. Target \in Nat /\ Emergency \in Nat /\ Batch \in Nat \ {0}
  BY DEF NeedInv, ReapInv, ReapTypes
<1>a. PICK u \in Nat : u = Used
  BY <1>1
<1>b. PICK r \in Nat : r = removed'
  OBVIOUS
<1>c. PICK a \in Nat : a = aged'
  OBVIOUS
<1>3. CASE s = "B"
  <2>1. u > Target /\ r = a
    BY <1>3, <1>a, <1>b, <1>c
  <2>2. a <= r /\ r - a = 0
    BY <2>1
  <2>3. (r - a) % Batch = 0
    BY <1>2, <2>2, ZeroModulo
  <2>4. u + ((r - a) % Batch) > Target
    BY <1>2, <2>1, <2>3
  <2> QED
    BY <1>1, <1>3, <1>a, <1>b, <1>c, <2>2, <2>4 DEF NeedInv, NeedOK
<1>4. CASE s = "C"
  <2>1. r % Batch \in Nat
    BY <1>2, NextModulo
  <2>2. u > Emergency /\ Target <= Emergency
    BY <1>2, <1>4, <1>a DEF Urgent, MarkAboveTarget
  <2>3. u + r > Emergency /\ u + (r % Batch) > Target
    BY <1>2, <2>1, <2>2
  <2> QED
    BY <1>1, <1>4, <1>a, <1>b, <2>3 DEF NeedInv, NeedOK
<1>5. CASE s \in {"A", "end"}
  BY <1>1, <1>5 DEF NeedInv, NeedOK
<1> QED
  BY <1>3, <1>4, <1>5

\* A block is taken: the reading of the volume is at most a batch old.
LEMMA TakeNeed == ASSUME NeedInv, NEW b \in list, Take(b), ReapInv' PROVE NeedInv'
<1>1. /\ stage \in {"A", "B", "C"} /\ UNCHANGED <<stage, aged, damaged>>
      /\ present' = present \ {b} /\ aged \in Nat
  BY DEF Take, NeedInv
<1>2. /\ IsFiniteSet(present') /\ Used \in Nat /\ Used' \in Nat
      /\ Used' = IF b \in present THEN Used - 1 ELSE Used
  BY <1>1, FS_RemoveElement, FS_CardinalityType DEF NeedInv, Used
<1> SUFFICES ASSUME damaged = 0 PROVE NeedOK'
  BY <1>1, <1>2 DEF NeedInv, NeedOK
<1>3. b \in present
  BY <1>1 DEF NeedInv, ReapInv, ListedOK
<1>4. /\ removed \in Nat /\ removed' = removed + 1 /\ Used' = Used - 1
      /\ list' # {} => ~Reached(removed', Used')
  BY <1>2, <1>3 DEF Take, NeedInv, ReapInv, ReapTypes
<1>5. Target \in Nat /\ Emergency \in Nat /\ Batch \in Nat \ {0}
  BY DEF NeedInv, ReapInv, ReapTypes
<1>6. CASE stage = "B"
  <2>1. /\ aged <= removed /\ Used + ((removed - aged) % Batch) > Target
        /\ removed - aged \in Nat /\ (removed - aged) + 1 = removed' - aged
    BY <1>1, <1>4, <1>6 DEF NeedInv, NeedOK
  <2> DEFINE d == removed - aged
  <2>n. d \in Nat /\ d + 1 \in Nat
    BY <2>1
  <2>2. /\ d % Batch \in Nat /\ (d + 1) % Batch \in Nat
        /\ (d + 1) % Batch = 0 \/ (d + 1) % Batch = (d % Batch) + 1
    <3> HIDE DEF d
    <3>1. d % Batch \in Nat /\ ((d + 1) % Batch = 0 \/ (d + 1) % Batch = (d % Batch) + 1)
      BY <1>5, <2>n, NextModulo
    <3>2. (d + 1) % Batch \in Nat
      BY <1>5, <2>n, NextModulo
    <3> QED
      BY <3>1, <3>2
  <2>3. list' # {} => (d + 1) % Batch # 0 \/ Used' > Target
    BY <1>2, <1>4, <1>5, <1>6, <2>1 DEF Reached
  <2>4. list' # {} => Used' + ((d + 1) % Batch) > Target
    BY <1>2, <1>4, <1>5, <2>1, <2>2, <2>3
  <2> QED
    BY <1>1, <1>4, <1>6, <2>1, <2>4 DEF NeedOK
<1>7. CASE stage = "C"
  <2>1. Used + removed > Emergency /\ Used + (removed % Batch) > Target
    BY <1>1, <1>4, <1>7 DEF NeedInv, NeedOK
  <2>2. /\ removed % Batch \in Nat /\ (removed + 1) % Batch \in Nat
        /\ (removed + 1) % Batch = 0 \/ (removed + 1) % Batch = (removed % Batch) + 1
    <3>1. /\ removed % Batch \in Nat
          /\ (removed + 1) % Batch = 0 \/ (removed + 1) % Batch = (removed % Batch) + 1
      BY <1>4, <1>5, NextModulo
    <3>2. removed + 1 \in Nat
      BY <1>4
    <3>3. (removed + 1) % Batch \in Nat
      BY <1>5, <3>2, NextModulo
    <3> QED
      BY <3>1, <3>3
  <2>3. list' # {} => (removed + 1) % Batch # 0 \/ Used' > Target
    BY <1>2, <1>4, <1>5, <1>7 DEF Reached
  <2>4. list' # {} => Used' + ((removed + 1) % Batch) > Target
    BY <1>2, <1>4, <1>5, <2>1, <2>2, <2>3
  <2>5. Used' + removed' > Emergency
    BY <1>2, <1>4, <1>5, <2>1
  <2> QED
    BY <1>1, <1>4, <1>7, <2>4, <2>5 DEF NeedOK
<1>8. CASE stage = "A"
  BY <1>1, <1>8 DEF NeedOK
<1> QED
  BY <1>1, <1>6, <1>7, <1>8

LEMMA NeedInvStep ==
    ASSUME NeedInv, MarkAboveTarget, [ReapNext]_reapVars PROVE NeedInv'
<1>1. ReapInv' /\ ReapInv /\ ReapTypes /\ ReapTypes'
  BY ReapInvStep DEF NeedInv, ReapInv
<1>2. CASE Start
  BY <1>1, <1>2, EnterNeed DEF Start, AfterA
<1>3. CASE Cap \/ EndC
  BY <1>1, <1>3, EnterNeed DEF Cap, EndC, NeedInv, ReapTypes
<1>4. CASE EndA
  BY <1>1, <1>4, EnterNeed DEF EndA, AfterA, ReapTypes
<1>5. CASE EndB
  BY <1>1, <1>5, EnterNeed DEF EndB, AfterB, NeedInv, ReapTypes
<1>6. CASE End
  BY <1>1, <1>6 DEF End, NeedInv, NeedOK
<1>7. ASSUME NEW b \in list, Take(b) PROVE NeedInv'
  BY <1>1, <1>7, TakeNeed
<1>8. ASSUME NEW b \in Blocks, Store(b) PROVE NeedInv'
  <2>1. /\ b \notin present /\ present' = present \cup {b}
        /\ UNCHANGED <<stage, list, removed, aged, damaged>>
    BY <1>8 DEF Store, run
  <2>2. IsFiniteSet(present') /\ Used \in Nat /\ Used' = Used + 1
    BY <2>1, FS_AddElement, FS_CardinalityType DEF NeedInv, Used
  <2>3. Target \in Nat /\ Emergency \in Nat /\ Batch \in Nat \ {0} /\ removed \in Nat /\ aged \in Nat
    BY <1>1 DEF ReapTypes, NeedInv
  <2>4. \A n \in Nat : n % Batch \in Nat
    BY <2>3, NextModulo
  <2>5. ASSUME damaged = 0, stage = "B", list # {}
        PROVE  Used' + ((removed - aged) % Batch) > Target
    BY <2>2, <2>3, <2>4, <2>5 DEF NeedInv, NeedOK
  <2>6. ASSUME damaged = 0, stage = "C"
        PROVE  Used' + removed > Emergency /\ (list # {} => Used' + (removed % Batch) > Target)
    BY <2>2, <2>3, <2>4, <2>6 DEF NeedInv, NeedOK
  <2>7. NeedOK'
    BY <2>1, <2>5, <2>6 DEF NeedOK, NeedInv
  <2> QED
    BY <1>1, <2>1, <2>2, <2>7 DEF NeedInv
<1>9. ASSUME NEW b \in Blocks, Damage(b) PROVE NeedInv'
  <2>1. /\ present' = present \ {b} /\ damaged' = damaged + 1 /\ UNCHANGED aged
    BY <1>9 DEF Damage, run
  <2> QED
    BY <1>1, <2>1, FS_RemoveElement DEF NeedInv, NeedOK, ReapTypes
<1>10. CASE Tick \/ UNCHANGED reapVars
  BY <1>1, <1>10 DEF Tick, reapVars, run, NeedInv, NeedOK, Used
<1> QED
  BY <1>2, <1>3, <1>4, <1>5, <1>6, <1>7, <1>8, <1>9, <1>10 DEF ReapNext, Reaper

\* The capacity stages delete less than a batch past the target, and a block
\* under the floor only where the run has found the volume above the mark.
THEOREM DeletesAreNeeded ==
    ReapSettings /\ MarkAboveTarget => (ReapSpec => EvictsOnlyAsNeeded)
<1> SUFFICES ASSUME ReapSettings, MarkAboveTarget PROVE ReapSpec => EvictsOnlyAsNeeded
  OBVIOUS
<1>1. ASSUME NeedInv, [ReapNext]_reapVars, NEW b \in Blocks, Reaped(b)
      PROVE  /\ stage # "A" => Used >= Target + 2 - Batch
             /\ age[b] <= MinAge => Used + removed > Emergency
  <2>1. b \in list /\ stage \in {"A", "B", "C"} /\ damaged = 0
    BY <1>1, ReapedIsTaken DEF Take, NeedInv
  <2>2. /\ Used \in Nat /\ Target \in Nat /\ Batch \in Nat \ {0} /\ MinAge \in Nat /\ MaxAge \in Nat
        /\ removed \in Nat /\ aged \in Nat
    BY <1>1, UsedIsNat DEF NeedInv, ReapInv, ReapTypes
  <2>3. age[b] > Floor /\ age[b] \in Nat
    BY <1>1, <2>1 DEF NeedInv, ReapInv, ListedOK, ReapTypes, Ages
  <2>4. age[b] <= MinAge => stage = "C"
    BY <2>1, <2>2, <2>3, <1>1 DEF Floor, NeedInv, ReapInv, ReapTypes
  <2>5. CASE stage = "A"
    BY <2>4, <2>5
  <2>6. CASE stage = "B"
    <3>1. removed - aged \in Nat /\ Used + ((removed - aged) % Batch) > Target
      BY <1>1, <2>1, <2>2, <2>6 DEF NeedInv, NeedOK
    <3>2. (removed - aged) % Batch \in Nat /\ (removed - aged) % Batch <= Batch - 1
      BY <2>2, <3>1, NextModulo
    <3> QED
      BY <2>2, <2>4, <2>6, <3>1, <3>2
  <2>7. CASE stage = "C"
    <3>1. Used + removed > Emergency /\ Used + (removed % Batch) > Target
      BY <1>1, <2>1, <2>2, <2>7 DEF NeedInv, NeedOK
    <3>2. removed % Batch \in Nat /\ removed % Batch <= Batch - 1
      BY <2>2, NextModulo
    <3> QED
      BY <2>2, <3>1, <3>2
  <2> QED
    BY <2>1, <2>5, <2>6, <2>7
<1>2. NeedInv /\ [ReapNext]_reapVars => NeedInv'
  BY NeedInvStep
<1>3. NeedInv /\ [ReapNext]_reapVars =>
        [\A b \in Blocks : Reaped(b) =>
           /\ stage # "A" => Used >= Target + 2 - Batch
           /\ age[b] <= MinAge => Used + removed > Emergency]_reapVars
  BY <1>1
<1> QED
  BY InitNeedInv, <1>2, <1>3, PTL DEF ReapSpec, EvictsOnlyAsNeeded

-----------------------------------------------------------------------------
(* The pruning, when launches do not overlap.                               *)

OneLauncher == \A l, m \in Launchers : l = m

PruneTypes ==
    /\ PruneSettings
    /\ clock \in Nat
    /\ files \subseteq onDisk /\ onDisk \subseteq Trees
    /\ stamp \in [Trees -> SUBSET [prefix : {"ts=", "host="}, time : Int]]
    /\ atime \in [Trees -> Int]
    /\ at \in [Launchers -> {"off", "stamp", "check", "scan", "delete", "boot", "serve"}]
    /\ live \in [Launchers -> Trees]
    /\ toScan \in [Launchers -> SUBSET Trees]
    /\ cand \in [Launchers -> SUBSET (Int \X Trees)]
    /\ pruned \in [Launchers -> Nat]

\* A tree is a candidate under the access time it still has, which is past
\* the floor.
Candidate(l, c) ==
    /\ c[2] \in files \ {live[l]}
    /\ c[1] = atime[c[2]] /\ c[1] <= clock - MinUnread

\* Another one has still to be looked at, or is a candidate, or is in use.
Seen(l, u) == u \in toScan[l] \/ <<atime[u], u>> \in cand[l] \/ InUse(u)

PruneOK(l) ==
    at[l] \in {"scan", "delete"} =>
        /\ UsedByTrees > TreesTarget
        /\ \A c \in cand[l] : Candidate(l, c)
        /\ \A u \in files \ {live[l]} : Seen(l, u)
        /\ at[l] = "delete" => toScan[l] = {}

PruneInv == PruneTypes /\ \A l \in Launchers : PruneOK(l)

LEMMA InitPruneInv == PruneSettings /\ PruneInit => PruneInv
  BY DEF PruneInit, PruneInv, PruneTypes, PruneOK, PruneSettings

LEMMA UsedByTreesIsNat == ASSUME PruneTypes PROVE UsedByTrees \in Nat
<1>1. files \in SUBSET Trees /\ IsFiniteSet(Trees)
  BY DEF PruneTypes, PruneSettings
<1> QED
  BY <1>1, FS_Subset, FS_CardinalityType DEF UsedByTrees

LEMMA PruneTypesStep == ASSUME PruneTypes, [PruneNext]_pruneVars PROVE PruneTypes'
<1> USE DEF PruneTypes
<1>1. ASSUME Hour PROVE PruneTypes'
  BY <1>1 DEF Hour, launcher
<1>2. ASSUME NEW l \in Launchers, NEW t \in Trees, Launch(l, t) PROVE PruneTypes'
  BY <1>2 DEF Launch
<1>3. ASSUME NEW l \in Launchers, Stamp(l) PROVE PruneTypes'
  <2>1. StampLines \in SUBSET [prefix : {"ts=", "host="}, time : Int]
    BY DEF StampLines
  <2>2. live[l] \in Trees
    OBVIOUS
  <2>3. stamp' \in [Trees -> SUBSET [prefix : {"ts=", "host="}, time : Int]]
    BY <1>3, <2>1 DEF Stamp
  <2>4. files' \subseteq onDisk' /\ onDisk' \subseteq Trees
    BY <1>3, <2>2 DEF Stamp
  <2> QED
    BY <1>3, <2>3, <2>4 DEF Stamp
<1>4. ASSUME NEW l \in Launchers, Check(l) PROVE PruneTypes'
  BY <1>4 DEF Check
<1>5. ASSUME NEW l \in Launchers, NEW t \in Trees, Scan(l, t) PROVE PruneTypes'
  BY <1>5 DEF Scan
<1>6. ASSUME NEW l \in Launchers, ScanEnds(l) \/ DeleteEnds(l) \/ Timeout(l) \/ Stop(l)
      PROVE  PruneTypes'
  BY <1>6 DEF ScanEnds, DeleteEnds, Timeout, Stop
<1>7. ASSUME NEW l \in Launchers, NEW c \in cand[l], Delete(l, c) PROVE PruneTypes'
  <2>1. at' \in [Launchers -> {"off", "stamp", "check", "scan", "delete", "boot", "serve"}]
    BY <1>7 DEF Delete
  <2>2. /\ cand' \in [Launchers -> SUBSET (Int \X Trees)] /\ pruned' \in [Launchers -> Nat]
        /\ stamp' \in [Trees -> SUBSET [prefix : {"ts=", "host="}, time : Int]]
    BY <1>7 DEF Delete
  <2> QED
    BY <1>7, <2>1, <2>2 DEF Delete
<1>8. ASSUME NEW l \in Launchers, Boot(l) \/ Use(l) PROVE PruneTypes'
  <2>1. live[l] \in Trees /\ Touched(live[l]) \in Int
    BY DEF Touched
  <2> QED
    BY <1>8, <2>1 DEF Boot, Use, launcher
<1>9. CASE UNCHANGED pruneVars
  BY <1>9 DEF pruneVars, launcher
<1> QED
  BY <1>1, <1>2, <1>3, <1>4, <1>5, <1>6, <1>7, <1>8, <1>9 DEF PruneNext, Step, Reap

\* Whatever leaves the trees and the run's lists as they are.
LEMMA SameLists ==
    ASSUME NEW l \in Launchers, PruneOK(l),
           UNCHANGED <<clock, files, atime, live, toScan, cand>>,
           at'[l] \in {"scan", "delete"} => at'[l] = at[l]
    PROVE  PruneOK(l)'
  BY DEF PruneOK, Candidate, Seen, InUse, UsedByTrees

LEMMA PruneInvStep ==
    ASSUME OneLauncher, PruneInv, [PruneNext]_pruneVars PROVE PruneInv'
<1>1. PruneTypes /\ PruneTypes'
  BY PruneTypesStep DEF PruneInv
<1> SUFFICES ASSUME NEW l \in Launchers PROVE PruneOK(l)'
  BY <1>1 DEF PruneInv
<1>2. PruneOK(l) /\ \A m \in Launchers : m = l
  BY DEF PruneInv, OneLauncher
<1>3. at \in [Launchers -> {"off", "stamp", "check", "scan", "delete", "boot", "serve"}]
  BY <1>1 DEF PruneTypes
<1>4. CASE Hour
  BY <1>3, <1>4 DEF Hour, launcher, PruneOK
<1>5. ASSUME NEW t \in Trees, Launch(l, t) PROVE PruneOK(l)'
  BY <1>3, <1>5 DEF Launch, PruneOK
<1>6. CASE Stamp(l) \/ DeleteEnds(l) \/ Timeout(l) \/ Stop(l) \/ Boot(l)
  BY <1>3, <1>6 DEF Stamp, DeleteEnds, Timeout, Stop, Boot, PruneOK
<1>7. CASE Use(l)
  BY <1>3, <1>7 DEF Use, launcher, PruneOK
<1>8. CASE Check(l)
  <2>1. /\ at'[l] = IF UsedByTrees <= TreesTarget THEN "boot" ELSE "scan"
        /\ UNCHANGED <<clock, files, atime, live>>
    BY <1>3, <1>8 DEF Check
  <2> SUFFICES ASSUME ~(UsedByTrees <= TreesTarget) PROVE PruneOK(l)'
    BY <2>1 DEF PruneOK
  <2>2. cand'[l] = {} /\ toScan'[l] = onDisk /\ files \subseteq onDisk
    BY <1>1, <1>8 DEF Check, PruneTypes
  <2>3. UsedByTrees' > TreesTarget
    BY <1>1, <2>1, UsedByTreesIsNat DEF UsedByTrees, PruneTypes, PruneSettings
  <2> QED
    BY <2>1, <2>2, <2>3 DEF PruneOK, Seen
<1>9. ASSUME NEW t \in Trees, Scan(l, t) PROVE PruneOK(l)'
  <2>1. /\ at[l] = "scan" /\ t \in toScan[l]
        /\ UNCHANGED <<clock, files, atime, at, live>> /\ UsedByTrees' = UsedByTrees
    BY <1>9 DEF Scan, UsedByTrees
  <2>2. toScan'[l] = toScan[l] \ {t}
    BY <1>1, <1>9 DEF Scan, PruneTypes
  <2>3. ~StampIsFresh(t)
    <3>1. stamp[t] \subseteq [prefix : {"ts=", "host="}, time : Int]
      <4>1. t \in Trees
        BY <1>1, <2>1 DEF PruneTypes
      <4> QED
        BY <1>1, <4>1 DEF PruneTypes
    <3>2. ASSUME NEW line \in stamp[t] PROVE line.prefix # ""
      BY <3>1
    <3> QED
      BY <3>2 DEF StampIsFresh
  <2>4. /\ cand[l] \subseteq cand'[l] /\ cand'[l] \subseteq cand[l] \cup {<<atime[t], t>>}
        /\ t \in files \ {live[l]} /\ ~InUse(t) => <<atime[t], t>> \in cand'[l]
        /\ ~(t \in files \ {live[l]} /\ ~InUse(t)) => cand'[l] = cand[l]
    BY <1>1, <1>9, <2>3 DEF Scan, Spared, PruneTypes
  <2>5. atime[t] \in Int /\ clock \in Nat /\ MinUnread \in Nat
    BY <1>1 DEF PruneTypes, PruneSettings
  <2>6. \A c \in cand'[l] : Candidate(l, c)'
    <3> SUFFICES ASSUME NEW c \in cand'[l] PROVE Candidate(l, c)'
      OBVIOUS
    <3>1. CASE c \in cand[l]
      BY <1>2, <2>1, <3>1 DEF PruneOK, Candidate
    <3>2. CASE c \notin cand[l]
      <4>1. c = <<atime[t], t>> /\ t \in files \ {live[l]} /\ ~InUse(t)
        BY <2>4, <3>2
      <4> QED
        BY <2>1, <2>5, <4>1 DEF Candidate, InUse
    <3> QED
      BY <3>1, <3>2
  <2>7. \A u \in files' \ {live'[l]} : Seen(l, u)'
    BY <1>2, <2>1, <2>2, <2>4 DEF PruneOK, Seen, InUse
  <2> QED
    BY <1>2, <2>1, <2>6, <2>7 DEF PruneOK
<1>10. CASE ScanEnds(l)
  <2>1. /\ at[l] = "scan" /\ toScan[l] = {} /\ UsedByTrees' = UsedByTrees
        /\ UNCHANGED <<clock, files, atime, live, toScan, cand>>
    BY <1>10 DEF ScanEnds, UsedByTrees
  <2> QED
    BY <1>2, <2>1 DEF PruneOK, Candidate, Seen, InUse
<1>11. ASSUME NEW c \in cand[l], Delete(l, c) PROVE PruneOK(l)'
  <2>1. /\ at[l] = "delete" /\ files' = files \ {c[2]}
        /\ UNCHANGED <<clock, atime, live, toScan>>
    BY <1>11 DEF Delete
  <2>2. cand'[l] = cand[l] \ {c}
    BY <1>1, <1>11 DEF Delete, PruneTypes
  <2>3. at'[l] \in {"scan", "delete"} => at'[l] = at[l] /\ UsedByTrees' > TreesTarget
    <3>1. IsFiniteSet(Trees) /\ files' \subseteq Trees /\ TreesTarget \in Nat
      BY <1>1 DEF PruneTypes, PruneSettings
    <3>2. UsedByTrees' \in Nat
      <4>1. IsFiniteSet(files')
        BY <3>1, FS_Subset
      <4> QED
        BY <4>1, FS_CardinalityType DEF UsedByTrees
    <3>3. at' = IF UsedByTrees' <= TreesTarget THEN [at EXCEPT ![l] = "boot"] ELSE at
      BY <1>11 DEF Delete, Fits
    <3>4. CASE UsedByTrees' <= TreesTarget
      BY <1>3, <3>3, <3>4
    <3>5. CASE ~(UsedByTrees' <= TreesTarget)
      BY <3>1, <3>2, <3>3, <3>5
    <3> QED
      BY <3>4, <3>5
  <2>4. c[1] = atime[c[2]] /\ c = <<c[1], c[2]>>
    BY <1>1, <1>2, <2>1 DEF PruneOK, Candidate, PruneTypes
  <2>5. \A d \in cand'[l] : Candidate(l, d)'
    <3> SUFFICES ASSUME NEW d \in cand'[l] PROVE Candidate(l, d)'
      OBVIOUS
    <3>1. d \in cand[l] /\ d # c /\ Candidate(l, d) /\ d = <<d[1], d[2]>>
      BY <1>1, <1>2, <2>1, <2>2 DEF PruneOK, PruneTypes
    <3>2. d[2] # c[2]
      BY <2>4, <3>1 DEF Candidate
    <3> QED
      BY <2>1, <3>1, <3>2 DEF Candidate
  <2>6. \A u \in files' \ {live'[l]} : Seen(l, u)'
    <3> SUFFICES ASSUME NEW u \in files' \ {live'[l]} PROVE Seen(l, u)'
      OBVIOUS
    <3>1. Seen(l, u) /\ u # c[2]
      BY <1>2, <2>1 DEF PruneOK
    <3>2. <<atime[u], u>> # c
      BY <2>4, <3>1
    <3> QED
      BY <2>1, <2>2, <3>1, <3>2 DEF Seen, InUse
  <2> QED
    BY <1>2, <2>1, <2>3, <2>5, <2>6 DEF PruneOK
<1>12. CASE UNCHANGED pruneVars
  BY <1>2, <1>12, SameLists DEF pruneVars, launcher
<1>13. \A m \in Launchers : Step(m) => Step(l)
  BY <1>2
<1> QED
  BY <1>2, <1>4, <1>5, <1>6, <1>7, <1>8, <1>9, <1>10, <1>11, <1>12, <1>13, <1>1
     DEF PruneNext, Step, Reap, PruneTypes

\* What a run deletes is past the floor, the disk is above the target when it
\* goes, and no tree the run could have taken has been unread for longer.
THEOREM PruneTakesOldest ==
    PruneSettings /\ OneLauncher => (PruneSpec => OldestWhenFull)
<1> SUFFICES ASSUME PruneSettings, OneLauncher PROVE PruneSpec => OldestWhenFull
  OBVIOUS
<1>1. ASSUME PruneInv, [PruneNext]_pruneVars, NEW t \in Trees, Deleted(t)
      PROVE  /\ atime[t] <= clock - MinUnread /\ UsedByTrees > TreesTarget
             /\ \A l \in Launchers : Deleting(l) =>
                  \A u \in files \ {live[l]} : atime[t] <= atime[u]
  <2>1. t \in onDisk /\ t \notin onDisk'
    BY <1>1 DEF Deleted
  <2>a. PICK l \in Launchers : \E c \in cand[l] : Delete(l, c)
    <3>1. onDisk' # onDisk
      BY <2>1
    <3>2. ~Hour /\ ~UNCHANGED pruneVars
      BY <3>1 DEF Hour, pruneVars
    <3>3. ASSUME NEW m \in Launchers PROVE ~Stamp(m) /\ ~Boot(m)
      BY <2>1 DEF Stamp, Boot
    <3>4. ASSUME NEW m \in Launchers
          PROVE  /\ ~Check(m) /\ ~ScanEnds(m) /\ ~DeleteEnds(m) /\ ~Timeout(m) /\ ~Use(m) /\ ~Stop(m)
                 /\ \A u \in Trees : ~Launch(m, u)
                 /\ \A u \in toScan[m] : ~Scan(m, u)
      BY <3>1 DEF Check, ScanEnds, DeleteEnds, Timeout, Use, Stop, Launch, Scan
    <3> QED
      BY <1>1, <3>2, <3>3, <3>4 DEF PruneNext, Step, Reap
  <2>2. PICK c \in cand[l] : Delete(l, c)
    BY <2>a
  <2>3. /\ at[l] = "delete" /\ c[2] = t /\ Oldest(l, c)
        /\ PruneOK(l) /\ PruneTypes /\ \A m \in Launchers : m = l
    BY <1>1, <2>1, <2>2 DEF Delete, PruneInv, OneLauncher
  <2>4. c[1] = atime[t] /\ c[1] <= clock - MinUnread /\ UsedByTrees > TreesTarget
    BY <2>2, <2>3 DEF PruneOK, Candidate
  <2>5. ASSUME NEW u \in files \ {live[l]} PROVE atime[t] <= atime[u]
    <3>1. <<atime[u], u>> \in cand[l] \/ InUse(u)
      BY <2>3 DEF PruneOK, Seen
    <3>2. CASE <<atime[u], u>> \in cand[l]
      BY <2>3, <2>4, <3>2 DEF Oldest
    <3>3. CASE InUse(u)
      <4>1. atime[u] \in Int /\ atime[t] \in Int /\ clock \in Nat /\ MinUnread \in Nat
        BY <2>3 DEF PruneTypes, PruneSettings
      <4> QED
        BY <2>4, <3>3, <4>1 DEF InUse
    <3> QED
      BY <3>1, <3>2, <3>3
  <2> QED
    BY <2>3, <2>4, <2>5
<1>2. PruneInv /\ [PruneNext]_pruneVars => PruneInv'
  BY PruneInvStep
<1>3. PruneInv /\ [PruneNext]_pruneVars =>
        [\A t \in Trees : Deleted(t) =>
           /\ atime[t] <= clock - MinUnread /\ UsedByTrees > TreesTarget
           /\ \A l \in Launchers : Deleting(l) =>
                \A u \in files \ {live[l]} : atime[t] <= atime[u]]_pruneVars
  BY <1>1
<1> QED
  BY InitPruneInv, <1>2, <1>3, PTL DEF PruneSpec, OldestWhenFull
=============================================================================
