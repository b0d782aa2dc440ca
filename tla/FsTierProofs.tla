----------------------------- MODULE FsTierProofs -----------------------------
(***************************************************************************)
(* Proofs about FsTier, for any keys, requests, fan-out and gates.         *)
(***************************************************************************)
EXTENDS FsTier, FiniteSetTheorems, TLAPS

\* What the tier's record of a job says of the job's progress: the running
\* batches are disjoint parts of its keys, one task is left to count for each
\* of them, and a job that has not failed has every block moved or in a batch.
JobOK(jb) ==
    /\ jb \in JobRecord
    /\ IsFiniteSet(jb.batches) /\ jb.left = Cardinality(jb.batches)
    /\ jb.moved \subseteq jb.keys
    /\ \A b \in jb.batches : b # {} /\ b \subseteq jb.keys
    /\ \A a, b \in jb.batches : a = b \/ a \cap b = {}
    /\ ~jb.failed => jb.keys = jb.moved \cup UNION jb.batches
    /\ jb.kind = "free" => jb = NoJob

JobsOK == \A j \in Jobs : JobOK(job[j])

LEMMA NoJobOK == JobOK(NoJob)
BY FS_EmptySet DEF JobOK, NoJob, JobRecord

LEMMA NewJobOK ==
    ASSUME NEW kind \in {"store", "load"}, NEW K \in SUBSET Keys, NEW P \in Split(K)
    PROVE  JobOK(NewJob(kind, K, P))
<1>1. IsFiniteSet(K)
  BY FS_Subset, SizeAssumption
<1>2. IsFiniteSet(SUBSET K)
  BY <1>1, FS_SUBSET
<1>3. P \in SUBSET (SUBSET K) /\ IsFiniteSet(P) /\ Cardinality(P) \in Nat
  BY <1>2, FS_Subset, FS_CardinalityType DEF Split, EvenPartitions
<1>4. UNION P = K /\ \A a, b \in P : a = b \/ a \cap b = {}
  BY DEF Split, EvenPartitions
<1>5. {} \notin P
  BY DEF Split, EvenPartitions
<1>6. P \in SUBSET (SUBSET Keys)
  BY <1>3
<1> DEFINE n == NewJob(kind, K, P)
<1>7. /\ n.kind = kind /\ n.keys = K /\ n.batches = P /\ n.left = Cardinality(P)
      /\ n.failed = FALSE /\ n.moved = {}
  BY DEF NewJob
<1>8. n \in JobRecord
  BY <1>3, <1>6 DEF NewJob, JobRecord
<1> HIDE DEF n
<1>9. JobOK(n)
  BY <1>3, <1>4, <1>5, <1>7, <1>8 DEF JobOK
<1> QED
  BY <1>9 DEF n

LEMMA TaskDoneOK ==
    ASSUME NEW jb, JobOK(jb), NEW b \in jb.batches, NEW M \in SUBSET b,
           NEW failed \in BOOLEAN, failed \/ M = b
    PROVE  /\ JobOK(TaskDone(jb, b, M, failed))
           /\ TaskDone(jb, b, M, failed).keys = jb.keys
           /\ TaskDone(jb, b, M, failed).kind = jb.kind
<1> DEFINE n == TaskDone(jb, b, M, failed)
<1>1. /\ n.kind = jb.kind /\ n.keys = jb.keys /\ n.batches = jb.batches \ {b}
      /\ n.left = jb.left - 1 /\ n.failed = (jb.failed \/ failed) /\ n.moved = jb.moved \cup M
  BY DEF TaskDone, JobOK, JobRecord
<1>2. /\ IsFiniteSet(n.batches) /\ n.left = Cardinality(n.batches)
      /\ Cardinality(n.batches) \in Nat
  BY <1>1, FS_RemoveElement, FS_CardinalityType DEF JobOK
<1>3. n \in JobRecord
  <2>1. M \subseteq Keys /\ jb.left - 1 \in Nat /\ (jb.failed \/ failed) \in BOOLEAN
    BY <1>1, <1>2 DEF JobOK, JobRecord
  <2> QED
    BY <2>1 DEF TaskDone, JobOK, JobRecord
<1>4. jb.kind # "free"
  BY DEF JobOK, NoJob
<1> HIDE DEF n
<1>5. ~n.failed => n.keys = n.moved \cup UNION n.batches
  <2> SUFFICES ASSUME ~n.failed PROVE n.keys = n.moved \cup UNION n.batches
    OBVIOUS
  <2>1. ~jb.failed /\ M = b
    BY <1>1
  <2>2. jb.keys = jb.moved \cup UNION jb.batches
    BY <2>1 DEF JobOK
  <2>3. UNION jb.batches = b \cup UNION (jb.batches \ {b})
    OBVIOUS
  <2> QED
    BY <2>1, <2>2, <2>3, <1>1
<1>6. JobOK(n)
  BY <1>1, <1>2, <1>3, <1>4, <1>5 DEF JobOK
<1> QED
  BY <1>6, <1>1 DEF n

LEMMA AdvanceOK ==
    ASSUME NEW jb, JobOK(jb), NEW b \in jb.batches, NEW k \in b
    PROVE  /\ JobOK(Advance(jb, b, k))
           /\ Advance(jb, b, k).keys = jb.keys
           /\ Advance(jb, b, k).kind = jb.kind
<1>1. CASE b = {k}
  BY <1>1, TaskDoneOK DEF Advance
<1>2. CASE b # {k}
  <2> DEFINE n == [jb EXCEPT !.batches = (@ \ {b}) \cup {b \ {k}}, !.moved = @ \cup {k}]
  <2>1. /\ n.kind = jb.kind /\ n.keys = jb.keys /\ n.left = jb.left /\ n.failed = jb.failed
        /\ n.batches = (jb.batches \ {b}) \cup {b \ {k}} /\ n.moved = jb.moved \cup {k}
    BY DEF JobOK, JobRecord
  <2>2. n \in JobRecord
    <3>1. /\ (jb.batches \ {b}) \cup {b \ {k}} \in SUBSET SUBSET Keys
          /\ jb.moved \cup {k} \in SUBSET Keys
      BY DEF JobOK, JobRecord
    <3> QED
      BY <3>1 DEF JobOK, JobRecord
  <2>3. Advance(jb, b, k) = n
    BY <1>2 DEF Advance
  <2> HIDE DEF n
  <2>4. b \ {k} # {} /\ b \ {k} \notin jb.batches \ {b}
    <3>1. b \ {k} # {}
      BY <1>2
    <3>2. ASSUME b \ {k} \in jb.batches \ {b} PROVE FALSE
      <4>1. (b \ {k}) \cap b = {}
        BY <3>2 DEF JobOK
      <4> QED
        BY <4>1, <3>1
    <3> QED
      BY <3>1, <3>2
  <2>5. /\ IsFiniteSet(jb.batches \ {b})
        /\ Cardinality(jb.batches \ {b}) = Cardinality(jb.batches) - 1
        /\ Cardinality(jb.batches) \in Nat
    BY FS_RemoveElement, FS_CardinalityType DEF JobOK
  <2>6. IsFiniteSet(n.batches) /\ Cardinality(n.batches) = Cardinality(jb.batches)
    <3>1. /\ IsFiniteSet((jb.batches \ {b}) \cup {b \ {k}})
          /\ Cardinality((jb.batches \ {b}) \cup {b \ {k}}) = Cardinality(jb.batches \ {b}) + 1
      BY <2>4, <2>5, FS_AddElement
    <3> QED
      BY <3>1, <2>5, <2>1
  <2>7. ~jb.failed => n.keys = n.moved \cup UNION n.batches
    <3>1. UNION n.batches = (UNION (jb.batches \ {b})) \cup (b \ {k})
      BY <2>1
    <3>2. UNION jb.batches = (UNION (jb.batches \ {b})) \cup b
      OBVIOUS
    <3> QED
      BY <3>1, <3>2, <2>1 DEF JobOK
  <2>8. jb.kind # "free"
    BY DEF JobOK, NoJob
  <2>9. \A x \in n.batches : x # {} /\ x \subseteq n.keys
    BY <2>1, <2>4 DEF JobOK
  <2>10. \A x, y \in n.batches : x = y \/ x \cap y = {}
    BY <2>1 DEF JobOK
  <2>11. n.moved \subseteq n.keys
    BY <2>1 DEF JobOK
  <2>12. n.left = Cardinality(n.batches)
    BY <2>1, <2>6 DEF JobOK
  <2>13. JobOK(n)
    BY <2>1, <2>2, <2>6, <2>7, <2>8, <2>9, <2>10, <2>11, <2>12 DEF JobOK
  <2> QED
    BY <2>3, <2>13, <2>1
<1> QED
  BY <1>1, <1>2

-----------------------------------------------------------------------------
(* Jobs.                                                                    *)

\* What a step may do to the jobs: nothing, start one, count or advance a
\* batch of one, or report the finished ones.
JobMove ==
    \/ job' = job
    \/ \E kind \in {"store", "load"}, K \in SUBSET Keys : Submit(kind, K)
    \/ \E j \in Jobs : \E b \in job[j].batches : \E k \in b :
          job' = [job EXCEPT ![j] = Advance(@, b, k)]
    \/ \E j \in Jobs : \E b \in job[j].batches :
          job' = [job EXCEPT ![j] = TaskDone(@, b, {}, TRUE)]
    \/ \E done \in SUBSET Jobs :
          job' = [j \in Jobs |-> IF j \in done THEN NoJob ELSE job[j]]

LEMMA StepJobMove == ASSUME TypeOK, [Next]_vars PROVE JobMove
<1>1. CASE UNCHANGED vars
  BY <1>1 DEF vars, JobMove
<1>2. CASE Scheduler
  <2>1. ASSUME NEW r \in Requests, Cleanup(r) \/ Arrive(r) PROVE JobMove
    BY <2>1 DEF Cleanup, Arrive, JobMove
  <2>2. ASSUME NEW r \in Requests, NEW k \in Keys, Lookup(r, k) PROVE JobMove
    BY <2>2 DEF Lookup, RamHit, Retry, Miss, Promote, Refused, JobMove
  <2>3. CASE FlushPromotions
    BY <2>3 DEF FlushPromotions, TypeOK, JobMove
  <2>4. ASSUME NEW K \in SUBSET Keys, CompleteStore(K) PROVE JobMove
    BY <2>4 DEF CompleteStore, JobMove
  <2>5. ASSUME NEW k \in Keys, SkipStore(k) PROVE JobMove
    BY <2>5 DEF SkipStore, JobMove
  <2>6. CASE GetFinishedJobs
    <3> DEFINE done == {j \in Jobs : job[j].kind # "free" /\ job[j].left = 0}
    <3>1. job' = [j \in Jobs |-> IF j \in done THEN NoJob ELSE job[j]]
      BY <2>6 DEF GetFinishedJobs
    <3>2. done \in SUBSET Jobs
      OBVIOUS
    <3> QED
      BY <3>1, <3>2 DEF JobMove
  <2>7. ASSUME NEW a \in answers, Drain(a) PROVE JobMove
    BY <2>7 DEF Drain, JobMove
  <2> QED
    BY <1>2, <2>1, <2>2, <2>3, <2>4, <2>5, <2>6, <2>7 DEF Scheduler
<1>3. ASSUME NEW j \in Jobs, NEW b \in job[j].batches, FailWrite(j, b) PROVE JobMove
  BY <1>3 DEF FailWrite, JobMove
<1>4. ASSUME NEW j \in Jobs, NEW b \in job[j].batches, NEW k \in b,
             WriteBlock(j, b, k) \/ ReadBlock(j, b, k) \/ FailRead(j, b, k)
      PROVE  JobMove
  BY <1>4 DEF WriteBlock, ReadBlock, FailRead, JobMove
<1>5. ASSUME NEW k \in Keys, Stat(k) PROVE JobMove
  BY <1>5 DEF Stat, JobMove
<1>6. CASE Environment
  BY <1>6 DEF Environment, Reap, Damage, Spoil, JobMove
<1> QED
  BY <1>1, <1>2, <1>3, <1>4, <1>5, <1>6 DEF Next, Workers

LEMMA JobsStep == ASSUME TypeOK, JobsOK, [Next]_vars PROVE JobsOK' /\ DOMAIN job' = Jobs
<1> USE DEF JobsOK
<1>1. DOMAIN job = Jobs
  BY DEF TypeOK
<1>2. CASE job' = job
  BY <1>1, <1>2
<1>3. ASSUME NEW kind \in {"store", "load"}, NEW K \in SUBSET Keys, Submit(kind, K)
      PROVE  JobsOK' /\ DOMAIN job' = Jobs
  <2>1. PICK j \in Jobs, P \in Split(K) : job' = [job EXCEPT ![j] = NewJob(kind, K, P)]
    BY <1>3 DEF Submit, Active
  <2> QED
    BY <2>1, <1>1, NewJobOK
<1>4. ASSUME NEW j \in Jobs, NEW b \in job[j].batches, NEW k \in b,
             job' = [job EXCEPT ![j] = Advance(@, b, k)]
      PROVE  JobsOK' /\ DOMAIN job' = Jobs
  <2>1. JobOK(Advance(job[j], b, k))
    BY AdvanceOK
  <2> QED
    BY <2>1, <1>1, <1>4
<1>5. ASSUME NEW j \in Jobs, NEW b \in job[j].batches,
             job' = [job EXCEPT ![j] = TaskDone(@, b, {}, TRUE)]
      PROVE  JobsOK' /\ DOMAIN job' = Jobs
  <2>1. JobOK(TaskDone(job[j], b, {}, TRUE))
    BY TaskDoneOK
  <2> QED
    BY <2>1, <1>1, <1>5
<1>6. ASSUME NEW done \in SUBSET Jobs,
             job' = [j \in Jobs |-> IF j \in done THEN NoJob ELSE job[j]]
      PROVE  JobsOK' /\ DOMAIN job' = Jobs
  BY <1>6, NoJobOK
<1> QED
  BY StepJobMove, <1>2, <1>3, <1>4, <1>5, <1>6 DEF JobMove

LEMMA Spend == ASSUME TypeOK, faults < MaxFaults PROVE faults + 1 \in 0..MaxFaults
BY SizeAssumption DEF TypeOK

LEMMA TypeStep == ASSUME TypeOK, JobsOK, [Next]_vars PROVE TypeOK'
<1> DEFINE Rest ==
      /\ file' \in [Keys -> {"none", "good", "short"}]
      /\ verdict' \in [Keys -> {"none", "asking", "present", "absent"}]
      /\ refs' \in [Keys -> SUBSET Requests]
      /\ reqKeys' \in [Requests -> SUBSET Keys]
      /\ queued' \subseteq Keys
      /\ answers' \subseteq Keys \X {"present", "absent"}
      /\ ram' \in [Keys -> {"none", "writing", "ready"}]
      /\ pending' \subseteq Keys
      /\ computed' \subseteq Keys
      /\ request' \in [Requests -> {"new", "live", "finished"}]
      /\ got' \in [Requests -> SUBSET Keys]
      /\ faults' \in 0..MaxFaults
      /\ landed' \subseteq Keys
<1> USE DEF vars, lookups, tables, requests
<1>1. job' \in [Jobs -> JobRecord]
  <2>1. \A j \in Jobs : job'[j] \in JobRecord
    BY JobsStep DEF JobsOK, JobOK
  <2>2. job' = [j \in Jobs |-> job'[j]]
    BY StepJobMove, JobsStep DEF JobMove, Submit, TypeOK
  <2> QED
    BY <2>1, <2>2
<1>2. ASSUME UNCHANGED vars PROVE Rest
  BY <1>2 DEF TypeOK
<1>3. ASSUME Scheduler PROVE Rest
  <2>1. ASSUME NEW r \in Requests, Cleanup(r) PROVE Rest
    BY <2>1 DEF Cleanup, TypeOK
  <2>2. ASSUME NEW r \in Requests, Arrive(r) PROVE Rest
    BY <2>2 DEF Arrive, TypeOK
  <2>3. ASSUME NEW r \in Requests, NEW k \in Keys, Lookup(r, k) PROVE Rest
    <3>1. ASSUME RamHit(r, k) PROVE Rest
      BY <3>1 DEF RamHit, Answer, TypeOK
    <3>2. ASSUME Reference(r, k)
          PROVE  /\ verdict' \in [Keys -> {"none", "asking", "present", "absent"}]
                 /\ refs' \in [Keys -> SUBSET Requests]
                 /\ reqKeys' \in [Requests -> SUBSET Keys]
                 /\ queued' \subseteq Keys
                 /\ answers' \subseteq Keys \X {"present", "absent"}
      BY <3>2 DEF Reference, TypeOK
    <3>3. ASSUME Retry(r, k) PROVE Rest
      BY <3>2, <3>3 DEF Retry, TypeOK
    <3>4. ASSUME Miss(r, k) PROVE Rest
      BY <3>2, <3>4 DEF Miss, Answer, TypeOK
    <3>5. ASSUME Promote(r, k) PROVE Rest
      BY <3>2, <3>5 DEF Promote, Placed, TypeOK
    <3>6. ASSUME Refused(r, k) PROVE Rest
      BY <3>2, <3>6 DEF Refused, Answer, TypeOK
    <3> QED
      BY <2>3, <3>1, <3>3, <3>4, <3>5, <3>6 DEF Lookup
  <2>4. ASSUME FlushPromotions PROVE Rest
    BY <2>4 DEF FlushPromotions, TypeOK
  <2>5. ASSUME NEW K \in SUBSET Keys, CompleteStore(K) PROVE Rest
    BY <2>5 DEF CompleteStore, Placed, TypeOK
  <2>6. ASSUME NEW k \in Keys, SkipStore(k) PROVE Rest
    BY <2>6 DEF SkipStore, TypeOK
  <2>7. ASSUME GetFinishedJobs PROVE Rest
    <3>1. KeysOf(Finished("store", FALSE)) \subseteq Keys
      BY DEF KeysOf, Finished, Active, TypeOK, JobRecord
    <3> QED
      BY <2>7, <3>1 DEF GetFinishedJobs, TypeOK
  <2>8. ASSUME NEW a \in answers, Drain(a) PROVE Rest
    <3>1. a[1] \in Keys /\ a[2] \in {"present", "absent"}
      BY DEF TypeOK
    <3> QED
      BY <2>8, <3>1 DEF Drain, TypeOK
  <2> QED
    BY <1>3, <2>1, <2>2, <2>3, <2>4, <2>5, <2>6, <2>7, <2>8 DEF Scheduler
<1>4. ASSUME NEW j \in Jobs, NEW b \in job[j].batches, FailWrite(j, b) PROVE Rest
  BY <1>4, Spend DEF FailWrite, TypeOK
<1>5. ASSUME NEW j \in Jobs, NEW b \in job[j].batches, NEW k \in b,
             WriteBlock(j, b, k) \/ ReadBlock(j, b, k) \/ FailRead(j, b, k)
      PROVE  Rest
  <2>1. k \in Keys
    BY DEF TypeOK, JobRecord
  <2> QED
    BY ZenonT(20), <2>1, <1>5, Spend DEF WriteBlock, ReadBlock, FailRead, TypeOK
<1>6. ASSUME NEW k \in Keys, Stat(k) PROVE Rest
  BY <1>6 DEF Stat, TypeOK
<1>7. ASSUME Environment PROVE Rest
  <2>1. PICK k \in Keys, state \in {"none", "short"} : Spoil(k, state)
    BY <1>7 DEF Environment, Reap, Damage
  <2> QED
    BY <2>1, Spend DEF Spoil, TypeOK
<1>8. Rest
  BY <1>2, <1>3, <1>4, <1>5, <1>6, <1>7 DEF Next, Workers
<1> QED
  BY <1>1, <1>8 DEF TypeOK

-----------------------------------------------------------------------------
(* The lookup cache: an entry has a request, and only live ones that will   *)
(* visit it in their cleanup.                                               *)

LEMMA OrphanStep ==
    ASSUME TypeOK, NoOrphanEntry, [Next]_vars PROVE NoOrphanEntry'
<1> USE DEF vars, lookups, tables, requests, NoOrphanEntry
<1> DEFINE Same == UNCHANGED <<tables, request>>
<1>1. CASE UNCHANGED vars
  BY <1>1
<1>2. ASSUME Same PROVE NoOrphanEntry'
  BY <1>2
<1>3. CASE Scheduler
  <2>1. ASSUME NEW r \in Requests, Cleanup(r) PROVE NoOrphanEntry'
    <3>1. /\ request' = [request EXCEPT ![r] = "finished"]
          /\ reqKeys' = [reqKeys EXCEPT ![r] = {}]
      BY <2>1 DEF Cleanup
    <3>2. ASSUME NEW k \in Keys
          PROVE  /\ verdict'[k] = "none" <=> refs'[k] = {}
                 /\ \A q \in refs'[k] : request'[q] = "live" /\ k \in reqKeys'[q]
      <4>1. CASE k \in reqKeys[r]
        <5>1. refs'[k] = refs[k] \ {r}
          BY <2>1, <4>1 DEF Cleanup
        <5>2. verdict'[k] = IF refs[k] \subseteq {r} THEN "none" ELSE verdict[k]
          BY <2>1, <4>1 DEF Cleanup
        <5> QED
          BY <3>1, <5>1, <5>2 DEF TypeOK
      <4>2. CASE k \notin reqKeys[r]
        <5>1. refs'[k] = refs[k] /\ verdict'[k] = verdict[k]
          BY <2>1, <4>2 DEF Cleanup
        <5>2. r \notin refs[k]
          BY <4>2
        <5> QED
          BY <3>1, <5>1, <5>2 DEF TypeOK
      <4> QED
        BY <4>1, <4>2
    <3> QED
      BY <3>2
  <2>2. ASSUME NEW r \in Requests, Arrive(r) PROVE NoOrphanEntry'
    BY <2>2 DEF Arrive, TypeOK
  <2>3. ASSUME NEW r \in Requests, NEW k \in Keys, Lookup(r, k) PROVE NoOrphanEntry'
    <3>1. ASSUME Reference(r, k), request[r] = "live", request' = request
          PROVE  NoOrphanEntry'
      BY <3>1 DEF Reference, TypeOK
    <3> QED
      BY <2>3, <3>1, <1>2 DEF Lookup, RamHit, Retry, Miss, Promote, Refused, Asks
  <2>4. CASE FlushPromotions
    BY <2>4, <1>2 DEF FlushPromotions
  <2>5. ASSUME NEW K \in SUBSET Keys, CompleteStore(K) PROVE NoOrphanEntry'
    BY <2>5, <1>2 DEF CompleteStore
  <2>6. ASSUME NEW k \in Keys, SkipStore(k) PROVE NoOrphanEntry'
    BY <2>6, <1>2 DEF SkipStore
  <2>7. CASE GetFinishedJobs
    <3> DEFINE stored == KeysOf(Finished("store", FALSE))
               lost == KeysOf(Finished("load", TRUE))
               dropped == (IF LookupInvalidate THEN Invalidated(stored) ELSE {})
                            \cup (IF FailedLoadForget THEN Forgotten(lost) ELSE {})
    <3>1.   /\ verdict' = [k \in Keys |-> IF k \in dropped THEN "none" ELSE verdict[k]]
            /\ refs' = [k \in Keys |-> IF k \in dropped THEN {} ELSE refs[k]]
      BY <2>7 DEF GetFinishedJobs
    <3>2. UNCHANGED <<request, reqKeys>>
      BY <2>7 DEF GetFinishedJobs
    <3> HIDE DEF dropped
    <3> QED
      BY <3>1, <3>2 DEF TypeOK
  <2>8. ASSUME NEW a \in answers, Drain(a) PROVE NoOrphanEntry'
    <3>1. a[1] \in Keys /\ a[2] \in {"present", "absent"}
      BY DEF TypeOK
    <3> QED
      BY <2>8, <3>1 DEF Drain, TypeOK
  <2> QED
    BY <1>3, <2>1, <2>2, <2>3, <2>4, <2>5, <2>6, <2>7, <2>8 DEF Scheduler
<1>4. CASE Workers
  <2>1. ASSUME NEW j \in Jobs, NEW b \in job[j].batches, FailWrite(j, b) PROVE Same
    BY <2>1 DEF FailWrite
  <2>2. ASSUME NEW j \in Jobs, NEW b \in job[j].batches, NEW k \in b,
               WriteBlock(j, b, k) \/ ReadBlock(j, b, k) \/ FailRead(j, b, k)
        PROVE  Same
    BY <2>2 DEF WriteBlock, ReadBlock, FailRead
  <2> HIDE DEF Same
  <2> QED
    BY <1>4, <1>2, <2>1, <2>2 DEF Workers
<1>5. ASSUME NEW k \in Keys, Stat(k) PROVE NoOrphanEntry'
  BY <1>5, <1>2 DEF Stat
<1>6. CASE Environment
  BY <1>6, <1>2 DEF Environment, Reap, Damage, Spoil
<1> QED
  BY <1>1, <1>3, <1>4, <1>5, <1>6 DEF Next

-----------------------------------------------------------------------------
(* The RAM tier and the jobs.                                               *)

\* A block a store reads is readable; a block a load writes is under
\* promotion, no longer pending and in no other load; a pending promotion has
\* its block; and every block under promotion is pending or in a load.
StoresReadReady == \A j \in Jobs : job[j].kind = "store" => \A k \in job[j].keys : ram[k] = "ready"
LoadsWrite ==
    \A j \in Jobs : job[j].kind = "load" =>
        \A k \in job[j].keys :
            /\ ram[k] = "writing" /\ k \notin pending
            /\ \A i \in Jobs : job[i].kind = "load" /\ k \in job[i].keys => i = j
PendingWrite == \A k \in pending : ram[k] = "writing"
WritingIsWanted ==
    \A k \in Keys : ram[k] = "writing" =>
        k \in pending \/ \E j \in Jobs : job[j].kind = "load" /\ k \in job[j].keys

RamOK == StoresReadReady /\ LoadsWrite /\ PendingWrite /\ WritingIsWanted

LEMMA RamAgrees == ASSUME TypeOK, JobsOK, RamOK PROVE RamAgreesWithJobs
<1>1. BatchesHoldRam
  <2> SUFFICES ASSUME NEW j \in Jobs, NEW b \in job[j].batches
               PROVE  /\ job[j].left > 0
                      /\ b \subseteq job[j].keys
                      /\ job[j].kind = "store" => \A k \in b : ram[k] = "ready"
                      /\ job[j].kind = "load" => \A k \in b : ram[k] = "writing"
    BY DEF BatchesHoldRam
  <2>1. JobOK(job[j])
    BY DEF JobsOK
  <2>2. b \subseteq job[j].keys
    BY <2>1 DEF JobOK
  <2>3. job[j].left > 0
    <3>1. job[j].left \in Nat /\ IsFiniteSet(job[j].batches)
      BY <2>1 DEF JobOK, JobRecord
    <3>2. Cardinality(job[j].batches) # 0
      BY <3>1, FS_EmptySet
    <3> QED
      BY <3>1, <3>2, <2>1 DEF JobOK
  <2> QED
    BY <2>2, <2>3 DEF RamOK, StoresReadReady, LoadsWrite
<1>2. WritingHasLoad
  <2> SUFFICES ASSUME NEW k \in Keys, ram[k] = "writing"
               PROVE  \/ k \in pending /\ \A j \in Active("load") : k \notin job[j].keys
                      \/ k \notin pending /\ \E j \in Active("load") :
                           /\ k \in job[j].keys
                           /\ \A i \in Active("load") \ {j} : k \notin job[i].keys
    BY DEF WritingHasLoad
  <2>1. CASE k \in pending
    BY <2>1 DEF RamOK, LoadsWrite, Active
  <2>2. CASE k \notin pending
    <3>1. PICK j \in Jobs : job[j].kind = "load" /\ k \in job[j].keys
      BY <2>2 DEF RamOK, WritingIsWanted
    <3> QED
      BY <2>2, <3>1 DEF RamOK, LoadsWrite, Active
  <2> QED
    BY <2>1, <2>2
<1> QED
  BY <1>1, <1>2 DEF RamAgreesWithJobs

\* A worker's step changes no job's kind and no job's keys.
SameClaims == \A j \in Jobs : job'[j].kind = job[j].kind /\ job'[j].keys = job[j].keys

LEMMA RamFrame ==
    ASSUME RamOK, SameClaims, UNCHANGED <<ram, pending>>
    PROVE  RamOK'
BY DEF RamOK, SameClaims, StoresReadReady, LoadsWrite, PendingWrite, WritingIsWanted

LEMMA SameClaimsWhenSame == ASSUME UNCHANGED job PROVE SameClaims
BY DEF SameClaims

LEMMA WorkersClaim == ASSUME TypeOK, JobsOK, Workers PROVE SameClaims /\ UNCHANGED <<ram, pending>>
<1>1. ASSUME NEW j \in Jobs, NEW b \in job[j].batches, NEW k \in b,
             job' = [job EXCEPT ![j] = Advance(@, b, k)]
      PROVE  SameClaims
  <2>1. /\ Advance(job[j], b, k).keys = job[j].keys
        /\ Advance(job[j], b, k).kind = job[j].kind
    BY AdvanceOK DEF JobsOK
  <2> QED
    BY <1>1, <2>1 DEF SameClaims, TypeOK
<1>2. ASSUME NEW j \in Jobs, NEW b \in job[j].batches,
             job' = [job EXCEPT ![j] = TaskDone(@, b, {}, TRUE)]
      PROVE  SameClaims
  <2>1. /\ TaskDone(job[j], b, {}, TRUE).keys = job[j].keys
        /\ TaskDone(job[j], b, {}, TRUE).kind = job[j].kind
    BY TaskDoneOK DEF JobsOK
  <2> QED
    BY <1>2, <2>1 DEF SameClaims, TypeOK
<1>3. ASSUME NEW j \in Jobs, NEW b \in job[j].batches, FailWrite(j, b)
      PROVE  SameClaims /\ UNCHANGED <<ram, pending>>
  BY <1>2, <1>3 DEF FailWrite
<1>4. ASSUME NEW j \in Jobs, NEW b \in job[j].batches, NEW k \in b,
             WriteBlock(j, b, k) \/ ReadBlock(j, b, k) \/ FailRead(j, b, k)
      PROVE  SameClaims /\ UNCHANGED <<ram, pending>>
  <2>1. CASE FailRead(j, b, k)
    BY <1>2, <2>1 DEF FailRead
  <2>2. CASE WriteBlock(j, b, k) \/ ReadBlock(j, b, k)
    BY <1>1, <2>2 DEF WriteBlock, ReadBlock
  <2> QED
    BY <1>4, <2>1, <2>2
<1> QED
  BY <1>3, <1>4 DEF Workers

\* A job submitted in a free slot: what it claims, and what the others keep.
LEMMA Submitted ==
    ASSUME TypeOK, NEW kind \in {"store", "load"}, NEW K \in SUBSET Keys, Submit(kind, K)
    PROVE  \E j \in Jobs :
              /\ job[j].kind = "free"
              /\ job'[j].kind = kind /\ job'[j].keys = K
              /\ \A i \in Jobs \ {j} : job'[i] = job[i]
BY DEF Submit, Active, NewJob, TypeOK

LEMMA VictimsReady ==
    ASSUME NEW n, NEW E \in Victims(n), NEW k \in E
    PROVE  /\ k \in Keys /\ ram[k] = "ready"
           /\ \A j \in Jobs : job[j].kind = "store" => k \notin job[j].keys
BY DEF Victims, Evictable, Held, Active

LEMMA PromoteRam ==
    ASSUME TypeOK, RamOK, NEW r \in Requests, NEW k \in Keys, Promote(r, k)
    PROVE  RamOK'
<1>1. PICK E \in Victims(1) : ram' = Placed({k}, E, "writing")
  BY DEF Promote
<1>2. ram[k] = "none" /\ pending' = pending \cup {k} /\ job' = job
  BY DEF Promote
<1>3. \A c \in Keys : ram'[c] = IF c = k THEN "writing" ELSE IF c \in E THEN "none" ELSE ram[c]
  BY <1>1 DEF Placed
<1>4. \A c \in E : /\ ram[c] = "ready"
                   /\ \A j \in Jobs : job[j].kind = "store" => c \notin job[j].keys
  BY VictimsReady
<1>5. \A j \in Jobs : job[j].keys \subseteq Keys
  BY DEF TypeOK, JobRecord
<1>6. pending \subseteq Keys
  BY DEF TypeOK
<1>7. StoresReadReady'
  BY <1>2, <1>3, <1>4, <1>5 DEF RamOK, StoresReadReady
<1>8. LoadsWrite'
  BY <1>2, <1>3, <1>4, <1>5 DEF RamOK, LoadsWrite
<1>9. PendingWrite'
  BY <1>2, <1>3, <1>4, <1>6 DEF RamOK, PendingWrite
<1>10. WritingIsWanted'
  BY <1>2, <1>3, <1>4 DEF RamOK, WritingIsWanted
<1> QED
  BY <1>7, <1>8, <1>9, <1>10 DEF RamOK

LEMMA FlushRam == ASSUME TypeOK, RamOK, FlushPromotions PROVE RamOK'
<1>1. pending \in SUBSET Keys /\ Submit("load", pending) /\ ram' = ram /\ pending' = {}
  BY DEF FlushPromotions, TypeOK
<1>2. PICK j \in Jobs :
         /\ job[j].kind = "free"
         /\ job'[j].kind = "load" /\ job'[j].keys = pending
         /\ \A i \in Jobs \ {j} : job'[i] = job[i]
  BY <1>1, Submitted
<1>3. StoresReadReady'
  BY <1>1, <1>2 DEF RamOK, StoresReadReady
<1>4. LoadsWrite'
  <2>1. ASSUME NEW i \in Jobs \ {j}, job[i].kind = "load", NEW k \in job[i].keys
        PROVE  k \notin pending
    BY <2>1 DEF RamOK, LoadsWrite
  <2>2. \A k \in pending : ram[k] = "writing"
    BY DEF RamOK, PendingWrite
  <2> QED
    BY <1>1, <1>2, <2>1, <2>2 DEF RamOK, LoadsWrite
<1>5. PendingWrite'
  BY <1>1 DEF PendingWrite
<1>6. WritingIsWanted'
  <2> SUFFICES ASSUME NEW k \in Keys, ram[k] = "writing"
               PROVE  \E i \in Jobs : job'[i].kind = "load" /\ k \in job'[i].keys
    BY <1>1 DEF WritingIsWanted
  <2>1. CASE k \in pending
    BY <2>1, <1>2
  <2>2. CASE k \notin pending
    <3>1. PICK i \in Jobs : job[i].kind = "load" /\ k \in job[i].keys
      BY <2>2 DEF RamOK, WritingIsWanted
    <3>2. i # j
      BY <3>1, <1>2
    <3> QED
      BY <3>1, <3>2, <1>2
  <2> QED
    BY <2>1, <2>2
<1> QED
  BY <1>3, <1>4, <1>5, <1>6 DEF RamOK

LEMMA CompleteRam ==
    ASSUME TypeOK, RamOK, NEW K \in SUBSET Keys, CompleteStore(K)
    PROVE  RamOK'
<1>1. PICK E \in Victims(Cardinality(K)) : ram' = Placed(K, E, "ready")
  BY DEF CompleteStore
<1>2. Submit("store", K) /\ pending' = pending /\ \A c \in K : ram[c] = "none"
  BY DEF CompleteStore
<1>3. \A c \in Keys : ram'[c] = IF c \in K THEN "ready" ELSE IF c \in E THEN "none" ELSE ram[c]
  BY <1>1 DEF Placed
<1>4. \A c \in E : /\ ram[c] = "ready"
                   /\ \A j \in Jobs : job[j].kind = "store" => c \notin job[j].keys
  BY VictimsReady
<1>5. PICK j \in Jobs :
         /\ job[j].kind = "free"
         /\ job'[j].kind = "store" /\ job'[j].keys = K
         /\ \A i \in Jobs \ {j} : job'[i] = job[i]
  BY <1>2, Submitted
<1>6. \A i \in Jobs : job[i].keys \subseteq Keys
  BY DEF TypeOK, JobRecord
<1>7. pending \subseteq Keys
  BY DEF TypeOK
<1>8. StoresReadReady'
  BY <1>3, <1>4, <1>5, <1>6 DEF RamOK, StoresReadReady
<1>9. \A c \in Keys : ram[c] = "writing" => ram'[c] = "writing"
  BY <1>2, <1>3, <1>4
<1>10. LoadsWrite'
  BY <1>2, <1>5, <1>6, <1>9 DEF RamOK, LoadsWrite
<1>11. PendingWrite'
  BY <1>2, <1>7, <1>9 DEF RamOK, PendingWrite
<1>12. WritingIsWanted'
  <2> SUFFICES ASSUME NEW k \in Keys, ram'[k] = "writing", k \notin pending
               PROVE  \E i \in Jobs : job'[i].kind = "load" /\ k \in job'[i].keys
    BY <1>2 DEF WritingIsWanted
  <2>1. ram[k] = "writing"
    BY <1>3
  <2>2. PICK i \in Jobs : job[i].kind = "load" /\ k \in job[i].keys
    BY <2>1 DEF RamOK, WritingIsWanted
  <2>3. i # j
    BY <2>2, <1>5
  <2> QED
    BY <2>2, <2>3, <1>5
<1> QED
  BY <1>8, <1>10, <1>11, <1>12 DEF RamOK

LEMMA FinishRam == ASSUME TypeOK, RamOK, GetFinishedJobs PROVE RamOK'
<1> DEFINE done == {j \in Jobs : job[j].kind # "free" /\ job[j].left = 0}
           loaded == KeysOf(Finished("load", FALSE))
           lost == KeysOf(Finished("load", TRUE))
<1>1. /\ \A j \in Jobs : job'[j] = IF j \in done THEN NoJob ELSE job[j]
      /\ \A k \in Keys : ram'[k] = IF k \in loaded THEN "ready"
                                   ELSE IF k \in lost THEN "none" ELSE ram[k]
      /\ pending' = pending
  BY DEF GetFinishedJobs
<1>2. \A j \in Jobs : job[j].keys \subseteq Keys /\ job[j].failed \in BOOLEAN
  BY DEF TypeOK, JobRecord
<1>3. \A k \in loaded \cup lost :
         \E j \in Jobs : j \in done /\ job[j].kind = "load" /\ k \in job[j].keys
  BY DEF KeysOf, Finished, Active
<1>4. \A j \in Jobs : j \in done /\ job[j].kind = "load" => job[j].keys \subseteq loaded \cup lost
  BY <1>2 DEF KeysOf, Finished, Active
<1>5. \A j \in Jobs : j \in done => job'[j].kind = "free"
  BY <1>1 DEF NoJob
<1>6. \A j \in Jobs : j \notin done => job'[j] = job[j]
  BY <1>1
<1> HIDE DEF done, loaded, lost
<1>7. \A k \in loaded \cup lost : ram[k] = "writing" /\ k \notin pending
  BY <1>3 DEF RamOK, LoadsWrite
<1>8. \A j \in Jobs : \A k \in job[j].keys :
         job'[j].kind = "load" => j \notin done /\ job[j].kind = "load" /\ k \notin loaded \cup lost
  <2> SUFFICES ASSUME NEW j \in Jobs, NEW k \in job[j].keys, job'[j].kind = "load"
               PROVE  j \notin done /\ job[j].kind = "load" /\ k \notin loaded \cup lost
    OBVIOUS
  <2>1. j \notin done /\ job[j].kind = "load"
    BY <1>5, <1>6
  <2> QED
    BY <2>1, <1>3 DEF RamOK, LoadsWrite
<1>9. StoresReadReady'
  <2> SUFFICES ASSUME NEW j \in Jobs, job'[j].kind = "store", NEW k \in job'[j].keys
               PROVE  ram'[k] = "ready"
    BY DEF StoresReadReady
  <2>1. job'[j] = job[j]
    BY <1>5, <1>6
  <2>2. k \in Keys /\ ram[k] = "ready"
    BY <2>1, <1>2 DEF RamOK, StoresReadReady
  <2> QED
    BY <2>2, <1>1, <1>7
<1>10. LoadsWrite'
  <2> SUFFICES ASSUME NEW j \in Jobs, job'[j].kind = "load", NEW k \in job'[j].keys
               PROVE  /\ ram'[k] = "writing" /\ k \notin pending'
                      /\ \A i \in Jobs : job'[i].kind = "load" /\ k \in job'[i].keys => i = j
    BY DEF LoadsWrite
  <2>1. job'[j] = job[j] /\ job[j].kind = "load" /\ k \in Keys
    BY <1>2, <1>5, <1>6
  <2>2. k \notin loaded \cup lost
    BY <2>1, <1>8
  <2>3. \A i \in Jobs : job'[i].kind = "load" => job'[i] = job[i]
    BY <1>5, <1>6
  <2> QED
    BY <2>1, <2>2, <2>3, <1>1 DEF RamOK, LoadsWrite
<1>11. PendingWrite'
  <2>1. pending \subseteq Keys
    BY DEF TypeOK
  <2> QED
    BY <2>1, <1>1, <1>7 DEF RamOK, PendingWrite
<1>12. WritingIsWanted'
  <2> SUFFICES ASSUME NEW k \in Keys, ram'[k] = "writing", k \notin pending
               PROVE  \E i \in Jobs : job'[i].kind = "load" /\ k \in job'[i].keys
    BY <1>1 DEF WritingIsWanted
  <2>1. ram[k] = "writing" /\ k \notin loaded \cup lost
    BY <1>1
  <2>2. PICK i \in Jobs : job[i].kind = "load" /\ k \in job[i].keys
    BY <2>1 DEF RamOK, WritingIsWanted
  <2>3. i \notin done
    BY <2>1, <2>2, <1>4
  <2> QED
    BY <2>2, <2>3, <1>6
<1> QED
  BY <1>9, <1>10, <1>11, <1>12 DEF RamOK

LEMMA RamStep == ASSUME TypeOK, JobsOK, RamOK, [Next]_vars PROVE RamOK'
<1> DEFINE Same == UNCHANGED <<job, ram, pending>>
<1> USE DEF vars, lookups, tables, requests
<1>1. ASSUME Same PROVE RamOK'
  BY <1>1, RamFrame, SameClaimsWhenSame
<1>2. ASSUME UNCHANGED vars PROVE Same
  BY <1>2
<1>3. CASE Scheduler
  <2>1. ASSUME NEW r \in Requests, Cleanup(r) \/ Arrive(r) PROVE Same
    BY <2>1 DEF Cleanup, Arrive
  <2>2. ASSUME NEW r \in Requests, NEW k \in Keys, Lookup(r, k) PROVE RamOK'
    <3>1. ASSUME ~Promote(r, k) PROVE Same
      BY <2>2, <3>1 DEF Lookup, RamHit, Retry, Miss, Refused
    <3> QED
      BY <1>1, <3>1, PromoteRam
  <2>3. ASSUME NEW k \in Keys, SkipStore(k) PROVE Same
    BY <2>3 DEF SkipStore
  <2>4. ASSUME NEW a \in answers, Drain(a) PROVE Same
    BY <2>4 DEF Drain
  <2> HIDE DEF Same
  <2> QED
    BY <1>1, <1>3, <2>1, <2>2, <2>3, <2>4, FlushRam, CompleteRam, FinishRam DEF Scheduler
<1>4. CASE Workers
  BY <1>4, WorkersClaim, RamFrame
<1>5. ASSUME NEW k \in Keys, Stat(k) PROVE Same
  BY <1>5 DEF Stat
<1>6. ASSUME Environment PROVE Same
  BY <1>6 DEF Environment, Reap, Damage, Spoil
<1> HIDE DEF Same
<1> QED
  BY <1>1, <1>2, <1>3, <1>4, <1>5, <1>6 DEF Next

-----------------------------------------------------------------------------
(* Landed stores.                                                           *)

\* The file of a landed key is on disk, no `absent` answer about it is on its
\* way, and no verdict says `absent`.
LandedOK ==
    \A k \in landed :
        file[k] # "none" /\ <<k, "absent">> \notin answers /\ verdict[k] # "absent"

LEMMA LandedStep ==
    ASSUME LookupInvalidate, TypeOK, LandedOK, [Next]_vars PROVE LandedOK'
<1> USE DEF vars, lookups, tables, requests
<1> DEFINE Same == UNCHANGED <<file, verdict, answers, landed>>
<1>1. ASSUME Same PROVE LandedOK'
  BY <1>1 DEF LandedOK
<1>2. ASSUME UNCHANGED vars PROVE Same
  BY <1>2
<1>3. CASE Scheduler
  <2>1. ASSUME NEW r \in Requests, Arrive(r) PROVE Same
    BY <2>1 DEF Arrive
  <2>2. ASSUME NEW r \in Requests, Cleanup(r) PROVE LandedOK'
    <3>1. UNCHANGED <<file, answers, landed>> /\ landed \subseteq Keys
      BY <2>2 DEF Cleanup, TypeOK
    <3>2. \A k \in Keys : verdict'[k] = "none" \/ verdict'[k] = verdict[k]
      BY <2>2 DEF Cleanup
    <3> QED
      BY <3>1, <3>2 DEF LandedOK
  <2>3. ASSUME NEW r \in Requests, NEW k \in Keys, Lookup(r, k) PROVE LandedOK'
    <3>1. UNCHANGED <<file, answers, landed>>
      BY <2>3 DEF Lookup, RamHit, Retry, Miss, Promote, Refused, Reference
    <3>2. \A c \in Keys : verdict'[c] = "asking" \/ verdict'[c] = verdict[c]
      BY <2>3 DEF Lookup, RamHit, Retry, Miss, Promote, Refused, Reference, TypeOK
    <3>3. landed \subseteq Keys
      BY DEF TypeOK
    <3> QED
      BY <3>1, <3>2, <3>3 DEF LandedOK
  <2>4. ASSUME FlushPromotions PROVE Same
    BY <2>4 DEF FlushPromotions
  <2>5. ASSUME NEW K \in SUBSET Keys, CompleteStore(K) PROVE Same
    BY <2>5 DEF CompleteStore
  <2>6. ASSUME NEW k \in Keys, SkipStore(k) PROVE Same
    BY <2>6 DEF SkipStore
  <2>7. CASE GetFinishedJobs
    <3> DEFINE stored == KeysOf(Finished("store", FALSE))
               lost == KeysOf(Finished("load", TRUE))
               dropped == Invalidated(stored)
                            \cup (IF FailedLoadForget THEN Forgotten(lost) ELSE {})
    <3>1. /\ verdict' = [k \in Keys |-> IF k \in dropped THEN "none" ELSE verdict[k]]
          /\ landed' = landed \cup
                         {k \in stored : file[k] # "none" /\ <<k, "absent">> \notin answers}
          /\ UNCHANGED <<file, answers>>
      BY <2>7 DEF GetFinishedJobs
    <3>2. stored \subseteq Keys /\ landed \subseteq Keys
      BY DEF KeysOf, Finished, Active, TypeOK, JobRecord
    <3>3. \A k \in stored : verdict[k] = "absent" => k \in dropped
      BY DEF Invalidated
    <3> HIDE DEF stored, dropped
    <3> QED
      BY <3>1, <3>2, <3>3 DEF LandedOK
  <2>8. ASSUME NEW a \in answers, Drain(a) PROVE LandedOK'
    <3>1. a = <<a[1], a[2]>> /\ a[1] \in Keys /\ landed \subseteq Keys
      BY DEF TypeOK
    <3>2. /\ answers' \subseteq answers /\ UNCHANGED <<file, landed>>
          /\ \A k \in Keys : verdict'[k] = IF k = a[1] /\ verdict[k] = "asking" THEN a[2]
                                           ELSE verdict[k]
      BY <2>8 DEF Drain, TypeOK
    <3> QED
      BY <3>1, <3>2 DEF LandedOK
  <2> HIDE DEF Same
  <2> QED
    BY <1>1, <1>3, <2>1, <2>2, <2>3, <2>4, <2>5, <2>6, <2>7, <2>8 DEF Scheduler
<1>4. ASSUME NEW j \in Jobs, NEW b \in job[j].batches, FailWrite(j, b) PROVE Same
  BY <1>4 DEF FailWrite
<1>5. ASSUME NEW j \in Jobs, NEW b \in job[j].batches, NEW k \in b, WriteBlock(j, b, k)
      PROVE  LandedOK'
  BY <1>5 DEF WriteBlock, LandedOK, TypeOK
<1>6. ASSUME NEW j \in Jobs, NEW b \in job[j].batches, NEW k \in b, ReadBlock(j, b, k)
      PROVE  Same
  BY <1>6 DEF ReadBlock
<1>7. ASSUME NEW j \in Jobs, NEW b \in job[j].batches, NEW k \in b, FailRead(j, b, k)
      PROVE  LandedOK'
  BY <1>7 DEF FailRead, LandedOK, TypeOK
<1>8. ASSUME NEW k \in Keys, Stat(k) PROVE LandedOK'
  <2>1. answers' = answers \cup {<<k, IF file[k] = "none" THEN "absent" ELSE "present">>}
    BY <1>8 DEF Stat
  <2>2. UNCHANGED <<file, verdict, landed>>
    BY <1>8 DEF Stat
  <2> QED
    BY <2>1, <2>2 DEF LandedOK
<1>9. ASSUME Environment PROVE LandedOK'
  <2>1. PICK k \in Keys, state \in {"none", "short"} : Spoil(k, state)
    BY <1>9 DEF Environment, Reap, Damage
  <2> QED
    BY <2>1 DEF Spoil, LandedOK, TypeOK
<1> HIDE DEF Same
<1> QED
  BY <1>1, <1>2, <1>3, <1>4, <1>5, <1>6, <1>7, <1>8, <1>9 DEF Next, Workers

-----------------------------------------------------------------------------
(* The theorems.                                                            *)

IInv == TypeOK /\ JobsOK /\ NoOrphanEntry /\ RamOK

LEMMA InitIInv == Init => IInv
<1> SUFFICES ASSUME Init PROVE IInv
  OBVIOUS
<1>1. NoJob \in JobRecord /\ JobOK(NoJob)
  BY NoJobOK DEF JobOK
<1>2. TypeOK
  BY <1>1, SizeAssumption DEF Init, TypeOK
<1>3. JobsOK
  BY <1>1 DEF Init, JobsOK
<1>4. NoOrphanEntry
  BY DEF Init, NoOrphanEntry
<1>5. RamOK
  BY DEF Init, NoJob, RamOK, StoresReadReady, LoadsWrite, PendingWrite, WritingIsWanted
<1> QED
  BY <1>2, <1>3, <1>4, <1>5 DEF IInv

LEMMA Invariance == Spec => []IInv
<1>1. IInv /\ [Next]_vars => IInv'
  BY TypeStep, JobsStep, OrphanStep, RamStep DEF IInv
<1> QED
  BY InitIInv, <1>1, PTL DEF Spec

\* The types hold; in particular the tasks left to count never go below zero,
\* so a job is published by its last batch and by no other.
THEOREM TypeCorrect == Spec => []TypeOK
BY Invariance, PTL DEF IInv

\* No entry of the lookup cache outlives the requests that looked it up,
\* whatever invalidate, forget and cleanup drop in between.
THEOREM NoOrphan == Spec => []NoOrphanEntry
BY Invariance, PTL DEF IInv

\* A job is reported as successful only when every one of its blocks has been
\* moved, for every fan-out and every order of its batches.
THEOREM SuccessIsComplete == Spec => []SuccessMovedAll
<1>1. IInv => SuccessMovedAll
  <2> SUFFICES ASSUME IInv, NEW j \in Jobs, job[j].left = 0, job[j].failed = FALSE
               PROVE  job[j].moved = job[j].keys
    BY DEF SuccessMovedAll, Finished, Active
  <2>1. JobOK(job[j])
    BY DEF IInv, JobsOK
  <2>2. job[j].batches = {}
    BY <2>1, FS_EmptySet DEF JobOK
  <2> QED
    BY <2>1, <2>2 DEF JobOK
<1> QED
  BY <1>1, Invariance, PTL

\* The RAM tier and the jobs agree, for any number of blocks, jobs and RAM
\* slots: a block a batch reads or writes is neither evicted nor overwritten
\* by anyone else, and a block under promotion belongs to the pending batch or
\* to exactly one load, whose end decides about it.
THEOREM RamAgreement == Spec => []RamAgreesWithJobs
<1>1. IInv => RamAgreesWithJobs
  BY RamAgrees DEF IInv
<1> QED
  BY <1>1, Invariance, PTL

\* With the invalidation on, a store that was reported is never called absent
\* again while its file is there, whatever older answers were still on their
\* way and whatever is reaped or damaged in between.
THEOREM NoStaleMiss == LookupInvalidate => (Spec => []LandedNotAbsent)
<1> SUFFICES ASSUME LookupInvalidate PROVE Spec => []LandedNotAbsent
  OBVIOUS
<1>1. Init => LandedOK
  BY DEF Init, LandedOK
<1>2. IInv /\ LandedOK /\ [Next]_vars => LandedOK'
  BY LandedStep DEF IInv
<1>3. LandedOK => LandedNotAbsent
  BY DEF LandedOK, LandedNotAbsent
<1> QED
  BY <1>1, <1>2, <1>3, Invariance, PTL DEF Spec

=============================================================================
