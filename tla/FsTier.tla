------------------------------- MODULE FsTier -------------------------------
(***************************************************************************)
(* The filesystem tier of the KV-cache offload stack, as the patches under *)
(* kv-cache/ leave it: the per-key lookup cache (AsyncLookupManager), the  *)
(* fs tier's jobs fanned out over a worker pool, the RAM tier blocks those *)
(* jobs read and write, and the out-of-band reaper.                        *)
(*                                                                         *)
(* The scheduler thread runs Lookup, FlushPromotions, CompleteStore,       *)
(* GetFinishedJobs and Cleanup.  Pool workers run WriteBlock, FailWrite,   *)
(* ReadBlock and FailRead, one block file at a time.  The lookup thread    *)
(* runs Stat; the scheduler applies its answers in Drain.  Reap and Damage *)
(* are the environment.                                                    *)
(***************************************************************************)
EXTENDS Naturals, FiniteSets

CONSTANTS
    Keys,             \* block keys
    Requests,         \* request ids
    Jobs,             \* job slots (ids are never shared by two live jobs)
    Want,             \* the blocks each request asks the tiers for
    RamBlocks,        \* capacity of the RAM tier
    FanoutMax,        \* RADIANCE_FS_FANOUT_MAX, > 0
    Threads,          \* workers of one kind in the pool
    LookupInvalidate, \* RADIANCE_LOOKUP_INVALIDATE
    FailedLoadForget, \* RADIANCE_FS_FAILED_LOAD_FORGET
    MaxFaults         \* bound: files reaped or damaged, and I/O errors

ASSUME WantAssumption == Want \in [Requests -> SUBSET Keys]
ASSUME SizeAssumption ==
    /\ RamBlocks \in Nat /\ MaxFaults \in Nat
    /\ FanoutMax \in Nat \ {0} /\ Threads \in Nat \ {0}
    /\ IsFiniteSet(Keys) /\ IsFiniteSet(Jobs)
ASSUME GateAssumption == LookupInvalidate \in BOOLEAN /\ FailedLoadForget \in BOOLEAN

VARIABLES
    file,     \* the block file of each key: "none", "good" or "short"
    verdict,  \* _lookup_state[k].result, "asking" for None, "none" for no entry
    refs,     \* _lookup_state[k].request_ids
    reqKeys,  \* _req_keys
    queued,   \* keys handed to the lookup thread, not yet stat-ed
    answers,  \* answers of the lookup thread not yet applied
    ram,      \* the RAM tier's block of each key: "none", "writing" or "ready"
    pending,  \* promotions initiated by lookups and not yet submitted
    computed, \* blocks computed on the GPU and not yet offered to the RAM tier
    job,      \* the fs tier's jobs
    request,  \* "new", "live" or "finished"
    got,      \* the blocks each request has been answered for
    faults,   \* environment faults so far
    landed    \* history: keys whose store was reported, with the file still there
              \* and no older `absent` answer on its way at the report

tables == <<verdict, refs, reqKeys>>
lookups == <<tables, queued, answers>>
requests == <<request, got>>
vars == <<file, lookups, ram, pending, computed, job, requests, faults, landed>>

\* A fresh job slot, and a job as the tier tracks it: its kind, its keys
\* (_store_lookup_keys / _radiance_load_keys), the batches that still run,
\* the tasks JobState has yet to count, whether one of them failed, and (a
\* history) the blocks moved so far.
NoJob == [kind |-> "free", keys |-> {}, batches |-> {}, left |-> 0,
          failed |-> FALSE, moved |-> {}]

JobRecord == [kind : {"free", "store", "load"}, keys : SUBSET Keys,
              batches : SUBSET SUBSET Keys, left : Nat,
              failed : BOOLEAN, moved : SUBSET Keys]

TypeOK ==
    /\ file \in [Keys -> {"none", "good", "short"}]
    /\ verdict \in [Keys -> {"none", "asking", "present", "absent"}]
    /\ refs \in [Keys -> SUBSET Requests]
    /\ reqKeys \in [Requests -> SUBSET Keys]
    /\ queued \subseteq Keys
    /\ answers \subseteq Keys \X {"present", "absent"}
    /\ ram \in [Keys -> {"none", "writing", "ready"}]
    /\ pending \subseteq Keys
    /\ computed \subseteq Keys
    /\ job \in [Jobs -> JobRecord]
    /\ request \in [Requests -> {"new", "live", "finished"}]
    /\ got \in [Requests -> SUBSET Keys]
    /\ faults \in 0..MaxFaults
    /\ landed \subseteq Keys

\* The engine starts with empty tables over whatever an earlier run left on disk.
Init ==
    /\ file \in [Keys -> {"none", "good"}]
    /\ verdict = [k \in Keys |-> "none"]
    /\ refs = [k \in Keys |-> {}]
    /\ reqKeys = [r \in Requests |-> {}]
    /\ queued = {} /\ answers = {}
    /\ ram = [k \in Keys |-> "none"]
    /\ pending = {} /\ computed = {}
    /\ job = [j \in Jobs |-> NoJob]
    /\ request = [r \in Requests |-> "new"]
    /\ got = [r \in Requests |-> {}]
    /\ faults = 0
    /\ landed = {}

-----------------------------------------------------------------------------
(* The RAM tier: a block is held while a promotion writes it or a store     *)
(* reads it; any other block may be evicted to make room.                   *)

Active(kind) == {j \in Jobs : job[j].kind = kind}
Held == UNION {job[j].keys : j \in Active("store")}
Used == {k \in Keys : ram[k] # "none"}
Evictable == {k \in Keys : ram[k] = "ready"} \ Held

\* The sets of blocks prepare_store may evict to take n slots; {} when it
\* refuses, because too few blocks can be evicted.
Victims(n) ==
    LET short == IF Cardinality(Used) + n > RamBlocks
                   THEN Cardinality(Used) + n - RamBlocks ELSE 0
    IN  {E \in SUBSET Evictable : Cardinality(E) = short}

Placed(K, E, state) ==
    [k \in Keys |-> IF k \in K THEN state ELSE IF k \in E THEN "none" ELSE ram[k]]

-----------------------------------------------------------------------------
(* Jobs and their fan-out.                                                  *)

Least(a, b) == IF a <= b THEN a ELSE b
CeilDiv(a, b) == (a + b - 1) \div b

Inflight == Cardinality({j \in Jobs : job[j].kind # "free" /\ job[j].left > 0})

\* _radiance_fanout_degree with the flat cap FanoutMax; read and write pools
\* have Threads workers each.
Degree(n) ==
    IF n <= 1 \/ Threads <= 1 THEN 1
    ELSE LET budget == Least(FanoutMax, 2 * Threads)
             jobs == IF Inflight = 0 THEN 1 ELSE Inflight
         IN  Least(CeilDiv(budget, jobs), Least(n, Threads))

\* _radiance_batches cuts the job's list into contiguous slices whose sizes
\* differ by at most one; over all orders of the list that is any even
\* partition.
EvenPartitions(K, d) ==
    {P \in SUBSET ((SUBSET K) \ {{}}) :
        /\ Cardinality(P) = d
        /\ UNION P = K
        /\ \A a, b \in P : a = b \/ a \cap b = {}
        /\ \A a, b \in P : Cardinality(a) <= Cardinality(b) + 1}

\* Mutant: the generator stops one slice early.
BugSplit(K) == {P \ {b} : P \in EvenPartitions(K, Degree(Cardinality(K))), b \in SUBSET K}

Split(K) == EvenPartitions(K, Degree(Cardinality(K)))

\* Mutant: the batches are enqueued as a single task.
BugNewJob(kind, K, P) ==
    [kind |-> kind, keys |-> K, batches |-> P, left |-> 1, failed |-> FALSE, moved |-> {}]

\* enqueue_store / enqueue_load: one task per batch.
NewJob(kind, K, P) ==
    [kind |-> kind, keys |-> K, batches |-> P, left |-> Cardinality(P),
     failed |-> FALSE, moved |-> {}]

Submit(kind, K) ==
    \E j \in Active("free"), P \in Split(K) :
        job' = [job EXCEPT ![j] = NewJob(kind, K, P)]

\* A task of the job is over: JobState counts it and ORs its failure.
TaskDone(jb, b, M, failed) ==
    [jb EXCEPT !.batches = @ \ {b}, !.left = @ - 1,
               !.failed = @ \/ failed, !.moved = @ \cup M]

\* A worker has moved block k of batch b and goes on with the rest of it.
Advance(jb, b, k) ==
    IF b = {k} THEN TaskDone(jb, b, {k}, FALSE)
    ELSE [jb EXCEPT !.batches = (@ \ {b}) \cup {b \ {k}}, !.moved = @ \cup {k}]

WriteBlock(j, b, k) ==
    /\ job[j].kind = "store" /\ b \in job[j].batches /\ k \in b
    /\ file' = [file EXCEPT ![k] = "good"]
    /\ job' = [job EXCEPT ![j] = Advance(@, b, k)]
    /\ UNCHANGED <<lookups, ram, pending, computed, requests, faults, landed>>

\* The write raises: the temp file is never renamed into place and the rest
\* of the batch is not attempted.
FailWrite(j, b) ==
    /\ job[j].kind = "store" /\ b \in job[j].batches /\ faults < MaxFaults
    /\ faults' = faults + 1
    /\ job' = [job EXCEPT ![j] = TaskDone(@, b, {}, TRUE)]
    /\ UNCHANGED <<file, lookups, ram, pending, computed, requests, landed>>

ReadBlock(j, b, k) ==
    /\ job[j].kind = "load" /\ b \in job[j].batches /\ k \in b
    /\ file[k] = "good"
    /\ job' = [job EXCEPT ![j] = Advance(@, b, k)]
    /\ UNCHANGED <<file, lookups, ram, pending, computed, requests, faults, landed>>

\* The read raises, because the file is gone or short or the device returns
\* an error: the offending file is deleted and the batch abandoned.
FailRead(j, b, k) ==
    /\ job[j].kind = "load" /\ b \in job[j].batches /\ k \in b
    /\ \/ file[k] # "good" /\ UNCHANGED faults
       \/ file[k] = "good" /\ faults < MaxFaults /\ faults' = faults + 1
    /\ file' = [file EXCEPT ![k] = "none"]
    /\ landed' = landed \ {k}
    /\ job' = [job EXCEPT ![j] = TaskDone(@, b, {}, TRUE)]
    /\ UNCHANGED <<lookups, ram, pending, computed, requests>>

-----------------------------------------------------------------------------
(* The lookup cache.                                                        *)

Arrive(r) ==
    /\ request[r] = "new"
    /\ request' = [request EXCEPT ![r] = "live"]
    /\ UNCHANGED <<file, lookups, ram, pending, computed, job, got, faults, landed>>

\* AsyncLookupManager.lookup: make an entry when there is none (and hand the
\* key to the lookup thread), and reference it for the request.
Reference(r, k) ==
    /\ verdict' = [verdict EXCEPT ![k] = IF @ = "none" THEN "asking" ELSE @]
    /\ queued' = IF verdict[k] = "none" THEN queued \cup {k} ELSE queued
    /\ refs' = [refs EXCEPT ![k] = @ \cup {r}]
    /\ reqKeys' = [reqKeys EXCEPT ![r] = @ \cup {k}]
    /\ UNCHANGED answers

Asks(r, k) == request[r] = "live" /\ k \in Want[r] \ got[r]
Answer(r, k) == got' = [got EXCEPT ![r] = @ \cup {k}]

\* The block is in RAM: the fs tier is not asked.
RamHit(r, k) ==
    /\ Asks(r, k) /\ ram[k] = "ready"
    /\ Answer(r, k)
    /\ UNCHANGED <<file, lookups, ram, pending, computed, job, request, faults, landed>>

\* RETRY: no verdict yet.
Retry(r, k) ==
    /\ Asks(r, k) /\ ram[k] = "none" /\ verdict[k] \in {"none", "asking"}
    /\ Reference(r, k)
    /\ UNCHANGED <<file, ram, pending, computed, job, requests, faults, landed>>

\* MISS: the request computes the block on the GPU.
Miss(r, k) ==
    /\ Asks(r, k) /\ ram[k] = "none" /\ verdict[k] = "absent"
    /\ Reference(r, k)
    /\ Answer(r, k)
    /\ computed' = computed \cup {k}
    /\ UNCHANGED <<file, ram, pending, job, request, faults, landed>>

\* HIT, and a RAM block for the promotion could be taken.
Promote(r, k) ==
    /\ Asks(r, k) /\ ram[k] = "none" /\ verdict[k] = "present"
    /\ Reference(r, k)
    /\ \E E \in Victims(1) : ram' = Placed({k}, E, "writing")
    /\ pending' = pending \cup {k}
    /\ UNCHANGED <<file, computed, job, requests, faults, landed>>

\* HIT, but the RAM tier refuses a block: reported as a MISS.
Refused(r, k) ==
    /\ Asks(r, k) /\ ram[k] = "none" /\ verdict[k] = "present"
    /\ Victims(1) = {}
    /\ Reference(r, k)
    /\ Answer(r, k)
    /\ computed' = computed \cup {k}
    /\ UNCHANGED <<file, ram, pending, job, request, faults, landed>>

Lookup(r, k) == RamHit(r, k) \/ Retry(r, k) \/ Miss(r, k) \/ Promote(r, k) \/ Refused(r, k)

\* The lookup thread stats one key.
Stat(k) ==
    /\ k \in queued
    /\ queued' = queued \ {k}
    /\ answers' = answers \cup {<<k, IF file[k] = "none" THEN "absent" ELSE "present">>}
    /\ UNCHANGED <<file, tables, ram, pending, computed, job, requests, faults, landed>>

\* The scheduler thread applies an answer to the entry, if one is asking.
Drain(a) ==
    /\ a \in answers
    /\ answers' = answers \ {a}
    /\ verdict' = [verdict EXCEPT ![a[1]] = IF @ = "asking" THEN a[2] ELSE @]
    /\ UNCHANGED <<file, refs, reqKeys, queued, ram, pending, computed, job,
                   requests, faults, landed>>

\* Mutants: invalidate drops the `present` verdicts; forget drops what
\* invalidate drops.
BugInvalidated(K) == {k \in K : verdict[k] = "present"}
BugForgotten(K) == {k \in K : verdict[k] = "absent"}

\* invalidate and forget, as the sets of keys whose entries they drop.
Invalidated(K) == {k \in K : verdict[k] = "absent"}
Forgotten(K) == {k \in K : verdict[k] \in {"present", "absent"}}

\* Mutant: cleanup returns, instead of going on, at a key that was dropped.
BugCleanup(r) ==
    /\ request[r] = "live"
    /\ request' = [request EXCEPT ![r] = "finished"]
    /\ reqKeys' = [reqKeys EXCEPT ![r] = {}]
    /\ LET seen == IF \E k \in reqKeys[r] : verdict[k] = "none" THEN {} ELSE reqKeys[r]
       IN  /\ refs' = [k \in Keys |-> IF k \in seen THEN refs[k] \ {r} ELSE refs[k]]
           /\ verdict' = [k \in Keys |->
                            IF k \in seen /\ refs[k] \subseteq {r} THEN "none" ELSE verdict[k]]
    /\ UNCHANGED <<file, queued, answers, ram, pending, computed, job, got, faults, landed>>

\* on_request_finished: the client is answered, or leaves at any time.
Cleanup(r) ==
    /\ request[r] = "live"
    /\ request' = [request EXCEPT ![r] = "finished"]
    /\ reqKeys' = [reqKeys EXCEPT ![r] = {}]
    /\ refs' = [k \in Keys |-> IF k \in reqKeys[r] THEN refs[k] \ {r} ELSE refs[k]]
    /\ verdict' = [k \in Keys |->
                     IF k \in reqKeys[r] /\ refs[k] \subseteq {r} THEN "none" ELSE verdict[k]]
    /\ UNCHANGED <<file, queued, answers, ram, pending, computed, job, got, faults, landed>>

-----------------------------------------------------------------------------
(* The fs tier's calls from the tiering manager.                            *)

\* Mutant: the flushed promotions stay pending.
BugFlushPromotions ==
    /\ pending # {}
    /\ Submit("load", pending)
    /\ UNCHANGED <<file, lookups, ram, pending, computed, requests, faults, landed>>

\* _flush_pending_promotions: one load job for the promotions of this step.
FlushPromotions ==
    /\ pending # {}
    /\ Submit("load", pending)
    /\ pending' = {}
    /\ UNCHANGED <<file, lookups, ram, computed, requests, faults, landed>>

\* Computed blocks reach the RAM tier and their cascade to disk is submitted.
CompleteStore(K) ==
    /\ K # {} /\ K \subseteq {k \in computed : ram[k] = "none"}
    /\ \E E \in Victims(Cardinality(K)) : ram' = Placed(K, E, "ready")
    /\ Submit("store", K)
    /\ computed' = computed \ K
    /\ UNCHANGED <<file, lookups, pending, requests, faults, landed>>

\* prepare_store refuses them, or they are in the RAM tier already.
SkipStore(k) ==
    /\ k \in computed
    /\ ram[k] # "none" \/ Victims(1) = {}
    /\ computed' = computed \ {k}
    /\ UNCHANGED <<file, lookups, ram, pending, job, requests, faults, landed>>

\* The jobs whose last task has been counted.
Finished(kind, failed) ==
    {j \in Active(kind) : job[j].left = 0 /\ job[j].failed = failed}
KeysOf(J) == UNION {job[j].keys : j \in J}

\* get_finished_jobs, and what the tiering manager does with each result: a
\* landed store drops stale `absent` verdicts, a failed load every verdict of
\* its keys, and a promotion's RAM block becomes readable or is dropped.
GetFinishedJobs ==
    LET stored == KeysOf(Finished("store", FALSE))
        loaded == KeysOf(Finished("load", FALSE))
        lost == KeysOf(Finished("load", TRUE))
        dropped == (IF LookupInvalidate THEN Invalidated(stored) ELSE {})
                     \cup (IF FailedLoadForget THEN Forgotten(lost) ELSE {})
        done == {j \in Jobs : job[j].kind # "free" /\ job[j].left = 0}
    IN  /\ done # {}
        /\ job' = [j \in Jobs |-> IF j \in done THEN NoJob ELSE job[j]]
        /\ verdict' = [k \in Keys |-> IF k \in dropped THEN "none" ELSE verdict[k]]
        /\ refs' = [k \in Keys |-> IF k \in dropped THEN {} ELSE refs[k]]
        /\ ram' = [k \in Keys |-> IF k \in loaded THEN "ready"
                                  ELSE IF k \in lost THEN "none" ELSE ram[k]]
        /\ landed' = landed \cup
                        {k \in stored : file[k] # "none" /\ <<k, "absent">> \notin answers}
        /\ UNCHANGED <<file, reqKeys, queued, answers, pending, computed, requests, faults>>

-----------------------------------------------------------------------------
(* The environment: kvcache-reap.sh deletes a file, or a file goes bad.     *)

Spoil(k, state) ==
    /\ file[k] = "good" /\ faults < MaxFaults
    /\ faults' = faults + 1
    /\ file' = [file EXCEPT ![k] = state]
    /\ landed' = landed \ {k}
    /\ UNCHANGED <<lookups, ram, pending, computed, job, requests>>

Reap(k) == Spoil(k, "none")
Damage(k) == Spoil(k, "short")

-----------------------------------------------------------------------------
Scheduler ==
    \/ \E r \in Requests : Cleanup(r) \/ Arrive(r)
    \/ \E r \in Requests, k \in Keys : Lookup(r, k)
    \/ FlushPromotions
    \/ \E K \in SUBSET Keys : CompleteStore(K)
    \/ \E k \in Keys : SkipStore(k)
    \/ GetFinishedJobs
    \/ \E a \in answers : Drain(a)

Workers ==
    \E j \in Jobs : \E b \in job[j].batches :
        FailWrite(j, b) \/ \E k \in b : WriteBlock(j, b, k) \/ ReadBlock(j, b, k) \/ FailRead(j, b, k)

Environment == \E k \in Keys : Reap(k) \/ Damage(k)

Next == Scheduler \/ Workers \/ (\E k \in Keys : Stat(k)) \/ Environment

\* The scheduler keeps stepping while a request waits, and the pool and the
\* lookup thread work off their queues.  Nothing makes a client leave, a file
\* vanish or an I/O call fail.
Fairness ==
    /\ \A r \in Requests, k \in Keys : WF_vars(Lookup(r, k))
    /\ \A k \in Keys : WF_vars(Stat(k))
    /\ WF_vars(\E a \in answers : Drain(a))
    /\ WF_vars(FlushPromotions)
    /\ WF_vars(GetFinishedJobs)
    /\ WF_vars(Workers)

Spec == Init /\ [][Next]_vars
FairSpec == Spec /\ Fairness

-----------------------------------------------------------------------------
(* Properties.                                                              *)

\* The request ids of an entry are live requests that will visit it in their
\* own cleanup, and an entry has at least one: however stores and failed loads
\* drop and re-make entries in between, no entry outlives its requests
\* (patch_lookup_invalidate.py, guarded cleanup).
NoOrphanEntry ==
    \A k \in Keys :
        /\ verdict[k] = "none" <=> refs[k] = {}
        /\ \A r \in refs[k] : request[r] = "live" /\ k \in reqKeys[r]

\* Every batch a worker still runs belongs to a job that has not been
\* reported, and moves blocks whose RAM the tier still holds for it: ready
\* while a store reads it, under promotion while a load writes it.  It fails
\* if a fanned-out job is reported before its last batch.
BatchesHoldRam ==
    \A j \in Jobs : \A b \in job[j].batches :
        /\ job[j].left > 0
        /\ b \subseteq job[j].keys
        /\ job[j].kind = "store" => \A k \in b : ram[k] = "ready"
        /\ job[j].kind = "load" => \A k \in b : ram[k] = "writing"

\* A RAM block under promotion is written by exactly one load, so the request
\* waiting for it is woken.
WritingHasLoad ==
    \A k \in Keys : ram[k] = "writing" =>
        \/ k \in pending /\ \A j \in Active("load") : k \notin job[j].keys
        \/ k \notin pending /\ \E j \in Active("load") :
             k \in job[j].keys /\ \A i \in Active("load") \ {j} : k \notin job[i].keys

\* The two together: the RAM tier and the jobs agree, a block on its way in
\* being neither touched by anyone else nor forgotten.
RamAgreesWithJobs == BatchesHoldRam /\ WritingHasLoad

\* Once a store has been reported with no older `absent` answer on its way,
\* no cached verdict says the file is absent while it is still on disk
\* (patch_lookup_invalidate.py: a MISS that is a lie).
LandedNotAbsent == \A k \in landed : verdict[k] # "absent"

\* A job reported as successful has moved every one of its blocks, whichever
\* batches they were in: a promotion is never reported with a block unread.
SuccessMovedAll ==
    \A j \in Finished("store", FALSE) \cup Finished("load", FALSE) : job[j].moved = job[j].keys

\* A live request is answered for every block it asks for, or its client
\* leaves, whatever finite number of reaps and read errors happens
\* (patch_fs_failed_load.py: without forget the promotion is retried forever).
EveryRequestServed ==
    \A r \in Requests : request[r] = "live" ~> (got[r] = Want[r] \/ request[r] = "finished")
=============================================================================
