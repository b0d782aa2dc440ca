# A verification project for vllm-sly-radiance

The repository serves large language models with vLLM on RDNA 4 GPUs. Most of its
code is numerical (GPU kernels), or text substitution in vLLM's source at image
build time. The part that has *behaviour over time* is small and hard to test: a
KV cache spread over GPU, RAM and disk whose owner is patched from outside; a rule
that decides which prefill chunks may enter that cache; collectives in which two or
three GPUs write into each other's memory; recurrent states of which only the inputs of
the last step are kept; shell scripts that build, publish and delete files another process
is using; and a pipeline that gates, merges and releases by night without anybody looking.
This directory models that part in TLA+.

Paths below are relative to the repository root. `vLLM` itself is not in the
repository: what the modules say of it is modelled from how the patches use it, and
those definitions are marked external in `PROJECT.json`.

## 1. Inventory

### KV file-system tier — `kv-cache/patch_lookup_invalidate.py`, `patch_fs_failed_load.py`, `patch_offload_fs_fanout.py`, `patch_offload_promotion_wallclock.py`

* *State*: per-key lookup cache (`_lookup_state`: a verdict and the ids of the requests
  that asked) with its reverse index `_req_keys`; the queue to and from the lookup
  thread; jobs with the number of tasks still to count and `_store_lookup_keys` /
  `_radiance_load_keys`; the RAM tier's blocks; promotions waiting for the end of the step.
* *Operations*: `lookup`, draining the lookup thread's answers, `invalidate`, `forget`,
  `cleanup`, `submit_store`, `submit_load`, the fan-out of a job, `get_finished_jobs`,
  `prepare_store`, `complete_store`, `_flush_pending_promotions`.
* *Interactions*: the scheduler thread calls them; pool workers write and read block
  files and count tasks; a lookup thread stats files; `kvcache-reap.sh` deletes files.
* *Hard*: three kinds of thread, verdicts that go stale in both directions, a job that
  is several tasks and half fails, files that vanish between a stat and a read.
* *Correct when*: no verdict entry outlives its requests; a stored block is not called
  absent for ever; a job is a success only if all of it moved; RAM blocks stay reserved
  while a worker touches them, and not longer; every request is answered.

### Canonical prefill chunks — `kv-cache/patch_sched_canonical_chunks.py`, `patch_canon_mixed.py`, `patch_canon_wait.py`, `patch_canon_receipts.py`, `patch_sched_align_last_block.py`

* *State*: per request `canon_end`, a decision that is pending until the step is
  complete, the number of waits, the number of registered blocks; receipts; over vLLM's
  queues, token budget, prefix cache and offload tiers.
* *Operations*: the block-aligned split and its stops, the wait, `allocate_slots`,
  settling at the end of `schedule()`, prefix hits and their cap, external hits,
  registration of blocks on the GPU and in the tiers; preemption, abort, failed loads.
* *Hard*: whether a chunk computes what a cold prefill computes depends on what *else*
  is in the pass, which is known only after the chunk has been scheduled; the position
  the rule is based on moves backwards on preemption; blocks outlive their writers.
* *Correct when*: what a later request can read equals what a cold prefill would have
  computed ("cached == uncached"), and the rule starves nobody.

### Custom all-reduce — `r4d_radiance_extras_rx10.patch`, `radiance_allreduce.py`, `radiance_arnq.py`, `patch_ar_3rank.py`

* *State*: per rank a receive region with two slots per peer, flags and a sequence
  number per block of the kernel.
* *Operations*: push, release (drain, then raise the flags), spin, reduce, spin limit; the
  host's choice of the number of blocks.
* *Hard*: GPUs run at their own pace and may be a call apart; the only ordering is a flag
  per block and peer, and slots are used again every second call.
* *Correct when*: a rank reduces what its peers pushed for this call, all ranks hold the
  same result, and nobody waits for ever.

### Start-up cache — `startup-cache/startup-cache.sh`, `cache-reap.sh`, `hip-so-cache.sh`

* *State*: sibling cache trees with a stamp file and access times; shared objects
  published under a key, and their temporary files.
* *Operations*: stamp, select, delete (capped, under a timeout); look up, build, copy,
  rename.
* *Hard*: nothing locks; several launches share the volume; a container may be killed
  between any two steps.
* *Correct when*: trees in use or recently used stay; what is published is whole; a killed
  boot does not stop the next one.

### Disk-tier reaper — `kv-cache/kvcache-reap.sh`

* *State*: the block files and their ages, a listing, counters of the run.
* *Operations*: stage A (age rule), B (capacity, above the age floor), C (emergency), each
  one `find` and a loop of deletions with `df` read once a batch and a cap.
* *Hard*: the engine goes on storing (and deleting bad files) during the run.
* *Correct when*: floors hold, eviction is in insertion order, it stops near the target,
  and repeated runs reach the target.

### Lazy GDN snapshots and state retirement — `sly/r4d/r4d_extras_rx10.patch`, `patch_gdn_lazy.py`, `radiance_gdn_lazy.py`, `radiance_gdn.py`, `sly/patch_mamba_align_retire.py`

* *State*: per request a running block with one recurrent state and a stash block with the
  inputs of the last step's drafts and a header that names the state they belong to; the
  block table of vLLM's "align" mode, and how much of it has been retired.
* *Operations*: the update kernel (replay, one sure candidate, drafts), `materialize` before
  a step (the running block moves) and after it (a boundary was crossed), invalidation by a
  prefill, retirement.
* *Hard*: what is accepted is known a step later; blocks are registered in the prefix cache
  before their content exists, given to other requests as soon as one leaves, and steps are
  scheduled one ahead of the GPU.
* *Correct when*: a step starts from the state of exactly the accepted tokens; a cached block
  has the state at its boundary; a request's blocks stay few.

### Split-K reduction — `radiance_mxfp4_fp8.hip`

* *State*: partial sums and a counter per n-range that outlive the launch.
* *Operations*: store, fence, draw a ticket; the last block resets the counter and sums.
* *Hard*: a store reaches other CUs late; the next launch may split differently.
* *Correct when*: each launch gives each column the sum of its own partials.

### Checkpoint retention and external hits — `kv-cache/patch_vram_retention.py`, `patch_tier_retention.py`, `patch_swa_eagle_replay_tail.py`, `patch_reconcile_reask.py`, `patch_offload_mixed_hit.py`

* *State*: which recurrent states and drafter blocks the GPU cache and the tier keep of a
  prompt; per waiting request the clock of its deferral and a flag that it has given up.
* *Operations*: the positions to keep after a turn, on the GPU and in the tier; the lookup of
  a waiting request, its fallback, the re-ask from there, deferral and giving up.
* *Hard*: what to keep is decided when a turn ends, by where the next is expected to resume,
  while blocks are stored once; the clock of a wait is kept over whatever happens to the
  request between two steps.
* *Correct when*: the next turn resumes where it would if everything had been kept; a request
  never waits on a store for ever, and gives up only what it has waited for.

### Drafter — `sly/radiance_dflash_skip.py`, `sly/radiance_lookup_draft.py`, `sly/radiance_adaptive_width.py`

* *State*: which context K/V of the drafter is written, per request and in the prefix cache;
  per slot of the runner the last step's length and whether it used the lookup, the cached
  candidates and the draft's distribution; the widths of a batch.
* *Operations*: skipping the drafter's part of a prefill step; the scan, the decision and the
  rewriting of a draft; the choice of widths.
* *Hard*: slots pass from one request to the next with what is in them, distributions are
  cleared by remembering what was set, positions and lengths meet at boundaries.
* *Correct when*: a used draft reads what was written; a rejection sampler is given the
  distribution a token was drawn from; shortening a batch pays.

### Acceptance gate and night release — `ci/accept/accept.py`, `ci/night_pick.py`, `ci/release_tag.sh`, `.github/workflows/`

* *State*: branches, versions, images in a local docker and a registry, tags, the recorded
  baseline, the queues of builds and releases, who has the GPUs until when.
* *Operations*: every job of the nightly workflow, the phases of the gate, builds, tags, the
  manual gate and release.
* *Hard*: hours between the pick and the merge, in which people push; jobs die; the window
  on the production GPUs closes on its own, with production at the address that is measured;
  a release can fail; a local tag is whatever was built last.
* *Correct when*: what is merged is what was measured, and production comes back.

### Not modelled (yet, or at all)

Listed with the reason in `PROJECT.json` under `components`. In short: mixed hits and the
set-up of the all-reduce are planned (section 8); the arithmetic of GPU kernels, model
patches, instrumentation, serving scripts and the scripts that resolve a stack or cut a
release are numerical, stateless, or sequential over files and left out.

## 2. Modules

| Module | Stands for | Composes / extends |
| --- | --- | --- |
| `FsTier` | the fs tier, its jobs, its lookup cache and the RAM tier | |
| `MCFsTier`, `FsTierProofs` | instance, theorems | `FsTier` |
| `CanonicalChunks` | the canonical-chunk rule inside `schedule()`, prefix cache and tiers | |
| `MCCanonicalChunks`, `CanonicalChunksProofs` | instance, theorems | `CanonicalChunks` |
| `AllReduce` | what an all-reduce promises | |
| `OneShotAllReduce`, `OneShotAllReduceProofs` | the one-shot kernels word by word and flag by flag; theorems | implements `AllReduce` (`INSTANCE`) |
| `MCOneShotAllReduce` | the instance of `allreduce_mixed` | `OneShotAllReduce` |
| `SplitSum` | what a split-K kernel promises | |
| `SplitK`, `SplitKProofs` | the split-K tail thread by thread; theorems | implements `SplitSum` (`INSTANCE`) |
| `PrefillSkip`, `DraftLookup`, `DrafterProofs` | the drafter's prefill skip; the prompt lookup over its drafts; theorems on both | |
| `AdaptiveWidth` | the choice of how many drafts a step verifies | |
| `MCKernelRuns` | groups of ranks, split-K launches and the three programs around the drafter, side by side | `OneShotAllReduce` (three times), `SplitK`, `PrefillSkip`, `DraftLookup`, `AdaptiveWidth` |
| `LazyGdn` | lazy snapshots and retirement | |
| `MCLazyGdn`, `LazyGdnProofs` | instance, theorems | `LazyGdn` |
| `CacheReap`, `MCCacheReap` | pruning of cache trees; instance | |
| `HipSoCache`, `MCHipSoCache` | build-once shared objects; instance | |
| `KvReap` | the disk-tier reaper | |
| `DiskCachesProofs` | theorems on the three | `HipSoCache`, `KvReap`, `CacheReap` |
| `Retention` | what the GPU and the tier keep of a turn, against where the next resumes | |
| `Reask`, `MCReask` | a waiting request and the re-ask; instance | |
| `MCDiskCaches` | boots, a launcher, the fs tier's clients, the reaper, a waiting request and conversations, side by side | `HipSoCache`, `KvReap`, `CacheReap`, `FsTier`, `Reask`, `Retention` |
| `AcceptGate` | `accept.py` and the window on the GPUs | |
| `NightRelease`, `MCNightRelease`, `NightReleaseProofs` | the workflows around the gate; instances; theorems | composes `AcceptGate` |

Definitions keep the source's names where they can; `PROJECT.json` maps each one to the
lines it stands for. A definition named `Bug...` just before another one is a plausible
bug in the code the other one models; it is used to show that the properties can fail
and by no specification.

### FsTier

The scheduler thread's calls (`Lookup`, `Drain`, `FlushPromotions`, `CompleteStore`,
`SkipStore`, `GetFinishedJobs`, `Arrive`, `Cleanup`) are one action each. A pool worker
moves one block file per action, so two batches of a job, or two jobs, interleave at every file. The lookup
thread's `Stat` and the scheduler's `Drain` are separate, so a verdict can be old when it
is applied. The fan-out is `Split`: any even partition of a job's keys into as many
batches as `_radiance_fanout_degree` allows for the tasks that are in flight; that count
is read without a lock in the code, so `Inflight` may be any state the workers leave. The
environment reaps a file, truncates one, or fails an I/O call, up to `MaxFaults` times.
Keys are model values; the KV event list, the lie counter and metrics are left out.
`landed` is a history variable: keys whose store has been reported, the file being
still there and no older `absent` answer on its way.

### CanonicalChunks

One `schedule()` call is `Begin`, then turns of running requests (`Prefill`, `Decode`,
`Preempt`), then of waiting ones in queue order (`Admit`, `AdmitLoaded`, `StartLoad`),
then `Settle`, which also runs the step and takes its output. Between calls requests
arrive and leave, loads end well or fail, blocks are stored in a tier and evicted. All
requests are prefixes of one token stream, so block *i* of each has the same hash: the case
where sharing can go wrong. `exact` and the Boolean in the elements of `main`, `draft` and
`tier` are histories: does this KV equal a cold prefill's? `ExactAfter` defines that
from the outside: a whole grid chunk, on the grid, over exact KV, alone in its pass or
with speculative decodes only. It is the repository's own measure (the patch's header and
`patch_canon_mixed.py`) and does not mention `canon_end`.

### AllReduce and OneShotAllReduce

A block of the kernel starts, pushes each word of its chunk to each peer, drains, raises
its flag in each peer, spins on each peer's flag, reads each word. Every push, flag, poll
and read is an action. Data is abstracted to the number of the call it was written for. The host's
`_nblocks` and the chunk arithmetic are translated, since where chunks begin is what the
slot-reuse argument turns on. `exact` is the kernel for any length (block count from the
length); `nq` is the fused 2-rank kernel, a block per row. The calls are the same on
every rank (`radiance_arnq.py`). `AllReduce` says that a call ends on a rank only after
every rank has begun it and that its result is reduced from that call's inputs alone.

### LazyGdn

All requests read one token stream, so a state is just the number of tokens it has been
through, or `Wrong`. `Replayed`, `Update`, `Migrate`, `Checkpoint` and `Prefill` are functions
on the blocks' contents, one for each kernel; `RunStep` applies them in the order the hooks
run in: materialise before the step, the step, materialise after it, and then vLLM's kernel
that resets the accepted count. `Schedule` and `Window` are vLLM's `allocate_new_blocks`;
`Retire` is the patch. `Schedule` and `RunStep` are apart, so that blocks are retired, freed
and given away while a step that uses them is in flight; which content the GPU then finds
follows from the order of the queue. A decode step always carries `Drafts` drafts.

### SplitSum and SplitK

Each store, fence, ticket, reset and sum of a thread is an action, and so is the moment a
store becomes visible to the other CUs (`Drain`). A partial is the number of the launch that
stored it. One n-range stands for all, as they share nothing.

### PrefillSkip, DraftLookup and AdaptiveWidth

`PrefillSkip` schedules any numbers of tokens of any requests in a step, with hits,
preemption and ends between them; `written` is, per request, the positions whose context K/V
is there. `DraftLookup` is one slot of the runner and the requests that hold it one after
the other: the drafter's graph writes any draft from any candidates, `Best` is the kernel's
packed maximum, `Propose` and `Override` the decision and the rewriting; `mine` is a history, what
the last step of the request itself would make of the slot. `AdaptiveWidth` is one choice, of
each batch, over estimates in parts of a small number and exact integer gains.

### Retention and Reask

`Retention` runs the same turns through two systems: one keeps every canonical checkpoint,
the other what the two patches keep. Conversations behind one system prompt only grow. A
block is its number and whose tokens it has. `Reask` is one waiting request against
caches that change in any way between two steps; the clock and the flag are the code's,
`parked` and `waited` are histories of the waits there have been.

### CacheReap, HipSoCache, KvReap

Each step of the scripts between which another process can run is an action: a stamp, a
test of a tree, a deletion; an open, the copying of a part, a rename; a listing, a deletion.
`CacheReap` models `relatime` (`AtimeLag`): an access time younger than the lag is not
refreshed. `HipSoCache` keeps inodes apart from names, since a rename moves the file a
writer has open. In `KvReap` blocks have ages that saturate at `Ancient`, each stage's
`find` is one atomic listing, and the printed report, dry run and the sweeps of temporary files and
empty directories are left out.

### AcceptGate and NightRelease

`AcceptGate` is `main()` of `accept.py` phase by phase: the acquire with its retries, the
deadline tested before each phase, the checks, the throughput run, the release in the
`finally`, the verdict. `by` records who was at the address when each phase that sends
requests ended. The `gpu-window` helper is not in `src/`; the model takes from its contract
(`ci/accept/README.md:198`, `docs/MAINTENANCE.md:76`) what it says and no more: its guard
releases a window past its time, and may fail to get production up; `release` may come after
the guard and still answers with production's health; it may fail, or lose its answer, with the
candidate, nothing or production at the address; a `start` that fails may have started the
candidate. When nobody holds the window and production is down, a human restores it
(`HandRestore`, `docs/MAINTENANCE.md:126`). The job's own health check asks the address the
candidate serves as well (`accept-night.yml:64`, `accept.py:756`), so a candidate that was left
there passes it. An image's speed is one number; a check's result is free. `NightRelease` has the
branches as records of version, image inputs and baseline, `docker` and the registry as
functions from versions to images, the concurrency group of the builds with its single
place for a waiting one, and one action for each step of a job between which something
else can happen. A job may die at each of its steps (`JobDies`, `Outside` bounds it with the
other events from outside). `PRs = {1}`: renovate's groups put all dependencies of the
stack in one pull request.

## 3. Runs

Run one with `tlc -workers 2 -config <cfg> <module>`; each takes at most four and a half
minutes on two cores. Where a run has several groups they share no state, a behaviour
moves one of them, and each property speaks of one.

| Run | Module / cfg | Asks | Bounds, and why they are enough |
| --- | --- | --- | --- |
| `fstier` | `MCFsTier` / `FsTier.cfg` | Do the lookup cache, the jobs and the RAM tier stay consistent under every interleaving of the three kinds of thread and a fault? | Two requests, `{k1,k2}` and `{k1,k3}`, over a RAM tier of two blocks: they share an entry of the lookup cache, and a stored block has to be evicted from RAM and promoted again. Two jobs of two batches, so a job's batches and two jobs overlap. One fault (reap, bad file or I/O error). |
| `canonical` | `MCCanonicalChunks` / `CanonicalChunks.cfg` | Is cached KV what a cold prefill computes; does waiting starve a prefill? | Block 2, grid 4, budget 6. Eleven tokens are two grid chunks and a tail: the smallest prompt after whose second chunk a *receipt* lies where a later hit could read it. The three-token request soon decodes one to three tokens a step, which leaves 3 to 5 of the budget: that can cut a grid chunk and makes shared passes. One fault: a preemption, an eviction, a failed load or a full block pool. `WaitMax` 1 reaches both the wait and its cap. |
| `kernels` | `MCKernelRuns` / `KernelRuns.cfg` | Are the one-shot kernels an all-reduce, and do their calls end? Is a split-K sum whole? Do used drafts read what was written, is the scan the best match, is the sampler's distribution the draft's, does shortening pay? | *rows*: two ranks, the fused kernel, every stream of three calls of one or two rows; three, because a slot is used again by the second call after. *three*: three ranks (one can be ahead of one peer and level with the other), three one-word calls. *lone*: two calls of two blocks, three spins to give up, with a sequence number modulo two. *split*: two launches of one to three blocks of two threads, so that the second may split differently. *skip*: prompts of 13 and 7 tokens under a budget of 7, a window of two and blocks of two: skipped, mixed and written steps, with hits of one on the other's blocks. *lookup*: every history of up to six of three tokens; two drafted places of two candidates each. *width*: every batch of three requests with up to five drafts and three estimates. |
| `allreduce_mixed` | `MCOneShotAllReduce` / `AllReduceMixed.cfg` | *Violated*: the slot-reuse argument over calls of different lengths on the exact kernel (section 6). | Two calls of 3 and 4 words, 1 and 2 blocks: the smallest pair in which a word changes blocks. |
| `reask` | `MCReask` / `Reask.cfg` | *Violated*: a request that has given the tier up has waited out its budget. | A prompt of three blocks, two ticks of budget, three changes of the caches. |
| `lazygdn` | `MCLazyGdn` / `LazyGdn.cfg` | Does each step start from the right state, is what the prefix cache holds right, and does retirement keep up? | Two requests over five blocks of two tokens: a request needs four at once, so blocks pass from one to the other while steps are in flight. Prompts of 3 and 6 tokens, up to 8: three boundaries, chunks of one to three blocks. One draft, so a step crosses a boundary with it, or without. Two arrivals: a prefix hit on the other's blocks, or one's own after a preemption. |
| `diskcaches` | `MCDiskCaches` / `DiskCaches.cfg` | Is what is published whole and does every boot end? Does a prune delete only what its rules allow, oldest first? Is a live request of the fs tier answered for every block? Do the reaper's floors, order and stopping point hold at each deletion, and do its runs keep the target? Does a re-ask park a request? Does retention lose a hit? | Two boots with a key each, an object of two parts, three kills. Four trees against a target of one and a cap of two: the cap, the target and the order all bite. Two keys over two RAM blocks (joint demand fits, section 6; a promotion is seldom refused because every block is pinned), one fault. Four blocks against a target of two and an emergency mark of three; three stores and a deletion by the engine; `Batch` 2 makes the `df` reading stale by one; ages saturate at 3, one past `MAX_AGE`. A prompt of two blocks, two changes. Two conversations of three turns behind a system prompt of six tokens, prompts up to 14, blocks of two on a grid of four: every phase of a prompt's end to the grid. |
| `cachereap_launched` | `MCCacheReap` / `CacheReapLaunched.cfg` | *Violated*: a tree launched within the floor is kept. | Three trees, four launches. |
| `hipso_shared` | `MCHipSoCache` / `HipSoCacheShared.cfg` | *Violated*: two boots of one key. | The same as in `diskcaches`, one key. |
| `nightrelease` | `MCNightRelease` / `NightRelease.cfg` | Does a run that passes measure its candidate; is what is released in a measured image; is production back when something is merged; is what is merged not slower than main? | One pull request pushed to twice, a feature, and one event from outside (a job that dies, a merge, release or gate by hand). The constraint `Bound` is two regions in one. `FewMerges`: versions 1 and 2 and two commits of main, with every failure of a phase, a start, an acquire, a release and the guard, any number of times; one tick is the deadline and the end of the window, and can come before, in or after each phase. `GateRunsWell`, `CanMerge`: versions up to 3 and four commits, so that a feature, a release cut by hand and a merge of the night after it fit, which is where a calibration goes wrong (section 6); there the verdict of a run is that of its measurement, and what can no longer be followed by a merge is cut. |
| `nightrelease_main` | `.../ NightReleaseMain.cfg` | *Violated*: a commit that is released was measured. | A feature, versions 1 and 2, three commits of main; no constraint. |
| `nightrelease_calibration` | `.../ NightReleaseCalibration.cfg` | *Violated*: a calibration measures the current release. | A feature, versions up to 3, three commits of main; no constraint. |

A passing run is shown not to be vacuous in two ways: together they take every action
and every disjunct of the next-state relations, and every property has a `Bug...`
definition (a dropped guard, a missing reset, a swapped order) under which its run fails.

What the properties say in terms of the code:

* `FsTier` — `NoOrphanEntry`: an entry of the lookup cache has the ids of live requests
  that will visit it in their `cleanup`, whatever `invalidate` and `forget` removed and
  later lookups made again. `LandedNotAbsent`: no `absent` verdict for a block whose store
  has been reported. `RamAgreesWithJobs`: a worker never touches a RAM block that is no
  longer held for it, and a block under promotion has exactly one load to come.
  `SuccessMovedAll`: no job reports success with a block unmoved.
  `EveryRequestServed` (`EveryRequestIsServed` in `diskcaches`): no promotion is retried for ever.
* `CanonicalChunks` — `OnlyExactCached`, `CanonEndExact`, `ResumesExact`: cached == uncached,
  in the caches, in the bookkeeping the caps rely on, and at each resumption.
  `PrefillCompletes`: waiting only delays.
* `OneShotAllReduce` — `DataIntact`: nothing unread is overwritten. `Implements`: each step is
  one of `AllReduce` or a stutter. `EveryCallEnds`, `LoneRankEnds`.
  `MCKernelRuns` joins them over its groups (`AllImplement`, `CallsEnd`). `SplitK` — `Implements`: each step is one of `SplitSum` or a stutter.
* `PrefillSkip` — `UsedReadsWritten`: a draft that is used reads only context that was written.
  `DraftLookup` — `ScanIsBest`: the packed maximum is the reference's longest match, the
  latest of several. `DistributionIsDraft`: the sampler's q is what the token was drawn from.
  `HotIsOwn`: lookup mode is kept by the request's own accepted drafts. `AdaptiveWidth` —
  `ShorteningPays`: a batch is shortened only where that yields as many tokens per time.
* `LazyGdn` — `StepsExact`: each step starts from the state of exactly the tokens accepted so
  far, whichever block that state or its inputs are in. `CheckpointsExact`: what another request
  may find in the prefix cache is the state at its boundary. `HoldsFew`: retirement keeps up.
* `AcceptGate`, `NightRelease` — `PassMeasured`: in a run with a deadline that passes, the
  candidate answered every phase that another phase follows; the last one can have been
  answered by production, once the window's time is over. `ProductionBack`: the night merges
  only with production back, although its health check cannot tell production from a candidate
  that was left at the address. `StackRevisionMeasured`: what is released carries no revision of
  the stack that the image its gate measured did not have. `MergeNotSlower`: what the night
  merges is not slower than main, by `Tol` for each merge, as long as no run has recorded the
  number of an image that no commit of the release makes (`misread`) and production has not
  answered the benchmark.
* `CacheReap` — `OldestWhenFull`: a tree goes only when it is past the floor by its access time,
  the disk is above the target, and no tree the run could have taken is older.
* `HipSoCache` — `PublishedWhole`, `BootHasAll`, `BootsEnd` (`EveryBootEnds` in `diskcaches`),
  `NoneLeftTruncated`.
* `KvReap` — `FloorHeld` and `OldestEvictedFirst` at each deletion; `EvictsOnlyAsNeeded`: less than
  a batch past the target, and below the floor only in an emergency; `TargetKept` (`VolumeKept`
  in `diskcaches`).
* `Reask` — `NeverParked`: no wait for a store parks a request. `Retention` — `NoHitLost`: each
  turn resumes where it would if everything had been kept.

Deadlock is not checked: each system may stop, when its clients have been served, its
calls, launches, turns or stores are used up, or its boots are done.

## 4. Fairness

* `FsTier!Fairness`: weak fairness of each request's lookup of each block (the engine asks
  again at every step while a request waits), of the lookup thread per key, of draining,
  of the end-of-step flush, of `get_finished_jobs`, and of the workers *together* (the pool
  works off its queues; it need not be fair to one job). Nothing makes a client leave or a
  file vanish.
* `CanonicalChunks!Fairness`: weak fairness of the engine loop, strong fairness of a load's
  end (a load ends, and its end is taken in between two passes, which come and go).
  Nothing makes a client leave; faults are bounded.
* `OneShotAllReduce!FairSpec`: weak fairness of each rank: a launched kernel runs, in
  whatever order its blocks are scheduled. In `LoneSpec` only rank 0 has it.
* `HipSoCache!FairSpec`: a container that boots runs its script. `MCDiskCaches` states the
  same fairness as the modules whose liveness it checks, on each one's own variables.
* `KvReap!ReapFairSpec`: the systemd timer fires and its service runs.
* `Reask!FairSpec`: steps go on (`Look`), time passes (`Tick`), and a store that the stock
  scheduler waits for lands (`Land`). Nothing says so of the store the re-ask waits for.

## 5. Proofs

`tlapm <module>` checks them. They hold for every value of the constants that satisfies the
assumptions; those that are named in a module that is instantiated with others
(`SkipSettings`, `LookupSettings`, `ReapSettings`, `PruneSettings`) are hypotheses of the
theorems, and the MC module of the run assumes them, so that TLC evaluates them.

**`FsTierProofs`** — `IInv == TypeOK /\ JobsOK /\ NoOrphanEntry /\ RamOK`, for any keys, requests,
fan-out and gates. `JobsOK` makes the count of tasks left meaningful: the running batches of
a job are disjoint, non-empty parts of its keys, the count is their number, and a job that
has not failed has each key moved or in a batch. Without it, that the count stays in `Nat`
(`TypeCorrect`) is not inductive, and neither is `SuccessIsComplete`. `NoOrphan` is inductive
beside `TypeOK`. `RamOK` extends what `RamAgreesWithJobs` says of running jobs to jobs that
wait for the scheduler to look: a store's keys stay ready, a load's and a pending
promotion's are being written, and nobody else's are (`RamAgreement`); eviction takes only
ready blocks no job reads. `NoStaleMiss` (`LandedNotAbsent`) needs `LandedOK`, which adds that no
`absent` answer is on its way for a landed key, and the invalidation itself as hypothesis:
with `LookupInvalidate = FALSE` it is the bug the patch fixes.

**`CanonicalChunksProofs`** — `StatesHaveTypes` is `TypeOK` for any budget and gates. That what
is left of a pass's token budget stays within `0..Budget`, although a request may take part of
it, be preempted and give it back before others have taken theirs, is a statement about a sum
over the plan, and sums over a set are induction over data. `PassOK` says it without one: the
tokens handed out lie in the budget as stretches, one for each request with a plan, and no two
overlap; a taker is put after all that is handed out, and what is given back closes
the gap by moving those after it down.

The rest is for any budget and gates too, with
`IInv == Types /\ CachesExact /\ \A r : RequestOK(r)`, beside the invariant of the types. `RequestOK` ties a request's position,
`canon_end`, pending decision and plan to the exactness of its KV: that `canon_end` is on
the grid and covers exact KV (also when it is ahead of the position after preemption),
that a pending target is the grid point after the position it was made at, that a request
being loaded or ready is exact up to its position. The core is the lemma that the
decision of `_radiance_settle_canon` accepts a chunk only if it *is* one by the external
definition. A budget that is the grid makes the decision when the chunk is taken, so
`canon_end` runs ahead of exact KV until the pass has run: then the chunk took the whole budget
(`DecidedChunk`), and by the stretches it has the pass to itself (`WholeBudget`), so it runs
alone and exact. Receipts need a minimum over a set of naturals (`HasMinimum`, by
well-foundedness). Theorems: `CachedIsExact`, `CanonEndIsExact`, `ResumptionIsExact`.

**`OneShotAllReduceProofs`** — for any ranks, messages and stream of calls, under two hypotheses.
`Undisturbed`: no spin is given up and there are fewer calls than sequence numbers (2^32 in
the code). `Owned`: a word is always of the same block's chunk; `OneWidth` shows that this is
so for calls of one length on the exact kernel and for any lengths on the fused one, and
`allreduce_mixed` what happens without. The invariant says that a rank is at most one call
ahead of a peer and its blocks' numbers by that call (`InStep`), that a flag is the number of
the block that raises it (`FlagsOK`) and was raised for the call it was seen in (`SeenOK`), and
what lies in the two slots: what a peer has pushed for its call (`PushedOK`) and, one call
ahead, what it had pushed for ours (`KeptOK`). From it, `SlotReuse` (`DataIntact`) and
`KernelImplements`, the refinement of `AllReduce` step by step.

**`LazyGdnProofs`** — for any requests, blocks, block size, drafts below it, prompts and bounds.
Neither property is about the present: a step reads, when the GPU gets to it, blocks that
the scheduler may have retired, freed and given to another request since, and a cached
boundary may have still to be written by a step in flight. So the invariant looks through the
at most two steps of the queue. A step's position is known only within `Lo(i)..Hi(i)` while an
earlier decode step of the same request may accept any number of its drafts; `Writes(i)` is what
it may write at any of these, `Makes(i, b, p)` that it surely leaves the state at boundary *p*
in *b*, and `Good(k, b, p)` that *b* will hold it once *k* steps have run: it holds it and nobody
writes it, or some step makes it and nobody after that writes it. With these:

* `EntryOK` — a scheduled step has blocks for wherever it may run and its running block is where
  its table says; `PairOK` — a second step of the same request agrees with the first about the
  running block, one of another request writes nothing the first uses;
* `TableOK` — the scheduler's counts against the worker's (`TotalsOK`: known tokens are computed
  ones and those in flight, less what has been refused), and what a request's table holds when it
  has no step in flight, has only the prefix it found, or has its prompt not scheduled to the end;
* `SourceOK` — the state the request's next step starts from: its running block with the drafts
  of its stash replayed is the state of its computed tokens and no earlier step writes
  either, or it is a prefix boundary that is good by then;
* `OwnOK`, `SharedOK`, `CachedOK` — blocks at boundaries surely crossed (`Certain`) are good;
  two requests share a block only in the same column and at such a boundary; what is cached is
  good, at one boundary only.

Each of `Arrive`, `Schedule`, `Leave`, `RunStep` and `Output` keeps it (`NextKeeps`). `TypeOK`
alone is not inductive here: that a step finds its columns in its table is `EntryOK`. Theorems:
`SpecIInv`, `TypesHold`, `StepsStartExact`, `CacheIsExact`.

`FewAreHeld` is `HoldsFew`, under `2 * Drafts <= BlockSize` (section 6). It looks at the steps in
flight, run or not, as one list, the oldest first. Beside `IInv`, `HInv` says of a request: the
columns of its retired prefix are null; its table ends at most one column beyond the one
of its last scheduled token and of what its steps that are not in flight any more may have
refused (`Slack`); what its newest step skips, if it skips anything, is null and all that is in flight
is accepted whole (`SkippedOK`). So a newly scheduled step leaves the column of the last
committed token, if a step is in flight, and three others (`NewColumns`).

**`SplitKProofs`** — `SumsAreWhole`: `Spec => S!Spec`, for any threads, degrees and number of
launches. The invariant ties four things together: a thread that is past its fence has its
partial of this launch out (`FencedIsOut`); a block that has drawn is past its fences
(`DrawnIsFenced`); the counter is the number of blocks that have drawn until the last has,
and zero once that block's thread 0 has reset it (`Counted`); a thread that is done is in the
last block and has a whole sum (`DoneIsWhole`). The last ticket is `split - 1`, so by counting
every block has drawn (`LastSeesAll`), and every partial is out when it is read. `Counted`
is what a launch hands to the next.

**`DrafterProofs`** — the prefill skip and the prompt lookup, for any batches, prompts, window,
margin and settings. `UsedIsWritten`: without prefix caching what is near the end of a prompt
is written, with it everything is, in the requests and in the cache (`NearIsWritten`,
`AllIsWritten`). `ScanFindsBest`: the packed key `length * PosBase + position` orders matches by
length and then position because positions are below `PosBase` (`Packed`), a match's length
is the longest at its position, and so the greatest key is the reference's match; bounded
sets of naturals have a greatest element by well-foundedness. `DrawnFromItsDistribution` needs
that the candidates are distinct, what was overridden is a point distribution on its token
and the rest is untouched (`DraftOK`); `HotIsItsOwn` that between two steps of a request the
recorded length is its history's (`LengthKept`), which also is what tells requests apart.

**`DiskCachesProofs`** — three programs. *Shared objects*: a published object being whole is not
inductive: a rename publishes the temporary file, so that file must be whole when the script
is about to rename it (`BootOK`), and no name may share an inode with a published object
(`SoOK`, `TmpOK`). `TypeCorrect` needs no hypothesis; `PublishedIsWhole` and `BootIsServed` assume
`Apart`, a key per boot: `hipso_shared` shows what happens without. *Reaper*: while a stage
runs, what is listed is on the volume and above the floor, the listing's order is still an
order of the ages, and all that is not listed is younger, though ages grow and blocks arrive
(`ListedOK`, `OrderOK`, `RestYounger`): `FloorIsHeld`, `OldestGoFirst`. While a capacity stage has
blocks to take, the volume was above the target at the last reading of `df` and the deletions
since are the count modulo the batch; in Stage C it was above the mark before the run's
deletions (`NeedOK`): `DeletesAreNeeded`, for a mark that is off or not below the target.
*Pruning*, when launches do not overlap: a candidate still has the access time it was
selected with, each other tree is still to be looked at, a candidate or in use, and the
disk is above the target as long as trees are deleted (`PruneOK`): `PruneTakesOldest`.

**`NightReleaseProofs`** — the gate inside the night's jobs, for any pull requests, features, and
deadlines that are not after the end of the window. The helper may do all that section 2 says; what
the argument has is the order of two clocks. As long as a run with a deadline has met no error, the
candidate is at the address while the window is lent, the phases that are over were answered
by it, and a window that is free means that its time is over (`GateOK`, `Timely`). A phase
that another follows ended before the deadline, so the window had not ended by then; only the last one
has no such check behind it (`PhaseOK`). Hence `PassMeasuresCandidate`.
`MergesWithProductionBack`: a report that says restored was written with production at its address
and the window free, and from a verdict that passes to the merge nobody else has the window, so it
stays so (`Restored`). Most of the proof is the types of the repository around the gate
(branches, builds, queue, the night's job), which the gate's image and baseline come from.

Out of the prover's reach and left to TLC: liveness under fairness and anything with
`ENABLED` (`EveryRequestServed`, `TargetKept` and the other temporal properties); induction over
data, so what a recursive definition computes: `NoHitLost` (the turns of a conversation over
the retained positions) and `ShorteningPays` (a sum over a batch, along a greedy path).
`StackRevisionMeasured` and `MergeNotSlower` are checked and not proved: they would need an
invariant about the history of main and every branch, build and tag at once.
`CachesTypeOK`, `KernelsTypeOK` and `AllImplement` are conjunctions over the instances of a
run, and no theorem states the whole. Of their conjuncts, the types of `HipSoCache`
(`TypeCorrect`) and `SplitK` (`SplitTypeCorrect`) and the two refinements
(`KernelImplements`, under the ownership of the words it assumes, and `SumsAreWhole`) are
theorems, for every value of the constants.

## 6. Findings and observations

Six runs find that the code does not do what the repository says of it:

* `allreduce_mixed`: slots and sequence numbers are per block
  (`r4d_radiance_extras_rx10.patch:438`), chunks depend on the call's length (`:450`), so the
  slot-reuse argument (`:380`) does not carry over to a stream of different lengths: a
  rank a call ahead writes, through one block, over words that another block of a slower
  peer has still to read. It holds for calls of one length, and for the fused kernel, whose
  chunks are rows.
* `cachereap_launched`: the stamp's only writer starts its line with `ts=`
  (`startup-cache.sh:129`), its reader looks for a line that starts with the date
  (`cache-reap.sh:93`). No stamp is ever fresh, and a tree launched within the floor can be
  deleted.
* `hipso_shared`: two boots of one key share the temporary name (`hip-so-cache.sh:39`), so one
  can publish the file the other has just truncated.
* `reask`: the clock of a deferral is cleared only by an answer to a re-ask
  (`patch_reconcile_reask.py:139`). A request that is deferred, then takes a step that does not
  reach the fallback and is refused its blocks, and is deferred again later, gives the tier
  up for good without having waited (`:145`).
* `nightrelease_main`: a stack that was merged by hand is gated with the image of the commit
  that moved VERSION (`ci/night_pick.py:119`); a feature merged after it is in the commit that
  is released, and was never measured.
* `nightrelease_calibration`: the calibration starts the local image tagged with main's VERSION
  (`accept-night.yml:197`). A pull request's builds carry main's next VERSION, and the
  concurrency group of the builds cancels one that waits: when a release is cut by hand while
  a stack pull request is open, that tag can name the pull request's own stack, which then
  becomes the baseline it is judged by.

Met while modelling, read off the code, not checked by a run:

* The deadline is the time "the measurement must be done by" (`accept.py:774`), but it is tested
  only where a phase begins (`:809`), and the window ends a few minutes after it
  (`accept-night.yml:21`). The benchmark, or GSM8K, can outlast both: the guard puts production at
  the same address, nothing asks who answers, requests that fail meanwhile are dropped from the
  numbers (`:449`), the release answers with production's health 200 (`:888`), and the run
  passes. TLC refutes `PassMeasured` within seconds if its second case, the last phase, is
  left out. A gate by hand has no deadline, so this can befall each of its phases.
* The 32-bit sequence number of the kernels is compared with `<` / `>=` and never reset; after
  the wrap every old flag passes.
* Pruning relies on access times, which `relatime` refreshes once a day
  (`cache-reap.sh:138`, `startup-cache/README.md:82`). `OldestWhenFull` is therefore stated
  over the access times on disk. With two launchers, a tree that another has just launched
  can be deleted between a selection and its deletion.
* `kvcache-reap.sh:22` calls the age floor hard; stage C (`:102`) goes below it, as its own
  comment says. A block that the engine deletes and stores again while it is listed is
  deleted although it is seconds old (`:83`): `FloorHeld` is stated for runs in which the
  engine has deleted nothing.
* The emergency mark is not checked against the target: with a mark below it Stage C deletes up to a
  batch below the target although nothing asks for it. `EvictsOnlyAsNeeded` is proved for a
  mark that is not below the target.
* The night merges a pull request over whatever features main got since its image was built:
  `StackRevisionMeasured` is about its stack.
* `Retention`: a prompt sent again unchanged that ends on a grid point and a block can resume only a
  grid below it; the model's prompts grow. With `KeepPrefix = 0` hits of new conversations
  on the system prompt are lost, as the setting says.
* `radiance_dflash_skip.py:15` says that drafts that are thrown away never read skipped context:
  the decision looks at the step's own chunk, so the draft after it may; it is of a request
  still in its prompt, and not used.
* Switching `RADIANCE_LOOKUP_SWITCH` while the server runs would leave `st_used` of the steps
  before; the model has no switch.
* `AdaptiveWidth` goes up the ladders greedily: with unequal numbers of drafts it need not find
  the best batch, and `ShorteningPays` asks only that it is no worse than all drafts there.
* The group `build` keeps one waiting run: an event can cancel a tag's build that waits there.
* An `acquire` that was granted and whose answer is lost leaves the window to its expiry
  (`accept.py:737`), and the retry finds it taken.
* The baseline may go down by the tolerance with each pass, and a calibration records also when
  its checks have failed (`accept.py:906`). Without its condition on what was recorded,
  `MergeNotSlower` is refuted within the bounds of `nightrelease`: a slow stack is
  calibrated on itself as in `nightrelease_calibration`, passes, and is merged.
* `LazyGdn`: a decode step of one token next to speculative rows makes `_plan` raise
  (`radiance_gdn.py:584`); no step of the model is that. The header check makes a stale stash
  harmless in the model, also without `_lazy_invalidate`, since the accepted count is 1
  after a prefill. Retiring by the scheduled instead of the committed count would be safe
  too, because the GPU runs the steps in order. The materialise kernel takes the block table's
  row by batch position (`r4d_extras_rx10.patch:1568`) and everything else by request.
* `LazyGdn`: `HoldsFew` needs the drafts of two steps to fit in a block: TLC refutes it for blocks
  of 4 tokens and 3 drafts, where two steps in a row that refuse all their drafts leave a
  table two columns ahead of the request. Blocks have hundreds of tokens and steps few drafts.
* `CanonicalChunks`: with a budget of one grid step, a prefill behind requests that decode gets
  nothing while what these leave is less than a block, and TLC refutes `PrefillCompletes`
  (grid and budget 4, the rest as in the run): that property is about budgets like the
  run's and the shipped one, the safety properties about any.
* With a RAM tier smaller than what two requests need together, promotions can evict each
  other for ever: `EveryRequestServed` needs the joint demand to fit.

## 7. Limits of the models

* `FsTier`: the store's and the load's temporary files are one step each; the KV event list,
  the stale-lookup watch and the metrics are left out. An `absent` answer already in flight
  when a store lands is applied afterwards (`landed` excludes it): the code has that window.
* `CanonicalChunks`: tokens decoded past `MaxOutput` are not counted. Blocks and receipts are
  registered at the end of the pass; the code registers a receipt of a chunk that is not
  deferred at its allocation, so a request later in the same pass could already see it. A `canon_end`
  left behind by a preemption is kept, as in the code, and then `_mamba_block_aligned_split`
  does not wait. Memory is a fault (`allocate_slots` may fail), not a count of blocks. KV
  groups are folded into the target's and the drafter's.
* `OneShotAllReduce`: the order within a rank is the order of actions; a release store and the
  drain before it are modelled by their guard (`Drained`), weaker memory by nothing else. The
  two-shot, int8 and WHT kernels and the 2-rank exact kernel are in `libr4d`, not in this
  repository; the exact kernel with one peer stands for the last in two of the runs.
  `patch_ar_3rank.py` is not part of the shipped image (`ci/unused_patches.txt`).
* `LazyGdn`: every request reads the same stream; the conv state, the row split and the eager
  cache are left out; steps have one request each, as rows do not share blocks.
* `SplitK`: a store reaches the other CUs in one piece and no read is speculated before its
  fence; `Splits` is `1 .. 3` in the run where the code has 1, 2, 4 (the proof is for any).
* `AcceptGate`, `NightRelease`: a phase counts as answered by who is at the address when it ends; a
  benchmark that production answered has production's full throughput. One pull request: that
  another one's build with the same VERSION takes over a tag is not exercised, the next
  push's and main's own builds are. Check contents, comments, changelogs, forced inputs and
  the torch wheel image are left out.
* `CacheReap`: one launcher in the runs; a reap takes no hours.
* `KvReap`: a listing is atomic; dry run, report, and sweeps are left out.

## 8. Plan

Done, in this order: `FsTier`, `CanonicalChunks`, the all-reduce with its abstract
specification, the three script models; the gate and the night release, `LazyGdn`, `SplitK`;
retention, the re-ask and the three programs around the drafter; and the proofs of section
5. Next, most important first:

1. `patch_offload_mixed_hit.py`: hits per KV group, beside `Reask`.
2. `AllReduceSetup`: per-rank installation (`radiance_allreduce.py:139-165`) and its
   asymmetric failure, against the collectives the other ranks take.
3. The two-shot prefill all-reduce and its overlap with the next GEMM.

Runs are kept few and each has a distinct question; a new module replaces the weakest of
them or shares a configuration.
