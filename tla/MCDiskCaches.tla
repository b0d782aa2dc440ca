---------------------------- MODULE MCDiskCaches ----------------------------
(* Six programs around caches: HipSoCache on the shared objects, CacheReap *)
(* on the launchers' trees, FsTier with two requests over two blocks       *)
(* (small enough for liveness), KvReap on the tier's volume, Reask on a    *)
(* waiting request, and Retention on two conversations behind one system   *)
(* prompt.  They share no state, so a behaviour runs one of them, as its   *)
(* first state chooses; the other ones stay as they are.                   *)
EXTENDS HipSoCache, KvReap, CacheReap

CONSTANTS l1, t1, t2, t3, t4, k1, k2, r1, r2, None

MCBoots == {"b1", "b2"}
MCKeys == {"k1", "k2"}
MCInodes == {"i1", "i2", "i3", "i4"}

MCBlocks == {"e1", "e2", "e3", "e4"}

\* Two servers with different flags.
MCApart == [b \in MCBoots |-> IF b = "b1" THEN "k1" ELSE "k2"]

VARIABLES program,
          blockFile, verdict, refs, reqKeys, queued, answers, ram, pending,
          computed, job, request, got, faults, landed,
          st, t0, gaveUp, attn, state, beyond, below, parked, waited, changes,
          prompt, held, inTier, gpu, tier, hit, turns

tierVars == <<blockFile, verdict, refs, reqKeys, queued, answers, ram, pending,
              computed, job, request, got, faults, landed>>
queueVars == <<st, t0, gaveUp, attn, state, beyond, below, parked, waited, changes>>
turnVars == <<prompt, held, inTier, gpu, tier, hit, turns>>
cacheVars == <<program, vars, pruneVars, tierVars, reapVars, queueVars, turnVars>>

\* One launcher over four trees.
MCLaunchers == {l1}
MCTrees == {t1, t2, t3, t4}

MCRequests == {r1, r2}
MCPair == {k1, k2}

Tier == INSTANCE FsTier WITH
            file <- blockFile,
            Keys <- MCPair, Requests <- MCRequests,
            Want <- [r \in MCRequests |-> IF r = r1 THEN {k1, k2} ELSE {k1}],
            Jobs <- {1, 2}, RamBlocks <- 2, FanoutMax <- 2, Threads <- 2,
            LookupInvalidate <- TRUE, FailedLoadForget <- TRUE, MaxFaults <- 1

Queue == INSTANCE Reask WITH
            Prompt <- 4, BlockSize <- 2, MinDrop <- 1, MaxDefer <- 2, MaxChanges <- 2

Chats == INSTANCE Retention WITH
            attn <- held, stored <- inTier,
            Convs <- {"c1", "c2"}, Shared <- "both", SystemPrompt <- 6,
            Block <- 2, Grid <- 4, Window <- 1, KeepPrefix <- 4, GeoK <- 2,
            Receipts <- TRUE, Tail <- 1, MaxPrompt <- 14, MaxOutput <- 1, MaxTurns <- 3

ASSUME /\ PruneSettings /\ ReapSettings
       /\ Queue!ReaskSettings /\ Chats!RetentionSettings

CachesInit ==
    /\ Init /\ PruneInit /\ Tier!Init /\ ReapInit /\ Queue!Init /\ Chats!Init
    /\ program \in {"hip-so-cache", "cache-reap", "fs-tier", "kv-reap", "reask",
                   "retention"}
    /\ live[l1] = t1    \* the trees are alike
    /\ program # "fs-tier" => \A k \in MCPair : blockFile[k] = "none"
    /\ program # "reask" => attn = 0 /\ state = 0 /\ beyond = "absent" /\ below = "absent"

HipSoRuns ==
    /\ program = "hip-so-cache"
    /\ UNCHANGED <<program, pruneVars, tierVars, reapVars, queueVars, turnVars>>
TreesRun ==
    /\ program = "cache-reap"
    /\ UNCHANGED <<program, vars, tierVars, reapVars, queueVars, turnVars>>
InTier == program = "fs-tier"
TierRuns ==
    InTier /\ UNCHANGED <<program, vars, pruneVars, reapVars, queueVars, turnVars>>
OnVolume == program = "kv-reap"
VolumeRuns ==
    OnVolume /\ UNCHANGED <<program, vars, pruneVars, tierVars, queueVars, turnVars>>
InQueue == program = "reask"
QueueRuns ==
    InQueue /\ UNCHANGED <<program, vars, pruneVars, tierVars, reapVars, turnVars>>
ChatsRun ==
    /\ program = "retention"
    /\ UNCHANGED <<program, vars, pruneVars, tierVars, reapVars, queueVars>>

CachesNext ==
    \/ HipSoRuns /\ Next
    \/ TreesRun /\ PruneNext
    \/ TierRuns /\ Tier!Next
    \/ VolumeRuns /\ ReapNext
    \/ QueueRuns /\ Queue!Next
    \/ ChatsRun /\ Chats!Next

\* A booting container runs; the other ones are as fair as their modules say.
CachesSpec ==
    /\ CachesInit /\ [][CachesNext]_cacheVars
    /\ \A b \in MCBoots : WF_vars(program = "hip-so-cache" /\ Script(b))
    /\ \A r \in MCRequests, k \in MCPair : WF_tierVars(InTier /\ Tier!Lookup(r, k))
    /\ \A k \in MCPair : WF_tierVars(InTier /\ Tier!Stat(k))
    /\ WF_tierVars(InTier /\ \E a \in answers : Tier!Drain(a))
    /\ WF_tierVars(InTier /\ Tier!FlushPromotions)
    /\ WF_tierVars(InTier /\ Tier!GetFinishedJobs)
    /\ WF_tierVars(InTier /\ Tier!Workers)
    /\ WF_reapVars(OnVolume /\ Reaper)
    /\ WF_queueVars(InQueue /\ Queue!Look)
    /\ WF_queueVars(InQueue /\ Queue!Tick)
    /\ WF_queueVars(InQueue /\ Queue!Land)

\* The liveness of the modules, where a behaviour runs them.
EveryBootEnds == program = "hip-so-cache" => BootsEnd
EveryRequestIsServed == program = "fs-tier" => Tier!EveryRequestServed
VolumeKept == program = "kv-reap" => TargetKept
NeverParked == program = "reask" => Queue!NeverParked

\* Types of the variables of all but the tier, which has a run of its own.
CachesTypeOK == TypeOK /\ PruneTypeOK /\ ReapTypeOK /\ Queue!TypeOK

\* What the retention leaves out is never missed.
NoHitLost == Chats!NoHitLost
=============================================================================
