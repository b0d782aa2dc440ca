----------------------------- MODULE CacheReap -----------------------------
(***************************************************************************)
(* Pruning of stale launcher cache trees: startup_cache_reap, which stamps *)
(* the tree of the launcher and runs cache-reap.sh over its siblings, and  *)
(* the containers that are then served from the trees.                     *)
(*                                                                         *)
(* A tree is abstracted to its stamp file and the newest access time of    *)
(* its other files; a tree with files takes one unit of the disk.          *)
(***************************************************************************)
EXTENDS Integers, FiniteSets

CONSTANTS
    Launchers,   \* processes that launch a server
    Trees,       \* the sibling trees, by suffix
    TreesTarget, \* TARGET_PCT, in units of the disk
    MinUnread,   \* MIN_AGE_HOURS
    MaxPruned,   \* MAX_DELETE
    AtimeLag,    \* relatime: an access time younger than this is not refreshed
    Old,         \* access times of the trees found at the start are this old
    MaxTime,     \* bound: the clock
    MaxLaunches  \* bound: launches

(* What the settings are; the modules that give them values assume it.    *)
PruneSettings ==
    /\ TreesTarget \in Nat /\ MinUnread \in Nat \ {0} /\ MaxPruned \in Nat /\ AtimeLag \in Nat
    /\ Old \in Nat /\ MaxTime \in Nat /\ MaxLaunches \in Nat /\ IsFiniteSet(Trees)

Times == -Old..MaxTime

VARIABLES
    clock,      \* hours
    onDisk,     \* the trees on disk
    stamp,      \* the lines of .last-boot-ok, per tree
    files,      \* the trees with other files in them
    atime,      \* newest access time of those files
    launched,   \* history: when the tree was last launched
    used,       \* history: when a file of it was last read or written
    at,         \* where each launcher is
    live,       \* its live tree
    toScan,     \* trees its glob has still to visit
    cand,       \* cand_lines: trees to delete, with their access times
    pruned,     \* trees it has deleted
    launches    \* launches so far

launcher == <<at, live, toScan, cand, pruned>>
pruneVars == <<clock, onDisk, files, stamp, atime, launched, used, launcher, launches>>

Lines == [prefix : {"ts=", "host="}, time : Times]

PruneTypeOK ==
    /\ clock \in 0..MaxTime
    /\ onDisk \in SUBSET Trees
    /\ stamp \in [Trees -> SUBSET Lines]
    /\ files \in SUBSET onDisk
    /\ atime \in [Trees -> Times]
    /\ launched \in [Trees -> Times]
    /\ used \in [Trees -> Times]
    /\ at \in [Launchers -> {"off", "stamp", "check", "scan", "delete", "boot", "serve"}]
    /\ live \in [Launchers -> Trees]
    /\ toScan \in [Launchers -> SUBSET Trees]
    /\ cand \in [Launchers -> SUBSET (Times \X Trees)]
    /\ pruned \in [Launchers -> 0..MaxPruned]
    /\ launches \in 0..MaxLaunches

\* Every tree was last used long ago, by launchers that left no stamp.
PruneInit ==
    /\ clock = 0
    /\ onDisk = Trees
    /\ files = Trees
    /\ stamp = [t \in Trees |-> {}]
    /\ atime = [t \in Trees |-> -Old]
    /\ launched = [t \in Trees |-> -Old]
    /\ used = [t \in Trees |-> -Old]
    /\ at = [l \in Launchers |-> "off"]
    /\ live \in [Launchers -> Trees]
    /\ toScan = [l \in Launchers |-> {}]
    /\ cand = [l \in Launchers |-> {}]
    /\ pruned = [l \in Launchers |-> 0]
    /\ launches = 0

-----------------------------------------------------------------------------
UsedByTrees == Cardinality(files)

\* A launcher starts with the tree its image, GPU and flags select.
Launch(l, t) ==
    /\ at[l] = "off" /\ launches < MaxLaunches
    /\ at' = [at EXCEPT ![l] = "stamp"]
    /\ live' = [live EXCEPT ![l] = t]
    /\ launches' = launches + 1
    /\ UNCHANGED <<clock, onDisk, files, stamp, atime, launched, used, toScan, cand, pruned>>

\* The lines printf writes.
StampLines == {[prefix |-> "ts=", time |-> clock], [prefix |-> "host=", time |-> clock]}

\* startup_cache_reap makes and stamps the live tree.
Stamp(l) ==
    /\ at[l] = "stamp"
    /\ onDisk' = onDisk \cup {live[l]}
    /\ stamp' = [stamp EXCEPT ![live[l]] = StampLines]
    /\ launched' = [launched EXCEPT ![live[l]] = clock]
    /\ at' = [at EXCEPT ![l] = "check"]
    /\ UNCHANGED <<clock, files, atime, used, live, toScan, cand, pruned, launches>>

\* Nothing happens up to the target; above it the glob is expanded.
Check(l) ==
    /\ at[l] = "check"
    /\ IF UsedByTrees <= TreesTarget
         THEN at' = [at EXCEPT ![l] = "boot"] /\ UNCHANGED toScan
         ELSE at' = [at EXCEPT ![l] = "scan"] /\ toScan' = [toScan EXCEPT ![l] = onDisk]
    /\ cand' = [cand EXCEPT ![l] = {}]
    /\ pruned' = [pruned EXCEPT ![l] = 0]
    /\ UNCHANGED <<clock, onDisk, files, stamp, atime, launched, used, live, launches>>

\* stamp_is_fresh: grep wants a line that starts with a date.
StampIsFresh(t) ==
    \E line \in stamp[t] : line.prefix = "" /\ clock - line.time <= MinUnread

\* The trees the selection passes over whatever their age.
Spared(l, t) == t = live[l] \/ t \notin files \/ StampIsFresh(t)

\* The floor: some file was read within it.
InUse(t) == atime[t] > clock - MinUnread

\* The selection loop takes one tree.
Scan(l, t) ==
    /\ at[l] = "scan" /\ t \in toScan[l]
    /\ toScan' = [toScan EXCEPT ![l] = @ \ {t}]
    /\ cand' = IF Spared(l, t) \/ InUse(t) THEN cand
               ELSE [cand EXCEPT ![l] = @ \cup {<<atime[t], t>>}]
    /\ UNCHANGED <<clock, onDisk, files, stamp, atime, launched, used, at, live, pruned, launches>>

ScanEnds(l) ==
    /\ at[l] = "scan" /\ toScan[l] = {}
    /\ at' = [at EXCEPT ![l] = "delete"]
    /\ UNCHANGED <<clock, onDisk, files, stamp, atime, launched, used, live, toScan, cand, pruned, launches>>

\* Mutant: df is read once, before the loop.
BugFits(n) == FALSE

Fits(n) == n <= TreesTarget

\* The per-run cap.
Capped(l) == pruned[l] >= MaxPruned

\* Mutant: candidates are taken in the order of the glob.
BugOldest(l, c) == TRUE

Oldest(l, c) == \A d \in cand[l] : c[1] <= d[1]

\* The oldest candidate goes, whatever has happened to it since it was selected;
\* df is read again after each tree.
Delete(l, c) ==
    /\ at[l] = "delete" /\ ~Capped(l)
    /\ c \in cand[l] /\ Oldest(l, c)
    /\ onDisk' = onDisk \ {c[2]}
    /\ files' = files \ {c[2]}
    /\ stamp' = [stamp EXCEPT ![c[2]] = {}]
    /\ pruned' = [pruned EXCEPT ![l] = @ + 1]
    /\ cand' = [cand EXCEPT ![l] = @ \ {c}]
    /\ at' = IF Fits(UsedByTrees') THEN [at EXCEPT ![l] = "boot"] ELSE at
    /\ UNCHANGED <<clock, atime, launched, used, live, toScan, launches>>

\* No candidate is left, or the per-run cap is reached.
DeleteEnds(l) ==
    /\ at[l] = "delete" /\ (cand[l] = {} \/ Capped(l))
    /\ at' = [at EXCEPT ![l] = "boot"]
    /\ UNCHANGED <<clock, onDisk, files, stamp, atime, launched, used, live, toScan, cand, pruned, launches>>

\* The caller's timeout ends the run anywhere.
Timeout(l) ==
    /\ at[l] \in {"check", "scan", "delete"}
    /\ at' = [at EXCEPT ![l] = "boot"]
    /\ UNCHANGED <<clock, onDisk, files, stamp, atime, launched, used, live, toScan, cand, pruned, launches>>

\* An access: under relatime a recent access time is not refreshed.
Touched(t) == IF t \in files /\ clock - atime[t] < AtimeLag THEN atime[t] ELSE clock

\* The container boots: it reads what the tree has, or compiles it again.
Boot(l) ==
    /\ at[l] = "boot"
    /\ onDisk' = onDisk \cup {live[l]}
    /\ files' = files \cup {live[l]}
    /\ atime' = [atime EXCEPT ![live[l]] = Touched(live[l])]
    /\ used' = [used EXCEPT ![live[l]] = clock]
    /\ at' = [at EXCEPT ![l] = "serve"]
    /\ UNCHANGED <<clock, stamp, launched, live, toScan, cand, pruned, launches>>

\* The server loads a kernel from its tree.
Use(l) ==
    /\ at[l] = "serve" /\ live[l] \in files
    /\ atime' = [atime EXCEPT ![live[l]] = Touched(live[l])]
    /\ used' = [used EXCEPT ![live[l]] = clock]
    /\ UNCHANGED <<clock, onDisk, files, stamp, launched, launcher, launches>>

Stop(l) ==
    /\ at[l] = "serve"
    /\ at' = [at EXCEPT ![l] = "off"]
    /\ UNCHANGED <<clock, onDisk, files, stamp, atime, launched, used, live, toScan, cand, pruned, launches>>

\* A reap takes at most 20 s: the hours pass between reaps.
Hour ==
    /\ clock < MaxTime
    /\ \A l \in Launchers : at[l] \in {"off", "serve"}
    /\ clock' = clock + 1
    /\ UNCHANGED <<onDisk, files, stamp, atime, launched, used, launcher, launches>>

Reap(l) ==
    \/ Stamp(l) \/ Check(l) \/ ScanEnds(l) \/ DeleteEnds(l) \/ Boot(l)
    \/ \E t \in toScan[l] : Scan(l, t)
    \/ \E c \in cand[l] : Delete(l, c)

Step(l) == Reap(l) \/ Timeout(l) \/ Use(l) \/ Stop(l) \/ \E t \in Trees : Launch(l, t)

PruneNext == Hour \/ \E l \in Launchers : Step(l)

PruneSpec == PruneInit /\ [][PruneNext]_pruneVars

-----------------------------------------------------------------------------
(* Properties.                                                              *)

Deleted(t) == t \in onDisk /\ t \notin onDisk'
Deleting(l) == pruned'[l] > pruned[l]

\* When launches do not overlap, a tree goes only if its newest access time is
\* older than the floor and the disk is above the target, which the selection
\* saw and still holds when it deletes (FALLBACK and CAPACITY-GOVERNED); and
\* the oldest goes first: no tree that the run could have taken has an older
\* access time.
OldestWhenFull ==
    [][\A t \in Trees : Deleted(t) =>
         /\ atime[t] <= clock - MinUnread /\ UsedByTrees > TreesTarget
         /\ \A l \in Launchers : Deleting(l) =>
              \A u \in files \ {live[l]} : atime[t] <= atime[u]]_pruneVars

\* A tree launched within the floor is not deleted (startup-cache/README.md,
\* pruning rule 3).
LaunchedKept == [][\A t \in Trees : Deleted(t) => clock - launched[t] >= MinUnread]_pruneVars
=============================================================================
