---------------------------- MODULE NightRelease ----------------------------
(***************************************************************************)
(* The unattended release pipeline: accept-night.yml (plan, gate, green,   *)
(* green-main, calibrated, red), ci/night_pick.py, the image builds of     *)
(* build.yml, release.yml with ci/release_tag.sh, and the manual gate      *)
(* accept.yml, around one run of AcceptGate at a time.  While they run,    *)
(* pull requests are pushed to, rebased and merged by hand, features are   *)
(* merged to main, and any job can die.                                    *)
(*                                                                         *)
(* A commit is what the workflows can tell apart of it: the changes of the *)
(* image files it carries, its VERSION and its baseline file.  A pull      *)
(* request's head is identified by the main commit it branched from, its   *)
(* revision, and what the pipeline itself has committed on it.             *)
(***************************************************************************)
EXTENDS AcceptGate, Sequences, SequencesExt, FiniteSetsExt

CONSTANTS PRs,          \* the pull requests renovate/stack-*
          Revs,         \* 1 .. the number of times one is pushed to
          Features,     \* image changes merged to main, VERSION left alone
          Rev(_, _),    \* Rev(p, r): the change that revision r of p is
          FirstBase,    \* the baseline in the repository
          MaxVersion,   \* bound on VERSION
          MaxMain,      \* bound on the commits of main
          MaxOwn,       \* bound on the pipeline's commits on one branch
          MaxOutside    \* bound on the jobs that die and the human steps

ASSUME NightAssumption ==
    /\ PRs \subseteq Nat /\ IsFiniteSet(PRs)
    /\ Features \subseteq Changes
    /\ \A p \in PRs, r \in Revs : Rev(p, r) \in Changes \ Features
    /\ FirstBase \in Baseline
    /\ {MaxVersion, MaxMain, MaxOwn, MaxOutside} \subseteq Nat /\ MaxVersion >= 1

VARIABLES main,       \* the commits of main, the first being released
          pr,         \* pull requests
          green,      \* the commits with a green `ci`
          builds,     \* the concurrency group `build`: running, pending
          built,      \* per commit with an image build, whether it was good
          docker,     \* what each version's tag names in the local docker
          tags,       \* the commit of each release tag, 0: none
          ghcr,       \* the published image of each version
          marked,     \* commits with the comment accept-night:failed
          queue,      \* dispatched runs of release.yml, <<version, commit>>
          night,      \* the workflow run that holds the group gpu-window
          outside,    \* jobs that have died or failed, and human steps
          measured,   \* history: the image behind each gate's release
          misread     \* history: a baseline is of no image of its release

repoVars == <<main, pr, green, builds, built, docker, tags, ghcr, marked, queue>>
history == <<measured, misread>>
vars == <<gateVars, repoVars, night, outside, history>>

Versions == 1 .. MaxVersion
Tip == Last(main)

Sha(p, q) == <<p, q.onto, q.rev, q.own>>
PrSha(p) == Sha(p, pr[p])
MainSha(i) == <<"main", i>>

(* What a checkout of a head holds.                                        *)
HeadImage(p, q) == main[q.onto].img \cup {Rev(p, q.rev)}
PrVersion(p) == main[pr[p].onto].ver + 1

(* The pull request and main both change VERSION and the changelog, or     *)
(* both change the baseline file.                                          *)
Conflicts(q) ==
    \/ Tip.ver # main[q.onto].ver
    \/ q.own > 0 /\ Tip.base # main[q.onto].base

(* Git's merge of the head into main.                                      *)
Merged(p) ==
    [img |-> Tip.img \cup HeadImage(p, pr[p]), ver |-> PrVersion(p),
     base |-> IF pr[p].own > 0 THEN pr[p].base ELSE Tip.base]

(* A commit of main of that VERSION makes that image.                      *)
OfRelease(v, img) == \E i \in 1 .. Len(main) : main[i].ver = v /\ main[i].img = img

(* The run's number goes into a baseline; `tag` was the image of no commit *)
(* of that VERSION of main.                                                *)
Misread == misread \/ (night.saw \in Image /\ ~OfRelease(night.tag, night.saw))

Outside == outside < MaxOutside /\ outside' = outside + 1

Idle == [st |-> "idle"]
Active(p) == pr[p].st = "open"

Init ==
    /\ GateInit
    /\ main = <<[img |-> {}, ver |-> 1, base |-> FirstBase]>>
    /\ pr = [p \in PRs |-> [st |-> "none", onto |-> 1, rev |-> 0, own |-> 0,
                            base |-> FirstBase]]
    /\ green = {MainSha(1)}
    /\ builds = << >>
    /\ built = [s \in {MainSha(1)} |-> TRUE]
    /\ docker = [v \in Versions |-> IF v = 1 THEN {} ELSE Nothing]
    /\ tags = [v \in Versions |-> IF v = 1 THEN 1 ELSE 0]
    /\ ghcr = [v \in Versions |-> IF v = 1 THEN {} ELSE Nothing]
    /\ marked = {}
    /\ queue = << >>
    /\ night = Idle
    /\ outside = 0
    /\ measured = [v \in Versions |-> [kind |-> "none", saw |-> Nothing]]
    /\ misread = FALSE

-----------------------------------------------------------------------------
(* build.yml.  The group `build` runs one build and keeps one waiting: a   *)
(* third cancels the one that waits.  The image a build of a pull request  *)
(* makes is that of the head merged into main as main is at the event.     *)
Enqueue(b) ==
    IF Len(builds) < 2
    THEN builds' = Append(builds, b) /\ UNCHANGED built
    ELSE /\ builds' = <<builds[1], b>>
         /\ built' = built @@ (builds[2].sha :> FALSE)

(* A push to a branch with the label `stack` builds it, unless there is no *)
(* merge to build.                                                         *)
PrBuild(p, q) ==
    IF Conflicts(q) THEN UNCHANGED <<builds, built>>
    ELSE Enqueue([sha |-> Sha(p, q), tag |-> FALSE, ver |-> main[q.onto].ver + 1,
                  img |-> Tip.img \cup HeadImage(p, q)])

(* A build names its image before it tests it: one that fails may leave    *)
(* the tag with it.  Only the build of a tag is published.                 *)
BuildEnds(ok) ==
    /\ builds # << >>
    /\ LET b == builds[1]
       IN  /\ docker' \in {[docker EXCEPT ![b.ver] = b.img]}
                           \cup IF ok THEN {} ELSE {docker}
           /\ ghcr' = IF ok /\ b.tag THEN [ghcr EXCEPT ![b.ver] = b.img] ELSE ghcr
           /\ built' = IF b.tag THEN built ELSE (b.sha :> ok) @@ built
    /\ builds' = Tail(builds)
    /\ IF ok THEN UNCHANGED outside ELSE Outside
    /\ UNCHANGED <<gateVars, main, pr, green, tags, marked, queue, night,
                   history>>

(* ci.yml ends well for a head; that it does not is no event of its own.   *)
CiGreen ==
    /\ \E s \in {MainSha(Len(main))} \cup {PrSha(p) : p \in {q \in PRs : Active(q)}} :
          s \notin green /\ green' = green \cup {s}
    /\ UNCHANGED <<gateVars, main, pr, builds, built, docker, tags, ghcr, marked,
                   queue, night, outside, history>>

-----------------------------------------------------------------------------
(* Renovate opens a pull request, or Hermes or a human pushes to it: a new *)
(* head, which is built.  Renovate rebases on a conflict, unless there are *)
(* commits of others on the branch.                                        *)
Push(p) ==
    /\ pr[p].st \in {"none", "open"}
    /\ pr[p].rev + 1 \in Revs
    /\ LET p2 == IF pr[p].st = "none"
                 THEN [st |-> "open", onto |-> Len(main), rev |-> 1, own |-> 0,
                       base |-> Tip.base]
                 ELSE [pr[p] EXCEPT !.rev = @ + 1]
       IN  /\ main[p2.onto].ver < MaxVersion
           /\ pr' = [pr EXCEPT ![p] = p2]
           /\ PrBuild(p, p2)
    /\ UNCHANGED <<gateVars, main, green, docker, tags, ghcr, marked, queue,
                   night, outside, history>>

Rebase(p) ==
    /\ Active(p) /\ Conflicts(pr[p]) /\ pr[p].own = 0
    /\ Tip.ver < MaxVersion
    /\ LET p2 == [pr[p] EXCEPT !.onto = Len(main), !.base = Tip.base]
       IN  pr' = [pr EXCEPT ![p] = p2] /\ PrBuild(p, p2)
    /\ UNCHANGED <<gateVars, main, green, docker, tags, ghcr, marked, queue,
                   night, outside, history>>

(* main gets a commit; one that moves VERSION is built.                    *)
Extend(c) ==
    /\ Len(main) < MaxMain
    /\ main' = Append(main, c)
    /\ IF c.ver # Tip.ver
       THEN Enqueue([sha |-> MainSha(Len(main) + 1), tag |-> FALSE,
                     img |-> c.img, ver |-> c.ver])
       ELSE UNCHANGED <<builds, built>>

Feature(f) ==
    /\ f \notin Tip.img
    /\ Extend([Tip EXCEPT !.img = @ \cup {f}])
    /\ UNCHANGED <<gateVars, pr, green, docker, tags, ghcr, marked, queue, night,
                   outside, history>>

(* The release pull request of ci/cut_release.py is merged: VERSION moves. *)
(* There is none unless something was merged since it last moved.          *)
CutRelease ==
    /\ Outside
    /\ Tip.ver < MaxVersion
    /\ \E i \in 1 .. Len(main) : main[i].ver = Tip.ver /\ main[i].img # Tip.img
    /\ Extend([Tip EXCEPT !.ver = @ + 1])
    /\ UNCHANGED <<gateVars, pr, green, docker, tags, ghcr, marked, queue, night,
                   history>>

HandMerge(p) ==
    /\ Outside
    /\ Active(p) /\ ~Conflicts(pr[p]) /\ PrSha(p) \in green
    /\ Extend(Merged(p))
    /\ pr' = [pr EXCEPT ![p].st = "merged"]
    /\ UNCHANGED <<gateVars, green, docker, tags, ghcr, marked, queue, night,
                   history>>

-----------------------------------------------------------------------------
(* Mutant: only the aggregate check counts, not the image build.           *)
BugEligible(p) ==
    /\ Active(p)
    /\ ~Conflicts(pr[p])
    /\ PrSha(p) \notin marked
    /\ PrSha(p) \in green

(* judge(): None, that is, eligible.                                       *)
Eligible(p) ==
    /\ Active(p)
    /\ ~Conflicts(pr[p])
    /\ PrSha(p) \notin marked
    /\ PrSha(p) \in green
    /\ PrSha(p) \in DOMAIN built /\ built[PrSha(p)]

(* judge_main(): the newest commit that ran the image build counts, which  *)
(* is not main's head when the head left VERSION alone.                    *)
MainEligible ==
    /\ tags[Tip.ver] = 0
    /\ MainSha(Len(main)) \notin marked
    /\ MainSha(Len(main)) \in green
    /\ \E i \in 1 .. Len(main) :
          /\ MainSha(i) \in DOMAIN built
          /\ \A j \in i + 1 .. Len(main) : MainSha(j) \notin DOMAIN built
          /\ built[MainSha(i)]
          /\ main[i].ver = Tip.ver

(* Mutant: a run without a baseline is a gate like any other.              *)
BugCalibrates(base, mode) == FALSE

Calibrates(base, mode) == base[mode] = 0

Run(kind, p, sha, ver, base, calib, tag) ==
    [st |-> "gate", kind |-> kind, pr |-> p, sha |-> sha, ver |-> ver,
     ix |-> Len(main), calib |-> calib, tag |-> tag, base |-> base,
     mode |-> "none", verdict |-> "none", saw |-> Nothing, ok |-> FALSE]

(* The meta step: a minor or major move asks for the full gate if there is *)
(* time for it.  An incomplete baseline makes it a calibration of the      *)
(* current release, unless only the fast one is missing and there is time. *)
Mode(wanted, time, base) ==
    IF wanted = "fast" /\ base["fast"] = 0 /\ base["full"] # 0 /\ time
    THEN "full" ELSE wanted

PlanPr(p) ==
    /\ night = Idle
    /\ Eligible(p) /\ \A q \in PRs : q < p => ~Eligible(q)
    /\ \E wanted \in Modes, time \in BOOLEAN :
         LET mode  == Mode(wanted, time, pr[p].base)
             calib == Calibrates(pr[p].base, mode)
         IN  /\ Launch(mode, IF calib THEN "always" ELSE "pass", pr[p].base)
             /\ night' = Run("pr", p, PrSha(p), PrVersion(p), pr[p].base, calib,
                             IF calib THEN Tip.ver ELSE PrVersion(p))
    /\ UNCHANGED <<repoVars, outside, history>>

PlanMain ==
    /\ night = Idle
    /\ \A p \in PRs : ~Eligible(p)
    /\ MainEligible
    /\ \E wanted \in Modes, time \in BOOLEAN :
         LET mode == Mode(wanted, time, Tip.base)
         IN  /\ ~Calibrates(Tip.base, mode)
             /\ Launch(mode, "pass", Tip.base)
    /\ night' = Run("main", 0, MainSha(Len(main)), Tip.ver, Tip.base, FALSE, Tip.ver)
    /\ UNCHANGED <<repoVars, outside, history>>

(* accept.yml by hand: main's head, the image its VERSION names.           *)
PlanManual ==
    /\ Outside
    /\ night = Idle
    /\ tags[Tip.ver] = 0
    /\ \E mode \in Modes : Launch(mode, "no", Tip.base)
    /\ night' = Run("manual", 0, MainSha(Len(main)), Tip.ver, Tip.base, FALSE, Tip.ver)
    /\ UNCHANGED <<repoVars, history>>

(* One step of the gate process; the tag is resolved when it is started.   *)
GateRuns ==
    /\ gate # NoGate \/ window = "lent"
    /\ GateStep(IF night = Idle THEN Nothing ELSE docker[night.tag])
    /\ UNCHANGED <<repoVars, night, outside, history>>

(* The verdict step: a report without an acquired window is no verdict.    *)
(* The job's own check of production asks for /health at the address the   *)
(* candidate serves as well.                                               *)
Judge ==
    /\ gate.at = "report"
    /\ night' = [night EXCEPT
                   !.st = "judged",
                   !.verdict = IF ~gate.acquired THEN "infra" ELSE Verdict(gate),
                   !.mode = gate.mode,
                   !.saw = gate.by["bench"],
                   !.base = Recorded(gate),
                   !.ok = served # Nothing]
    /\ gate' = NoGate
    /\ UNCHANGED <<repoVars, window, served, now, outside, history>>

-----------------------------------------------------------------------------
(* Job `green`: the checkout must be the head the gate has seen.           *)
GreenStarts ==
    /\ night.st = "judged" /\ night.kind = "pr" /\ ~night.calib
    /\ night.verdict = "pass" /\ night.ok
    /\ night' = IF PrSha(night.pr) = night.sha
                THEN [night EXCEPT !.st = "green"] ELSE Idle
    /\ UNCHANGED <<gateVars, repoVars, outside, history>>

(* The commit with the measured numbers and the baseline is pushed to the  *)
(* branch: refused when the branch has moved since the checkout.           *)
PushMeasured ==
    /\ night.st = "green"
    /\ pr[night.pr].own < MaxOwn
    /\ IF PrSha(night.pr) = night.sha
       THEN LET p  == night.pr
                p2 == [pr[p] EXCEPT !.own = @ + 1, !.base = night.base]
            IN  /\ pr' = [pr EXCEPT ![p] = p2]
                /\ PrBuild(p, p2)
                /\ night' = [night EXCEPT !.st = "pushed", !.sha = Sha(p, p2)]
       ELSE night' = Idle /\ UNCHANGED <<pr, builds, built>>
    /\ UNCHANGED <<gateVars, main, green, docker, tags, ghcr, marked, queue,
                   outside, history>>

(* `ci` is green for that commit, and the head is still that commit.       *)
MergePr ==
    /\ night.st = "pushed" /\ night.sha \in green
    /\ Active(night.pr) /\ ~Conflicts(pr[night.pr])
    /\ PrSha(night.pr) = night.sha
    /\ Extend(Merged(night.pr))
    /\ pr' = [pr EXCEPT ![night.pr].st = "merged"]
    /\ night' = [night EXCEPT !.st = "merged", !.ix = Len(main) + 1]
    /\ UNCHANGED <<gateVars, green, docker, tags, ghcr, marked, queue, outside,
                   history>>

(* `ci` fails or takes too long, or the merge is refused: a human has to   *)
(* finish it.                                                              *)
GreenGivesUp ==
    /\ night.st = "pushed"
    /\ night' = Idle
    /\ UNCHANGED <<gateVars, repoVars, outside, history>>

(* Job `green-main`: the measured numbers go in through a pull request of  *)
(* their own.  Its merge commit is released if it adds nothing else to     *)
(* what was gated, and the gated commit if it does or is not merged.       *)
GreenMain(merged) ==
    /\ night.st = "judged" /\ night.kind = "main"
    /\ night.verdict = "pass" /\ night.ok
    /\ IF merged
       THEN /\ Tip.base = main[night.ix].base
            /\ Extend([Tip EXCEPT !.base = night.base])
            /\ night' = [night EXCEPT
                 !.st = "merged",
                 !.ix = IF Tip.img = main[@].img /\ Tip.ver = main[@].ver
                        THEN Len(main) + 1 ELSE @]
            /\ misread' = Misread
       ELSE /\ night' = [night EXCEPT !.st = "merged"]
            /\ UNCHANGED <<main, builds, built, misread>>
    /\ UNCHANGED <<gateVars, pr, green, docker, tags, ghcr, marked, queue, outside,
                   measured>>

(* Job `calibrated`: the baseline goes to the branch as it is now; nothing *)
(* is merged.                                                              *)
Calibrated ==
    /\ night.st = "judged" /\ night.calib
    /\ LET p  == night.pr
           p2 == [pr[p] EXCEPT !.own = @ + 1, !.base = night.base]
       IN  IF /\ night.verdict # "infra" /\ night.ok
              /\ Active(p) /\ pr[p].base # night.base
           THEN /\ pr[p].own < MaxOwn
                /\ pr' = [pr EXCEPT ![p] = p2] /\ PrBuild(p, p2)
                /\ misread' = Misread
           ELSE UNCHANGED <<pr, builds, built, misread>>
    /\ night' = Idle
    /\ UNCHANGED <<gateVars, main, green, docker, tags, ghcr, marked, queue,
                   outside, measured>>

(* Job `red`: the marker stops the next nights from trying the same head;  *)
(* there is none when nothing was measured.                                *)
Red ==
    /\ night.st = "judged" /\ night.kind # "manual" /\ ~night.calib
    /\ night.verdict # "pass" \/ ~night.ok
    /\ marked' = IF night.verdict = "infra" THEN marked ELSE marked \cup {night.sha}
    /\ night' = Idle
    /\ UNCHANGED <<gateVars, main, pr, green, builds, built, docker, tags, ghcr,
                   queue, outside, history>>

-----------------------------------------------------------------------------
(* The concurrency group `release`: one run, and one that waits.           *)
Dispatch(r) ==
    queue' = IF Len(queue) < 2 THEN Append(queue, r) ELSE <<queue[1], r>>

DispatchRelease ==
    /\ night.st = "merged"
    /\ Dispatch([ver |-> night.ver, ix |-> night.ix, kind |-> night.kind,
                 saw |-> night.saw])
    /\ night' = Idle
    /\ UNCHANGED <<gateVars, main, pr, green, builds, built, docker, tags, ghcr,
                   marked, outside, history>>

HandRelease ==
    /\ Outside
    /\ tags[Tip.ver] = 0
    /\ queue = << >>
    /\ Dispatch([ver |-> Tip.ver, ix |-> Len(main), kind |-> "manual",
                 saw |-> Nothing])
    /\ UNCHANGED <<gateVars, main, pr, green, builds, built, docker, tags, ghcr,
                   marked, night, history>>

(* ci/release_tag.sh: VERSION at the commit must be the tag's, and a tag   *)
(* is never moved.  Its push starts the build that publishes.              *)
Tag(r) ==
    IF tags[r.ver] = 0 /\ main[r.ix].ver = r.ver
    THEN /\ tags' = [tags EXCEPT ![r.ver] = r.ix]
         /\ measured' = IF r.kind = "manual" THEN measured
                        ELSE [measured EXCEPT ![r.ver] =
                                       [kind |-> r.kind, saw |-> r.saw]]
         /\ Enqueue([sha |-> MainSha(r.ix), tag |-> TRUE, img |-> main[r.ix].img,
                     ver |-> r.ver])
    ELSE UNCHANGED <<tags, measured, builds, built>>

ReleaseRuns ==
    /\ queue # << >>
    /\ Tag(Head(queue))
    /\ queue' = Tail(queue)
    /\ UNCHANGED <<gateVars, main, pr, green, docker, ghcr, marked, night, outside,
                   misread>>

(* Job `release` of accept.yml: a green manual gate tags by itself.        *)
ManualEnds ==
    /\ night.st = "judged" /\ night.kind = "manual"
    /\ IF night.verdict = "pass" /\ night.ok
       THEN Tag([ver |-> night.ver, ix |-> night.ix, kind |-> "manual",
                 saw |-> night.saw])
       ELSE UNCHANGED <<tags, measured, builds, built>>
    /\ night' = Idle
    /\ UNCHANGED <<gateVars, main, pr, green, docker, ghcr, marked, queue, outside,
                   misread>>

(* A job dies: a lost runner, a failed call, a time-out.  A gate that dies *)
(* leaves the window to its end.                                           *)
JobDies ==
    /\ night # Idle
    /\ Outside
    /\ night' = Idle
    /\ IF gate = NoGate THEN UNCHANGED gateVars
                        ELSE gate' = NoGate /\ UNCHANGED <<window, served, now>>
    /\ UNCHANGED <<repoVars, history>>

-----------------------------------------------------------------------------
Workflow ==
    \/ GateRuns \/ Judge
    \/ GreenStarts \/ PushMeasured \/ MergePr \/ GreenGivesUp
    \/ \E merged \in BOOLEAN : GreenMain(merged)
    \/ Calibrated \/ Red
    \/ DispatchRelease \/ ReleaseRuns \/ ManualEnds

World ==
    \/ \E ok \in BOOLEAN : BuildEnds(ok)
    \/ CiGreen
    \/ \E p \in PRs : Push(p) \/ Rebase(p) \/ HandMerge(p) \/ PlanPr(p)
    \/ PlanMain \/ PlanManual
    \/ \E f \in Features : Feature(f)
    \/ CutRelease \/ HandRelease \/ JobDies
    \/ HandRestore /\ UNCHANGED <<repoVars, night, outside, history>>

Next == Workflow \/ World

Spec == Init /\ [][Next]_vars

-----------------------------------------------------------------------------
NightMerge == night.st = "pushed" /\ night'.st = "merged"

(* A version that the night released carries no revision of the stack that *)
(* its gate did not measure: neither a later push, nor another image that  *)
(* the version's tag has named meanwhile.  A gate whose benchmark          *)
(* production answered has measured no image (PassMeasured).               *)
StackRevisionMeasured ==
    \A v \in Versions :
        measured[v].kind # "none" =>
            /\ main[tags[v]].ver = v
            /\ measured[v].saw \in Image
                  => main[tags[v]].img \ Features \subseteq measured[v].saw

(* The night merges no stack that is slower than main, beyond the          *)
(* tolerance: over releases cut by hand between the gate and the merge,    *)
(* heads that move, and baselines that main and the branch change          *)
(* meanwhile.  On two conditions: every baseline that a run of it recorded *)
(* is of an image of the release it was meant for (CalibratedOnRelease),   *)
(* and an image, not production, has answered the benchmark                *)
(* (PassMeasured says when it has not).                                    *)
MergeNotSlower ==
    [][NightMerge /\ ~misread /\ night.saw \in Image
          => Throughput(night.saw) + Tol >= Throughput(Tip.img)]_vars

(* accept-night.yml: the night merges only for a pass with production      *)
(* healthy.  When it merges, production is back: not the candidate, which  *)
(* answers the health check after the gate just as well if the release     *)
(* failed, and not what the guard, a lost start or an earlier job that     *)
(* died has left at the address.                                           *)
ProductionBack == [][NightMerge => served = Production]_vars

(* accept-night.yml: a calibration measures the current release, the image *)
(* of main's VERSION.  So what it records is the number of an image that   *)
(* main's commits of that VERSION make.                                    *)
CalibratedOnRelease ==
    [][night.st = "judged" /\ night.calib /\ night' = Idle
             /\ pr' # pr /\ night.saw \in Image
          => OfRelease(night.tag, night.saw)]_vars

(* accept-night.yml: `main` is released at the commit that adds nothing    *)
(* but the measured numbers to what was gated.  So the image of that       *)
(* commit would be the one that was measured.                              *)
ReleasedWasMeasured ==
    \A v \in Versions :
        measured[v].kind = "main" /\ measured[v].saw \in Image
            => main[tags[v]].img = measured[v].saw
=============================================================================
