------------------------ MODULE NightReleaseProofs -------------------------
(***************************************************************************)
(* Proofs about the acceptance gate inside NightRelease, for any changes,  *)
(* pull requests, baselines and deadlines.  A phase that another phase     *)
(* follows ends before the deadline, so its window has not ended by then   *)
(* and its candidate has answered; and only a run whose own release said   *)
(* so is merged, so production is back when it is.                         *)
(***************************************************************************)
EXTENDS NightRelease, FiniteSetTheorems, TLAPS

(* Types.                                                                  *)

Servers == Image \cup {Production, Nothing}

GateRun ==
    [at : Phases \cup {"acquire", "release", "report"}, mode : Modes,
     record : {"no", "pass", "always"}, base : Baseline,
     acquired : BOOLEAN, failed : BOOLEAN, error : BOOLEAN, restored : BOOLEAN,
     cand : Image \cup {Nothing}, by : [Requests -> Servers]]

GateTypeOK ==
    /\ gate = NoGate \/ gate \in GateRun
    /\ window \in {"free", "lent"}
    /\ served \in Servers
    /\ now \in 0 .. WindowEnd

Commit == [img : Image, ver : Versions, base : Baseline]
PullRequest == [st : {"none", "open", "merged"}, onto : Nat, rev : Nat, own : Nat,
                base : Baseline]
Shas == (PRs \X Nat \X Nat \X Nat) \cup ({"main"} \X Nat)
ABuild == [sha : Shas, tag : BOOLEAN, img : Image, ver : Versions]
Release1 == [ver : Versions, ix : Nat, kind : {"pr", "main", "manual"}, saw : Servers]
NightRun ==
    [st : {"gate", "judged", "green", "pushed", "merged"}, kind : {"pr", "main", "manual"},
     pr : PRs \cup {0}, sha : Shas, ver : Versions, ix : Nat, calib : BOOLEAN,
     tag : Versions, base : Baseline, mode : Modes \cup {"none"},
     verdict : {"none", "infra", "pass", "fail"}, saw : Servers, ok : BOOLEAN]

MainOK == main \in Seq(Commit) /\ main # << >>

PrOK ==
    /\ pr \in [PRs -> PullRequest]
    /\ \A p \in PRs :
         /\ pr[p].onto \in 1 .. Len(main)
         /\ pr[p].st = "none" => pr[p].rev = 0
         /\ pr[p].st # "none" => pr[p].rev \in Revs /\ PrVersion(p) \in Versions

BuildsOK == builds \in Seq(ABuild) /\ docker \in [Versions -> Image \cup {Nothing}]

QueueOK ==
    /\ queue \in Seq(Release1)
    /\ \A i \in 1 .. Len(queue) : queue[i].ix \in 1 .. Len(main)

(* Production is back once the run has passed.                             *)
Restored ==
    \/ night.st = "judged" /\ night.verdict = "pass"
    \/ night.st \in {"green", "pushed"}
    => window = "free" /\ served = Production

(* A gate runs for the night, and the jobs after it have its pull request. *)
NightOK ==
    /\ night = Idle \/ night \in NightRun
    /\ gate # NoGate => night \in NightRun /\ night.st = "gate"
    /\ night \in NightRun =>
         /\ night.ix \in 1 .. Len(main)
         /\ night.st \in {"green", "pushed"} \/ night.kind = "pr" =>
               night.pr \in PRs /\ pr[night.pr].st # "none"
         /\ night.calib => night.kind = "pr"
         /\ Restored

-----------------------------------------------------------------------------
(* The inductive invariant.  Before the time of a window is over, only its *)
(* gate changes who answers.                                               *)

(* The requests that have been answered when a phase begins.               *)
Before(ph) ==
    CASE ph = "chat"  -> {"smoke"}
      [] ph = "bench" -> {"smoke", "chat"}
      [] ph = "gsm8k" -> {"smoke", "chat", "bench"}
      [] OTHER -> {}

Answers(g, t) ==
    \A ph \in Asked(g) :
        g.by[ph] = g.cand \/ (After(ph, g.mode) = "release" /\ t = WindowEnd)

Timely ==
    gate.record # "no" /\ ~gate.error =>
        /\ gate.at \in Phases \ {"start"} /\ window = "lent" => served = gate.cand
        /\ gate.at \in Phases => \A ph \in Before(gate.at) : gate.by[ph] = gate.cand
        /\ gate.at \in {"chat", "bench", "gsm8k", "release", "report"} /\ ~gate.failed
              => gate.cand # Nothing
        /\ gate.at \in {"release", "report"} => Answers(gate, now)

GateOK ==
    gate # NoGate =>
        /\ gate.at \in Phases \cup {"release"} =>
              gate.acquired /\ (window = "free" => now = WindowEnd)
        /\ gate.at = "report" =>
              /\ ~gate.error => gate.acquired
              /\ gate.restored => window = "free" /\ served = Production
        /\ gate.at = "acquire" => ~gate.restored
        /\ Timely

IInv ==
    /\ GateTypeOK /\ GateOK
    /\ MainOK /\ PrOK /\ BuildsOK /\ QueueOK /\ NightOK

-----------------------------------------------------------------------------
(* One gate.                                                               *)

LEMMA TpsInRange == ASSUME NEW g PROVE Tps(g) \in 0 .. Top
<1>1. ASSUME NEW img \in Image PROVE Throughput(img) \in 0 .. Top
  <2>1. IsFiniteSet(Slow) /\ Cardinality(Slow) < Top /\ Top \in Nat
    BY GateAssumption, FS_Subset
  <2>2. IsFiniteSet(img \cap Slow) /\ Cardinality(img \cap Slow) <= Cardinality(Slow)
    BY <2>1, FS_Subset
  <2>3. Cardinality(img \cap Slow) \in Nat /\ Cardinality(Slow) \in Nat
    BY <2>1, <2>2, FS_CardinalityType
  <2> QED
    BY <2>1, <2>2, <2>3 DEF Throughput
<1>2. CASE g.by["bench"] \in Image
  BY <1>1, <1>2 DEF Tps
<1>3. CASE g.by["bench"] \notin Image
  BY <1>3, GateAssumption DEF Tps
<1> QED
  BY <1>2, <1>3

LEMMA RecordedOK == ASSUME NEW g \in GateRun PROVE Recorded(g) \in Baseline
<1>1. g.base \in Baseline /\ g.mode \in Modes /\ Tps(g) \in 0 .. Top
  BY TpsInRange DEF GateRun
<1> QED
  BY <1>1 DEF Recorded, Baseline

(* What follows a phase has only what came before it to rely on.           *)
LEMMA AfterOK ==
    ASSUME NEW g \in GateRun, g.at \in Phases, NEW ph, ph = After(g.at, g.mode)
    PROVE  /\ ph \in (Phases \ {"start"}) \cup {"release"}
           /\ g.at = "start" <=> ph = "logs"
           /\ ph \in {"chat", "bench", "gsm8k", "release"} <=> g.at \in Requests
           /\ ph # "release" => Before(ph) \subseteq Before(g.at) \cup ({g.at} \cap Requests)
           /\ ph = "release" =>
                 g.at \in {"bench", "gsm8k"} /\ Asked(g) \subseteq Before(g.at) \cup {g.at}
<1>1. g.at \in {"start", "logs", "smoke", "chat", "bench", "gsm8k"} /\ g.mode \in {"fast", "full"}
  BY DEF Phases, GateRun, Modes
<1>2. CASE g.at \in {"start", "logs", "smoke", "chat"}
  <2>1. /\ g.at = "start" => ph = "logs"
        /\ g.at = "logs" => ph = "smoke"
        /\ g.at = "smoke" => ph = "chat"
        /\ g.at = "chat" => ph = "bench"
    BY DEF After
  <2> QED
    BY <1>2, <2>1 DEF Phases, Requests, Before
<1>3. CASE g.at \in {"bench", "gsm8k"}
  <2>1. /\ g.at = "bench" => ph = IF g.mode = "full" THEN "gsm8k" ELSE "release"
        /\ g.at = "gsm8k" => ph = "release"
    BY DEF After
  <2> QED
    BY <1>1, <1>3, <2>1 DEF Phases, Requests, Before, Asked
<1> QED
  BY <1>1, <1>2, <1>3

LEMMA EnterIs ==
    ASSUME GateTypeOK, NEW g \in GateRun, NEW ph \in Phases \cup {"release"}
    PROVE  LET e == Enter(g, ph)
           IN  /\ e \in GateRun
               /\ e.acquired = g.acquired /\ e.cand = g.cand /\ e.by = g.by
               /\ e.mode = g.mode /\ e.record = g.record /\ e.failed = g.failed
               /\ \/ /\ e.at = ph /\ e.error = g.error
                     /\ g.record = "no" \/ now < Deadline \/ ph \in {"logs", "release"}
                  \/ e.at = "release" /\ e.error
<1>0. now >= Deadline \/ now < Deadline
  BY GateAssumption DEF GateTypeOK
<1> DEFINE late == g.record # "no" /\ now >= Deadline /\ ph \notin {"logs", "release"}
<1>1. CASE ~late
  <2>1. Enter(g, ph) = [g EXCEPT !.at = ph]
    BY <1>1 DEF Enter
  <2> QED
    BY <1>0, <1>1, <2>1 DEF GateRun
<1>2. CASE late
  <2>1. Enter(g, ph) = [g EXCEPT !.at = "release", !.error = TRUE]
    BY <1>2 DEF Enter
  <2> QED
    BY <2>1 DEF GateRun
<1> QED
  BY <1>1, <1>2

LEMMA OffIsNone == NoGate \notin GateRun
<1> SUFFICES ASSUME NoGate \in GateRun PROVE FALSE
  OBVIOUS
<1>1. NoGate.at = "off"
  BY DEF NoGate
<1>2. NoGate.at # "off"
  BY DEF GateRun, Phases
<1> QED
  BY <1>1, <1>2

(* A pass is of a run without errors that has given the window back.        *)
LEMMA PassIs ==
    ASSUME NEW g, Verdict(g) = "pass" PROVE ~g.failed /\ ~g.error /\ g.restored
  BY DEF Verdict

(* A phase of a run, other than the start, ends.                           *)
LEMMA PhaseOK ==
    ASSUME GateTypeOK, GateOK, gate \in GateRun, gate.at \in Phases \ {"start"},
           NEW g \in GateRun, g.at = gate.at, g.mode = gate.mode, g.record = gate.record,
           g.error = gate.error, g.cand = gate.cand, g.acquired = gate.acquired,
           gate.failed => g.failed, g.at \in Requests /\ ~g.failed => served # Nothing,
           g.by = IF g.at \in Requests THEN [gate.by EXCEPT ![g.at] = served] ELSE gate.by,
           gate' = Enter(g, After(g.at, g.mode)), UNCHANGED <<window, served, now>>
    PROVE  GateTypeOK' /\ GateOK' /\ gate' \in GateRun
<1> DEFINE ph == After(g.at, g.mode)
<1>1. /\ ph \in (Phases \ {"start", "logs"}) \cup {"release"}
      /\ ph \in {"chat", "bench", "gsm8k", "release"} <=> g.at \in Requests
      /\ ph # "release" => Before(ph) \subseteq Before(g.at) \cup ({g.at} \cap Requests)
      /\ ph = "release" =>
            g.at \in {"bench", "gsm8k"} /\ Asked(g) \subseteq Before(g.at) \cup {g.at}
  BY AfterOK
<1> HIDE DEF ph
<1>2. /\ gate' \in GateRun
      /\ gate'.acquired = g.acquired /\ gate'.cand = g.cand /\ gate'.by = g.by
      /\ gate'.mode = g.mode /\ gate'.record = g.record /\ gate'.failed = g.failed
      /\ \/ /\ gate'.at = ph /\ gate'.error = g.error
            /\ g.record = "no" \/ now < Deadline \/ ph = "release"
         \/ gate'.at = "release" /\ gate'.error
  <2>1. gate' = Enter(g, ph)
    BY DEF ph
  <2>2. ph \in Phases \cup {"release"} /\ ph # "logs"
    BY <1>1
  <2> QED
    BY <2>1, <2>2, EnterIs
<1>3. gate # NoGate /\ gate' # NoGate
  BY <1>2, OffIsNone
<1>4. gate.acquired /\ (window = "free" => now = WindowEnd) /\ Timely
  BY <1>3 DEF GateOK
<1>5. g.by \in [Requests -> Servers] /\ gate.by \in [Requests -> Servers]
  BY DEF GateRun
<1>6. ASSUME gate'.record # "no", ~gate'.error
      PROVE  /\ gate'.at = ph /\ gate.record # "no" /\ ~gate.error
             /\ now < Deadline \/ ph = "release"
             /\ window = "lent" => served = gate.cand
             /\ \A r \in Before(g.at) : gate.by[r] = gate.cand
             /\ g.at \in {"chat", "bench", "gsm8k"} /\ ~gate.failed => gate.cand # Nothing
  <2>1. gate'.at = ph /\ gate.record # "no" /\ ~gate.error /\ (now < Deadline \/ ph = "release")
    BY <1>2, <1>6
  <2> QED
    BY <2>1, <1>4 DEF Timely
<1>7. \A r \in Before(g.at) : r \in Requests /\ r # g.at
  BY DEF Before, Requests
<1>8. ASSUME gate'.record # "no", ~gate'.error
      PROVE  \A r \in Before(g.at) : g.by[r] = gate.cand
  BY <1>5, <1>6, <1>7, <1>8
<1>9. g.at \in Requests => g.by[g.at] = served
  BY <1>5
<1>10. ASSUME gate'.record # "no", ~gate'.error, ph # "release"
       PROVE  /\ window = "lent" /\ served = gate.cand
              /\ \A r \in Before(ph) : g.by[r] = gate.cand
  <2>1. now < Deadline
    BY <1>6, <1>10
  <2>2. window = "lent"
    BY <1>4, <2>1, GateAssumption DEF GateTypeOK
  <2>3. served = gate.cand
    BY <1>6, <1>10, <2>2
  <2> QED
    BY <1>1, <1>8, <1>9, <1>10, <2>2, <2>3
<1>11. ASSUME gate'.record # "no", ~gate'.error, ph = "release"
       PROVE  Answers(g, now)
  <2> SUFFICES ASSUME NEW r \in Asked(g)
               PROVE  g.by[r] = g.cand \/ (After(r, g.mode) = "release" /\ now = WindowEnd)
    BY DEF Answers
  <2>1. CASE r \in Before(g.at)
    BY <1>8, <1>11, <2>1
  <2>2. CASE r = g.at
    <3>1. After(r, g.mode) = "release" /\ g.at \in Requests
      BY <1>1, <1>11, <2>2 DEF ph
    <3>2. window \in {"free", "lent"}
      BY DEF GateTypeOK
    <3>3. g.by[r] = served
      BY <1>9, <2>2, <3>1
    <3> QED
      BY <1>4, <1>6, <1>11, <3>1, <3>2, <3>3
  <2> QED
    BY <1>1, <1>11, <2>1, <2>2
<1>12. Answers(g, now) => Answers(gate', now)
  BY <1>2 DEF Answers, Asked
<1>13. ASSUME gate'.record # "no", ~gate'.error, ~gate'.failed,
              gate'.at \in {"chat", "bench", "gsm8k", "release"}
       PROVE  gate'.cand # Nothing
  <2>1. gate'.at = ph /\ g.at \in Requests /\ ~g.failed /\ ~gate.failed /\ served # Nothing
    BY <1>1, <1>2, <1>6, <1>13
  <2>2. CASE ph # "release"
    BY <1>2, <1>10, <1>13, <2>1, <2>2
  <2>3. CASE ph = "release"
    BY <1>1, <1>2, <1>6, <1>13, <2>1, <2>3
  <2> QED
    BY <2>2, <2>3
<1>14. gate'.at \in (Phases \ {"start"}) \cup {"release"}
  BY <1>1, <1>2
<1>15. Timely'
  <2> SUFFICES ASSUME gate'.record # "no", ~gate'.error
               PROVE  /\ gate'.at \in Phases \ {"start"} /\ window = "lent" => served = gate'.cand
                      /\ gate'.at \in Phases => \A r \in Before(gate'.at) : gate'.by[r] = gate'.cand
                      /\ gate'.at \in {"chat", "bench", "gsm8k", "release", "report"} /\ ~gate'.failed
                            => gate'.cand # Nothing
                      /\ gate'.at \in {"release", "report"} => Answers(gate', now)
    BY DEF Timely
  <2>1. gate'.at = ph /\ gate'.at # "report"
    BY <1>6, <1>14 DEF Phases
  <2>2. CASE ph # "release"
    BY <1>2, <1>10, <1>13, <2>1, <2>2
  <2>3. CASE ph = "release"
    BY <1>11, <1>12, <1>13, <2>1, <2>3 DEF Phases
  <2> QED
    BY <2>2, <2>3
<1>16. GateTypeOK'
  BY <1>2 DEF GateTypeOK
<1>17. gate'.at # "report" /\ gate'.at # "acquire"
  BY <1>14 DEF Phases
<1>18. gate'.acquired /\ (window' = "free" => now' = WindowEnd)
  BY <1>2, <1>4
<1>19. GateOK'
  BY <1>15, <1>17, <1>18 DEF GateOK
<1> QED
  BY <1>2, <1>16, <1>19

LEMMA GateStepOK ==
    ASSUME GateTypeOK, GateOK, NEW img \in Image \cup {Nothing}, GateStep(img)
    PROVE  /\ GateTypeOK' /\ GateOK'
           /\ gate = NoGate <=> gate' = NoGate
<1> USE DEF GateTypeOK
<1>0. 0 \in 0 .. WindowEnd /\ Production \in Servers /\ Nothing \in Servers
  BY GateAssumption DEF Servers
<1>1. gate.at # "off" => gate \in GateRun /\ gate # NoGate
  BY DEF NoGate
<1>2. ASSUME gate \in GateRun, gate' \in GateRun
      PROVE  gate # NoGate /\ gate' # NoGate
  BY <1>2, OffIsNone
<1>3. CASE Acquire
  <2> DEFINE g == [gate EXCEPT !.acquired = TRUE]
  <2>1. gate \in GateRun /\ g \in GateRun /\ g.acquired
    BY <1>1, <1>3 DEF Acquire, GateRun
  <2>2. gate' = Enter(g, "start") /\ window' = "lent" /\ UNCHANGED <<served, now>>
    BY <1>3 DEF Acquire
  <2> HIDE DEF g
  <2>3. /\ gate' \in GateRun /\ gate'.acquired
        /\ gate'.at = "start" \/ (gate'.at = "release" /\ gate'.error)
    BY <2>1, <2>2, EnterIs DEF Phases
  <2>4. Timely'
    BY <2>3 DEF Timely, Before
  <2> QED
    BY <1>2, <2>1, <2>2, <2>3, <2>4 DEF GateOK
<1>4. CASE AcquireFails
  <2>1. /\ gate \in GateRun /\ gate' \in GateRun /\ gate'.at = "report" /\ gate'.error
        /\ gate.at = "acquire" /\ gate'.restored = gate.restored
        /\ window' \in {"free", "lent"} /\ UNCHANGED <<served, now>>
    BY <1>1, <1>4 DEF AcquireFails, GateRun
  <2>2. Timely'
    BY <2>1 DEF Timely
  <2>3. ~gate.restored
    BY <1>2, <2>1 DEF GateOK
  <2> QED
    BY <1>2, <2>1, <2>2, <2>3 DEF GateOK, Phases
<1>5. CASE StartCandidate(img)
  <2> DEFINE g == [gate EXCEPT !.cand = img]
  <2>1. /\ gate \in GateRun /\ g \in GateRun /\ g.cand = img /\ g.acquired = gate.acquired
        /\ g.at = "start" /\ gate.at = "start"
    BY <1>1, <1>5 DEF StartCandidate, GateRun
  <2>2. gate' = Enter(g, After(g.at, g.mode)) /\ served' = img /\ UNCHANGED <<window, now>>
    BY <1>5 DEF StartCandidate, Onward
  <2> HIDE DEF g
  <2>3. After(g.at, g.mode) = "logs"
    BY <2>1 DEF After
  <2>4. /\ gate' \in GateRun /\ gate'.acquired = gate.acquired /\ gate'.cand = img
        /\ gate'.at = "logs" \/ (gate'.at = "release" /\ gate'.error)
    BY <2>1, <2>2, <2>3, EnterIs DEF Phases
  <2>5. Timely'
    BY <2>2, <2>4 DEF Timely, Before
  <2> QED
    BY <1>2, <2>1, <2>2, <2>4, <2>5 DEF GateOK, Servers, Phases
<1>6. CASE Raise(img)
  <2>1. /\ gate \in GateRun /\ gate' \in GateRun /\ gate'.at = "release" /\ gate'.error
        /\ gate'.acquired = gate.acquired /\ gate.at \in Phases
        /\ served' \in Servers /\ UNCHANGED <<window, now>>
    BY <1>0, <1>1, <1>6 DEF Raise, GateRun, Phases, Servers
  <2>2. Timely'
    BY <2>1 DEF Timely
  <2> QED
    BY <1>2, <2>1, <2>2 DEF GateOK
<1>7. ASSUME NEW ok \in BOOLEAN, Logs(ok)
      PROVE  GateTypeOK' /\ GateOK' /\ gate # NoGate /\ gate' # NoGate
  <2> DEFINE g == [gate EXCEPT !.failed = @ \/ ~ok]
  <2>1. /\ gate \in GateRun /\ gate.at = "logs"
        /\ gate.at \in Phases \ {"start"} /\ gate.at \notin Requests
    BY <1>1, <1>7 DEF Logs, Phases, Requests
  <2>2. /\ g \in GateRun /\ g.at = gate.at /\ g.mode = gate.mode /\ g.record = gate.record
        /\ g.error = gate.error /\ g.cand = gate.cand /\ g.acquired = gate.acquired
        /\ g.by = gate.by /\ (gate.failed => g.failed)
    BY <2>1 DEF GateRun
  <2>3. gate' = Enter(g, After(g.at, g.mode)) /\ UNCHANGED <<window, served, now>>
    BY <1>7 DEF Logs, Onward
  <2> HIDE DEF g
  <2>4. GateTypeOK' /\ GateOK' /\ gate' \in GateRun
    BY <2>1, <2>2, <2>3, PhaseOK
  <2> QED
    BY <1>2, <2>1, <2>4
<1>8. ASSUME NEW ok \in BOOLEAN, Check(ok)
      PROVE  GateTypeOK' /\ GateOK' /\ gate # NoGate /\ gate' # NoGate
  <2> DEFINE h == Answered(gate)
             g == [h EXCEPT !.failed = @ \/ ~ok]
  <2>1. gate \in GateRun /\ gate.at \in Phases \ {"start"} /\ gate.at \in Requests
    BY <1>1, <1>8 DEF Check, Phases, Requests
  <2>2. h = [gate EXCEPT !.by = [gate.by EXCEPT ![gate.at] = served]]
    BY DEF Answered
  <2>3. [gate.by EXCEPT ![gate.at] = served] \in [Requests -> Servers]
    BY <2>1 DEF GateRun
  <2>4. /\ g \in GateRun /\ g.at = gate.at /\ g.mode = gate.mode /\ g.record = gate.record
        /\ g.error = gate.error /\ g.cand = gate.cand /\ g.acquired = gate.acquired
        /\ g.by = [gate.by EXCEPT ![gate.at] = served] /\ g.failed = (gate.failed \/ ~ok)
    <3> HIDE DEF h
    <3>1. /\ h \in GateRun /\ h.at = gate.at /\ h.mode = gate.mode /\ h.record = gate.record
          /\ h.error = gate.error /\ h.cand = gate.cand /\ h.acquired = gate.acquired
          /\ h.by = [gate.by EXCEPT ![gate.at] = served] /\ h.failed = gate.failed
      BY <2>1, <2>2, <2>3 DEF GateRun
    <3> QED
      BY <3>1 DEF GateRun
  <2>5. gate' = Enter(g, After(g.at, g.mode)) /\ UNCHANGED <<window, served, now>>
        /\ (ok => served # Nothing)
    BY <1>8 DEF Check, Onward
  <2> HIDE DEF g, h
  <2>6. GateTypeOK' /\ GateOK' /\ gate' \in GateRun
    BY <2>1, <2>4, <2>5, PhaseOK
  <2> QED
    BY <1>2, <2>1, <2>6
<1>9. CASE Measure
  <2> DEFINE g == Answered(gate)
  <2>1. gate \in GateRun /\ gate.at \in Phases \ {"start"} /\ gate.at \in Requests
    BY <1>1, <1>9 DEF Measure, Phases, Requests
  <2>2. g = [gate EXCEPT !.by = [gate.by EXCEPT ![gate.at] = served]]
    BY DEF Answered
  <2>3. [gate.by EXCEPT ![gate.at] = served] \in [Requests -> Servers]
    BY <2>1 DEF GateRun
  <2>4. gate' = Enter(g, After(g.at, g.mode)) /\ UNCHANGED <<window, served, now>> /\ served # Nothing
    BY <1>9 DEF Measure, Onward
  <2> HIDE DEF g
  <2>5. /\ g \in GateRun /\ g.at = gate.at /\ g.mode = gate.mode /\ g.record = gate.record
        /\ g.error = gate.error /\ g.cand = gate.cand /\ g.acquired = gate.acquired
        /\ g.by = [gate.by EXCEPT ![gate.at] = served] /\ g.failed = gate.failed
    BY <2>1, <2>2, <2>3 DEF GateRun
  <2>6. GateTypeOK' /\ GateOK' /\ gate' \in GateRun
    BY <2>1, <2>4, <2>5, PhaseOK
  <2> QED
    BY <1>2, <2>1, <2>6
<1>10. ASSUME NEW ok \in BOOLEAN, Release(ok)
       PROVE  GateTypeOK' /\ GateOK' /\ gate # NoGate /\ gate' # NoGate
  <2>1. /\ gate \in GateRun /\ gate.at = "release"
        /\ gate' = [gate EXCEPT !.at = "report", !.restored = ok]
    BY <1>1, <1>10 DEF Release
  <2>2. /\ gate' \in GateRun /\ gate'.at = "report" /\ gate'.restored = ok
        /\ gate'.acquired = gate.acquired /\ gate'.error = gate.error /\ gate'.failed = gate.failed
        /\ gate'.cand = gate.cand /\ gate'.by = gate.by /\ gate'.mode = gate.mode
        /\ gate'.record = gate.record
    BY <2>1 DEF GateRun
  <2>3. /\ window' \in {"free", "lent"} /\ served' \in Servers /\ now' = now
        /\ ok => window' = "free" /\ served' = Production
    BY <1>0, <1>10 DEF Release
  <2>4. gate.acquired /\ Timely
    BY <1>2, <2>1, <2>2 DEF GateOK
  <2>5. Answers(gate, now) => Answers(gate', now')
    BY <2>2, <2>3 DEF Answers, Asked
  <2>6. Timely'
    BY <2>1, <2>2, <2>3, <2>4, <2>5 DEF Timely, Phases
  <2> QED
    BY <1>2, <2>1, <2>2, <2>3, <2>4, <2>6 DEF GateOK, Phases
<1>11. CASE Expire
  <2>1. /\ window = "lent" /\ now = WindowEnd /\ window' = "free" /\ UNCHANGED <<gate, now>>
        /\ served' \in Servers
    BY <1>0, <1>11 DEF Expire
  <2>2. Timely => Timely'
    BY <2>1 DEF Timely
  <2> QED
    BY <2>1, <2>2 DEF GateOK, Phases
<1>12. CASE Tick
  <2>1. /\ now < WindowEnd /\ now' = now + 1 /\ now' \in 0 .. WindowEnd
        /\ UNCHANGED <<gate, window, served>>
    BY <1>12, GateAssumption DEF Tick
  <2>2. Answers(gate, now) => Answers(gate, now')
    BY <2>1, GateAssumption DEF Answers
  <2>3. Timely => Timely'
    BY <2>1, <2>2 DEF Timely
  <2> QED
    BY <2>1, <2>3, GateAssumption DEF GateOK
<1> QED
  BY <1>3, <1>4, <1>5, <1>6, <1>7, <1>8, <1>9, <1>10, <1>11, <1>12 DEF GateStep

-----------------------------------------------------------------------------
(* The repository around it.                                               *)

LEMMA CommitAt ==
    ASSUME MainOK, NEW i \in 1 .. Len(main)
    PROVE  main[i] \in Commit /\ main[i].img \in Image /\ main[i].ver \in Versions
           /\ main[i].base \in Baseline
<1>1. main[i] \in Commit
  BY DEF MainOK
<1> QED
  BY <1>1 DEF Commit

LEMMA TipIs ==
    ASSUME MainOK
    PROVE  /\ Len(main) \in Nat /\ Len(main) \in 1 .. Len(main) /\ Tip = main[Len(main)]
           /\ Tip \in Commit /\ Tip.img \in Image /\ Tip.ver \in Versions /\ Tip.base \in Baseline
<1>1. Len(main) \in Nat /\ Len(main) \in 1 .. Len(main) /\ Tip = main[Len(main)]
  BY DEF MainOK, Tip, Last
<1> QED
  BY <1>1, CommitAt

LEMMA VersionIsNat == \A v \in Versions : v \in Nat /\ v <= MaxVersion
  BY NightAssumption DEF Versions

(* A pull request as the pipeline knows them, over the commits of main.    *)
GoodPr(q, commits) ==
    /\ q \in PullRequest /\ q.onto \in 1 .. Len(commits)
    /\ q.st = "none" => q.rev = 0
    /\ q.st # "none" => q.rev \in Revs /\ commits[q.onto].ver + 1 \in Versions

LEMMA GoodPrs ==
    ASSUME PrOK, NEW p \in PRs
    PROVE  GoodPr(pr[p], main)
  BY DEF PrOK, GoodPr, PrVersion

LEMMA HeadIs ==
    ASSUME MainOK, NEW p \in PRs, NEW q, GoodPr(q, main), q.st # "none"
    PROVE  HeadImage(p, q) \in Image /\ Sha(p, q) \in Shas
<1>1. main[q.onto].img \in Image
  BY CommitAt DEF GoodPr
<1>2. Rev(p, q.rev) \in Changes
  BY NightAssumption DEF GoodPr
<1> QED
  BY <1>1, <1>2 DEF HeadImage, Image, Sha, Shas, GoodPr, PullRequest

LEMMA EnqueueOK ==
    ASSUME builds \in Seq(ABuild), NEW b \in ABuild, Enqueue(b)
    PROVE  builds' \in Seq(ABuild)
<1>1. CASE Len(builds) < 2
  BY <1>1 DEF Enqueue
<1>2. CASE ~(Len(builds) < 2)
  <2>1. Len(builds) \in Nat /\ 1 \in 1 .. Len(builds)
    BY <1>2
  <2>2. builds[1] \in ABuild
    BY <2>1
  <2>3. <<builds[1], b>> \in Seq(ABuild)
    BY <2>2
  <2>4. builds' = <<builds[1], b>>
    BY <1>2 DEF Enqueue
  <2> QED
    BY <2>3, <2>4
<1> QED
  BY <1>1, <1>2

LEMMA PrBuildOK ==
    ASSUME MainOK, builds \in Seq(ABuild), NEW p \in PRs, NEW q, GoodPr(q, main), q.st # "none",
           PrBuild(p, q)
    PROVE  builds' \in Seq(ABuild)
<1>1. CASE Conflicts(q)
  BY <1>1 DEF PrBuild
<1>2. CASE ~Conflicts(q)
  <2> DEFINE b == [sha |-> Sha(p, q), tag |-> FALSE, ver |-> main[q.onto].ver + 1,
                   img |-> Tip.img \cup HeadImage(p, q)]
  <2>1. Tip.img \cup HeadImage(p, q) \in Image
    BY TipIs, HeadIs DEF Image
  <2>2. b \in ABuild
    BY <2>1, HeadIs DEF ABuild, GoodPr
  <2> QED
    BY <1>2, <2>2, EnqueueOK DEF PrBuild
<1> QED
  BY <1>1, <1>2

(* main only grows.                                                        *)
Grows ==
    /\ MainOK' /\ Len(main) <= Len(main') /\ 1 .. Len(main) \subseteq 1 .. Len(main')
    /\ \A i \in 1 .. Len(main) : main'[i] = main[i]

LEMMA SameGrows == ASSUME MainOK, main' = main PROVE Grows
  BY DEF MainOK, Grows

LEMMA ExtendOK ==
    ASSUME MainOK, builds \in Seq(ABuild), NEW c \in Commit, Extend(c)
    PROVE  /\ Grows /\ Len(main') = Len(main) + 1 /\ Len(main') \in 1 .. Len(main')
           /\ builds' \in Seq(ABuild)
<1>1. main' = Append(main, c) /\ main \in Seq(Commit) /\ Len(main) \in Nat
  BY DEF Extend, MainOK
<1>2. /\ main' \in Seq(Commit) /\ Len(main') = Len(main) + 1
      /\ \A i \in 1 .. Len(main) : main'[i] = main[i]
  BY <1>1
<1>3. Grows /\ Len(main') \in 1 .. Len(main')
  BY <1>1, <1>2 DEF Grows, MainOK
<1>4. CASE c.ver # Tip.ver
  <2> DEFINE b == [sha |-> MainSha(Len(main) + 1), tag |-> FALSE, img |-> c.img, ver |-> c.ver]
  <2>1. b \in ABuild
    BY <1>1 DEF ABuild, Commit, MainSha, Shas
  <2> QED
    BY <1>2, <1>3, <1>4, <2>1, EnqueueOK DEF Extend
<1> QED
  BY <1>2, <1>3, <1>4 DEF Extend

(* What a growing main leaves in order.                                    *)
LEMMA PrKept ==
    ASSUME PrOK, Grows,
           \A p \in PRs : /\ pr'[p] \in PullRequest /\ pr'[p].onto = pr[p].onto
                          /\ pr'[p].rev = pr[p].rev
                          /\ pr'[p].st = "none" <=> pr[p].st = "none",
           pr' \in [PRs -> PullRequest]
    PROVE  PrOK'
  BY DEF PrOK, Grows, PrVersion

LEMMA PrSet ==
    ASSUME PrOK, Grows, NEW p \in PRs, NEW q, GoodPr(q, main'), pr' = [pr EXCEPT ![p] = q]
    PROVE  PrOK'
<1> SUFFICES ASSUME NEW o \in PRs
             PROVE  /\ pr'[o].onto \in 1 .. Len(main')
                    /\ pr'[o].st = "none" => pr'[o].rev = 0
                    /\ pr'[o].st # "none" => pr'[o].rev \in Revs /\ main'[pr'[o].onto].ver + 1 \in Versions
  BY DEF PrOK, PrVersion, GoodPr
<1>1. CASE o = p
  BY <1>1 DEF PrOK, GoodPr
<1>2. CASE o # p
  BY <1>2 DEF PrOK, Grows, PrVersion
<1> QED
  BY <1>1, <1>2

LEMMA QueueKept == ASSUME QueueOK, Grows, queue' = queue PROVE QueueOK'
  BY DEF QueueOK, Grows

LEMMA NightKept ==
    ASSUME NightOK, Grows, UNCHANGED <<gateVars, night>>,
           \A p \in PRs : pr[p].st # "none" => pr'[p].st # "none"
    PROVE  NightOK'
  BY DEF NightOK, Grows, Restored, gateVars

LEMMA GateKept ==
    ASSUME GateTypeOK, GateOK, UNCHANGED gateVars
    PROVE  GateTypeOK' /\ GateOK'
  BY DEF gateVars, GateTypeOK, GateOK, Timely, Answers

LEMMA IdleIsNone == Idle \notin NightRun
<1> SUFFICES ASSUME Idle \in NightRun PROVE FALSE
  OBVIOUS
<1>1. Idle.st = "idle"
  BY DEF Idle
<1>2. Idle.st # "idle"
  BY DEF NightRun
<1> QED
  BY <1>1, <1>2

(* A night that ends, or one that goes on with the same gate.              *)
LEMMA NightEnds ==
    ASSUME night' = Idle, gate' = NoGate
    PROVE  NightOK'
  BY IdleIsNone DEF NightOK

-----------------------------------------------------------------------------
(* The steps.                                                              *)

LEMMA InitIInv == ASSUME Init PROVE IInv
<1> DEFINE c == [img |-> {}, ver |-> 1, base |-> FirstBase]
<1>1. 1 \in Versions /\ {} \in Image /\ FirstBase \in Baseline
  BY NightAssumption DEF Versions, Image
<1>2. c \in Commit
  BY <1>1 DEF Commit
<1>3. main = <<c>> /\ Len(main) = 1 /\ MainOK
  BY <1>2 DEF Init, MainOK
<1>4. GateTypeOK /\ GateOK
  BY GateAssumption DEF Init, GateInit, GateTypeOK, GateOK, Servers
<1>5. PrOK
  BY <1>1, <1>3 DEF Init, PrOK, PullRequest
<1>6. BuildsOK
  BY <1>1 DEF Init, BuildsOK
<1>7. QueueOK
  BY DEF Init, QueueOK
<1>8. NightOK
  BY IdleIsNone DEF Init, GateInit, NightOK
<1> QED
  BY <1>3, <1>4, <1>5, <1>6, <1>7, <1>8 DEF IInv

LEMMA BuildEndsOK == ASSUME IInv, NEW ok \in BOOLEAN, BuildEnds(ok) PROVE IInv'
<1> USE DEF IInv
<1>1. /\ Grows /\ UNCHANGED <<gateVars, main, pr, queue, night>>
      /\ builds # << >> /\ builds' = Tail(builds)
  BY SameGrows DEF BuildEnds
<1>2. builds[1] \in ABuild
  BY <1>1 DEF BuildsOK
<1>3. builds' \in Seq(ABuild)
  BY <1>1 DEF BuildsOK
<1>4. docker' = [docker EXCEPT ![builds[1].ver] = builds[1].img] \/ docker' = docker
  BY DEF BuildEnds
<1>5. BuildsOK'
  BY <1>2, <1>3, <1>4 DEF BuildsOK, ABuild
<1>6. GateTypeOK' /\ GateOK'
  BY <1>1, GateKept
<1> QED
  BY <1>1, <1>5, <1>6, PrKept, QueueKept, NightKept DEF PrOK, Grows, gateVars

LEMMA CiGreenOK == ASSUME IInv, CiGreen PROVE IInv'
<1> USE DEF IInv
<1>1. Grows /\ UNCHANGED <<gateVars, main, pr, builds, docker, queue, night>>
  BY SameGrows DEF CiGreen
<1>2. GateTypeOK' /\ GateOK'
  BY <1>1, GateKept
<1> QED
  BY <1>1, <1>2, PrKept, QueueKept, NightKept DEF PrOK, BuildsOK, Grows, gateVars

(* A pull request that changes, and nothing else but the builds.           *)
LEMMA PrStep ==
    ASSUME IInv, Grows, NEW p \in PRs, NEW q, GoodPr(q, main'), q.st # "none",
           pr' = [pr EXCEPT ![p] = q], builds' \in Seq(ABuild),
           UNCHANGED <<gateVars, docker, queue>>
    PROVE  /\ GateTypeOK' /\ GateOK'
           /\ MainOK' /\ PrOK' /\ BuildsOK' /\ QueueOK'
           /\ night' = night => NightOK'
<1> USE DEF IInv
<1>1. GateTypeOK' /\ GateOK'
  BY GateKept
<1>2. MainOK' /\ PrOK' /\ BuildsOK' /\ QueueOK'
  BY PrSet, QueueKept DEF Grows, BuildsOK
<1>3. \A o \in PRs : pr[o].st # "none" => pr'[o].st # "none"
  BY DEF PrOK
<1> QED
  BY <1>1, <1>2, <1>3, NightKept DEF gateVars

LEMMA PushOK == ASSUME IInv, NEW p \in PRs, Push(p) PROVE IInv'
<1> USE DEF IInv
<1> DEFINE q == IF pr[p].st = "none"
                THEN [st |-> "open", onto |-> Len(main), rev |-> 1, own |-> 0, base |-> Tip.base]
                ELSE [pr[p] EXCEPT !.rev = @ + 1]
<1>1. /\ Grows /\ UNCHANGED <<gateVars, main, docker, queue, night>>
      /\ pr[p].st \in {"none", "open"} /\ pr[p].rev + 1 \in Revs
      /\ main[q.onto].ver < MaxVersion /\ pr' = [pr EXCEPT ![p] = q] /\ PrBuild(p, q)
  BY SameGrows DEF Push
<1>2. pr[p] \in PullRequest
  BY DEF PrOK
<1>3. q \in PullRequest /\ q.onto \in 1 .. Len(main) /\ q.st # "none" /\ q.rev \in Revs
  <2>1. CASE pr[p].st = "none"
    <3>1. q = [st |-> "open", onto |-> Len(main), rev |-> 1, own |-> 0, base |-> Tip.base]
      BY <2>1
    <3>2. pr[p].rev + 1 = 1
      BY <2>1 DEF PrOK
    <3> QED
      BY <1>1, <3>1, <3>2, TipIs DEF PullRequest
  <2>2. CASE pr[p].st # "none"
    <3>1. q = [pr[p] EXCEPT !.rev = @ + 1]
      BY <2>2
    <3>2. pr[p].onto \in 1 .. Len(main)
      BY DEF PrOK
    <3> QED
      BY <1>1, <1>2, <2>2, <3>1, <3>2 DEF PullRequest
  <2> QED
    BY <2>1, <2>2
<1> HIDE DEF q
<1>4. main[q.onto].ver + 1 \in Versions
  <2>1. main[q.onto].ver \in Versions
    BY <1>3, CommitAt
  <2> QED
    BY <1>1, <2>1, NightAssumption DEF Versions
<1>5. GoodPr(q, main) /\ GoodPr(q, main')
  BY <1>1, <1>3, <1>4 DEF GoodPr
<1>6. builds' \in Seq(ABuild)
  BY <1>1, <1>3, <1>5, PrBuildOK DEF BuildsOK
<1> QED
  BY <1>1, <1>3, <1>5, <1>6, PrStep

LEMMA RebaseOK == ASSUME IInv, NEW p \in PRs, Rebase(p) PROVE IInv'
<1> USE DEF IInv
<1> DEFINE q == [pr[p] EXCEPT !.onto = Len(main), !.base = Tip.base]
<1>1. /\ Grows /\ UNCHANGED <<gateVars, main, docker, queue, night>>
      /\ pr[p].st = "open" /\ Tip.ver < MaxVersion
      /\ pr' = [pr EXCEPT ![p] = q] /\ PrBuild(p, q)
  BY SameGrows DEF Rebase, Active
<1>2. pr[p] \in PullRequest /\ GoodPr(pr[p], main)
  BY GoodPrs DEF PrOK
<1>3. /\ q \in PullRequest /\ q.onto = Len(main) /\ q.onto \in 1 .. Len(main) /\ q.st # "none"
      /\ q.rev \in Revs
  BY <1>1, <1>2, TipIs DEF PullRequest, GoodPr
<1> HIDE DEF q
<1>4. main[q.onto].ver + 1 \in Versions
  BY <1>1, <1>3, TipIs, NightAssumption DEF Versions
<1>5. GoodPr(q, main) /\ GoodPr(q, main')
  BY <1>1, <1>3, <1>4 DEF GoodPr
<1>6. builds' \in Seq(ABuild)
  BY <1>1, <1>3, <1>5, PrBuildOK DEF BuildsOK
<1> QED
  BY <1>1, <1>3, <1>5, <1>6, PrStep

(* A main that grows, with or without the merge of a pull request.         *)
LEMMA MainStep ==
    ASSUME IInv, Grows, builds' \in Seq(ABuild), UNCHANGED <<gateVars, docker, queue>>,
           pr' = pr \/ \E p \in PRs : pr[p].st = "open" /\ pr' = [pr EXCEPT ![p].st = "merged"]
    PROVE  /\ GateTypeOK' /\ GateOK'
           /\ MainOK' /\ PrOK' /\ BuildsOK' /\ QueueOK'
           /\ \A p \in PRs : pr[p].st # "none" => pr'[p].st # "none"
           /\ night' = night => NightOK'
<1> USE DEF IInv
<1>1. GateTypeOK' /\ GateOK'
  BY GateKept
<1>2. /\ pr' \in [PRs -> PullRequest]
      /\ \A p \in PRs : /\ pr'[p] \in PullRequest /\ pr'[p].onto = pr[p].onto
                        /\ pr'[p].rev = pr[p].rev
                        /\ pr'[p].st = "none" <=> pr[p].st = "none"
  <2>1. pr \in [PRs -> PullRequest]
    BY DEF PrOK
  <2>2. ASSUME NEW p \in PRs, pr[p].st = "open", pr' = [pr EXCEPT ![p].st = "merged"]
        PROVE  <1>2!:
    <3> DEFINE q == [pr[p] EXCEPT !.st = "merged"]
    <3>1. /\ q \in PullRequest /\ q.onto = pr[p].onto /\ q.rev = pr[p].rev
          /\ q.st # "none" /\ pr' = [pr EXCEPT ![p] = q]
      BY <2>1, <2>2 DEF PullRequest
    <3> HIDE DEF q
    <3> QED
      BY <2>1, <2>2, <3>1
  <2> QED
    BY <2>1, <2>2
<1>3. MainOK' /\ PrOK' /\ BuildsOK' /\ QueueOK'
  BY <1>2, PrKept, QueueKept DEF Grows, BuildsOK
<1> QED
  BY <1>1, <1>2, <1>3, NightKept DEF gateVars

LEMMA FeatureOK == ASSUME IInv, NEW f \in Features, Feature(f) PROVE IInv'
<1> USE DEF IInv
<1> DEFINE c == [Tip EXCEPT !.img = @ \cup {f}]
<1>1. f \in Changes /\ Tip \in Commit /\ Tip.img \in Image
  BY NightAssumption, TipIs
<1>2. c \in Commit
  BY <1>1 DEF Commit, Image
<1> HIDE DEF c
<1>3. Extend(c) /\ UNCHANGED <<gateVars, pr, docker, queue, night>>
  BY DEF Feature, c
<1>4. Grows /\ builds' \in Seq(ABuild)
  BY <1>2, <1>3, ExtendOK DEF BuildsOK
<1> QED
  BY <1>3, <1>4, MainStep

LEMMA CutReleaseOK == ASSUME IInv, CutRelease PROVE IInv'
<1> USE DEF IInv
<1> DEFINE c == [Tip EXCEPT !.ver = @ + 1]
<1>1. Tip \in Commit /\ Tip.ver + 1 \in Versions
  BY TipIs, NightAssumption DEF CutRelease, Versions
<1>2. c \in Commit
  BY <1>1 DEF Commit
<1> HIDE DEF c
<1>3. Extend(c) /\ UNCHANGED <<gateVars, pr, docker, queue, night>>
  BY DEF CutRelease, c
<1>4. Grows /\ builds' \in Seq(ABuild)
  BY <1>2, <1>3, ExtendOK DEF BuildsOK
<1> QED
  BY <1>3, <1>4, MainStep

LEMMA MergedIs ==
    ASSUME MainOK, PrOK, NEW p \in PRs, pr[p].st # "none"
    PROVE  Merged(p) \in Commit
<1>1. GoodPr(pr[p], main)
  BY GoodPrs
<1>2. HeadImage(p, pr[p]) \in Image /\ Tip.img \in Image /\ Tip.base \in Baseline
  BY <1>1, HeadIs, TipIs
<1>3. PrVersion(p) \in Versions /\ pr[p].base \in Baseline
  BY <1>1 DEF PrVersion, GoodPr, PullRequest
<1> QED
  BY <1>2, <1>3 DEF Merged, Commit, Image

LEMMA HandMergeOK == ASSUME IInv, NEW p \in PRs, HandMerge(p) PROVE IInv'
<1> USE DEF IInv
<1>1. /\ pr[p].st = "open" /\ Extend(Merged(p)) /\ pr' = [pr EXCEPT ![p].st = "merged"]
      /\ UNCHANGED <<gateVars, docker, queue, night>>
  BY DEF HandMerge, Active
<1>2. Grows /\ builds' \in Seq(ABuild)
  BY <1>1, MergedIs, ExtendOK DEF BuildsOK
<1> QED
  BY <1>1, <1>2, MainStep

(* A run of the workflow starts with a gate.                               *)
LEMMA LaunchOK ==
    ASSUME GateTypeOK, NEW mode \in Modes, NEW record \in {"no", "pass", "always"},
           NEW base \in Baseline, Launch(mode, record, base)
    PROVE  GateTypeOK' /\ GateOK' /\ gate = NoGate
<1> DEFINE g == Open(mode, record, base)
<1>1. /\ g \in GateRun /\ g.at = "acquire" /\ ~g.restored
  BY DEF Open, GateRun, Servers, NoAnswer
<1>2. gate' = g /\ now' = 0 /\ UNCHANGED <<window, served>> /\ gate = NoGate
  BY DEF Launch
<1> HIDE DEF g
<1> QED
  BY <1>1, <1>2, GateAssumption DEF GateTypeOK, GateOK, Timely, Phases

LEMMA RunOK ==
    ASSUME MainOK, NEW kind \in {"pr", "main", "manual"}, NEW p \in PRs \cup {0},
           NEW sha \in Shas, NEW ver \in Versions, NEW base \in Baseline,
           NEW calib \in BOOLEAN, NEW tag \in Versions
    PROVE  LET n == Run(kind, p, sha, ver, base, calib, tag)
           IN  /\ n \in NightRun /\ n.st = "gate" /\ n.kind = kind /\ n.pr = p
               /\ n.calib = calib /\ n.ix \in 1 .. Len(main)
<1>1. Len(main) \in 1 .. Len(main) /\ Len(main) \in Nat
  BY TipIs
<1> QED
  BY <1>1 DEF Run, NightRun, Servers

LEMMA PlanKept ==
    ASSUME IInv, UNCHANGED repoVars
    PROVE  MainOK' /\ PrOK' /\ BuildsOK' /\ QueueOK'
<1> USE DEF IInv
<1>1. Grows /\ UNCHANGED <<main, pr, builds, docker, queue>>
  BY SameGrows DEF repoVars
<1> QED
  BY <1>1, PrKept, QueueKept DEF Grows, BuildsOK, PrOK

LEMMA PlanPrOK == ASSUME IInv, NEW p \in PRs, PlanPr(p) PROVE IInv'
<1> USE DEF IInv
<1>1. PICK wanted \in Modes, time \in BOOLEAN :
        LET mode  == Mode(wanted, time, pr[p].base)
            calib == Calibrates(pr[p].base, mode)
        IN  /\ Launch(mode, IF calib THEN "always" ELSE "pass", pr[p].base)
            /\ night' = Run("pr", p, PrSha(p), PrVersion(p), pr[p].base, calib,
                            IF calib THEN Tip.ver ELSE PrVersion(p))
  BY DEF PlanPr
<1> DEFINE mode  == Mode(wanted, time, pr[p].base)
           calib == Calibrates(pr[p].base, mode)
           tag == IF calib THEN Tip.ver ELSE PrVersion(p)
           record == IF calib THEN "always" ELSE "pass"
<1>2. pr[p].st = "open" /\ UNCHANGED repoVars /\ pr' = pr /\ main' = main
  BY DEF PlanPr, Eligible, Active, repoVars
<1>3. GoodPr(pr[p], main) /\ pr[p].base \in Baseline
  BY GoodPrs DEF GoodPr, PullRequest
<1>4. PrSha(p) \in Shas /\ PrVersion(p) \in Versions
  BY <1>2, <1>3, HeadIs DEF PrSha, PrVersion, GoodPr
<1>5. mode \in Modes /\ calib \in BOOLEAN /\ tag \in Versions /\ record \in {"always", "pass"}
  BY <1>4, TipIs DEF Mode, Modes, Calibrates
<1>6. Launch(mode, record, pr[p].base)
      /\ night' = Run("pr", p, PrSha(p), PrVersion(p), pr[p].base, calib, tag)
  BY <1>1
<1> HIDE DEF mode, calib, tag, record
<1>7. GateTypeOK' /\ GateOK'
  BY <1>3, <1>5, <1>6, LaunchOK
<1>8. /\ night' \in NightRun /\ night'.st = "gate" /\ night'.kind = "pr" /\ night'.pr = p
      /\ night'.ix \in 1 .. Len(main)
  BY <1>3, <1>4, <1>5, <1>6, RunOK
<1>9. NightOK'
  BY <1>2, <1>8 DEF NightOK, Restored
<1> QED
  BY <1>2, <1>7, <1>9, PlanKept

LEMMA PlanMainOK == ASSUME IInv, PlanMain PROVE IInv'
<1> USE DEF IInv
<1>1. PICK wanted \in Modes, time \in BOOLEAN : Launch(Mode(wanted, time, Tip.base), "pass", Tip.base)
  BY DEF PlanMain
<1>2. /\ night' = Run("main", 0, MainSha(Len(main)), Tip.ver, Tip.base, FALSE, Tip.ver)
      /\ UNCHANGED repoVars /\ main' = main
  BY DEF PlanMain, repoVars
<1>3. /\ Mode(wanted, time, Tip.base) \in Modes /\ MainSha(Len(main)) \in Shas
      /\ Tip.ver \in Versions /\ Tip.base \in Baseline
  BY TipIs DEF Mode, Modes, MainSha, Shas
<1>4. GateTypeOK' /\ GateOK'
  BY <1>1, <1>3, LaunchOK
<1> DEFINE no == FALSE
           n == Run("main", 0, MainSha(Len(main)), Tip.ver, Tip.base, no, Tip.ver)
<1>a. n \in NightRun /\ n.st = "gate" /\ n.kind = "main" /\ n.calib = no /\ n.ix \in 1 .. Len(main)
  <2>1. PICK kind \in {"pr", "main", "manual"}, p \in PRs \cup {0}, sha \in Shas,
             ver \in Versions, base \in Baseline, calib \in BOOLEAN :
          /\ kind = "main" /\ p = 0 /\ sha = MainSha(Len(main)) /\ ver = Tip.ver
          /\ base = Tip.base /\ calib = no
    BY <1>3
  <2>2. MainOK
    OBVIOUS
  <2>3. LET u == Run(kind, p, sha, ver, base, calib, ver)
        IN  /\ u \in NightRun /\ u.st = "gate" /\ u.kind = kind /\ u.pr = p
            /\ u.calib = calib /\ u.ix \in 1 .. Len(main)
    BY <2>2, RunOK
  <2>4. n = Run(kind, p, sha, ver, base, calib, ver)
    BY <2>1
  <2> HIDE DEF n
  <2> QED
    BY <2>1, <2>3, <2>4
<1> HIDE DEF n
<1>5. /\ night' \in NightRun /\ night'.st = "gate" /\ night'.kind = "main"
      /\ night'.ix \in 1 .. Len(main) /\ ~night'.calib
  BY <1>2, <1>a DEF n
<1>6. NightOK'
  BY <1>2, <1>5 DEF NightOK, Restored
<1> QED
  BY <1>2, <1>4, <1>6, PlanKept

LEMMA PlanManualOK == ASSUME IInv, PlanManual PROVE IInv'
<1> USE DEF IInv
<1>1. PICK mode \in Modes : Launch(mode, "no", Tip.base)
  BY DEF PlanManual
<1>2. /\ night' = Run("manual", 0, MainSha(Len(main)), Tip.ver, Tip.base, FALSE, Tip.ver)
      /\ UNCHANGED repoVars /\ main' = main
  BY DEF PlanManual, repoVars
<1>3. MainSha(Len(main)) \in Shas /\ Tip.ver \in Versions /\ Tip.base \in Baseline
  BY TipIs DEF MainSha, Shas
<1>4. GateTypeOK' /\ GateOK'
  BY <1>1, <1>3, LaunchOK
<1> DEFINE no == FALSE
           n == Run("manual", 0, MainSha(Len(main)), Tip.ver, Tip.base, no, Tip.ver)
<1>a. n \in NightRun /\ n.st = "gate" /\ n.kind = "manual" /\ n.calib = no /\ n.ix \in 1 .. Len(main)
  <2>1. PICK kind \in {"pr", "main", "manual"}, p \in PRs \cup {0}, sha \in Shas,
             ver \in Versions, base \in Baseline, calib \in BOOLEAN :
          /\ kind = "manual" /\ p = 0 /\ sha = MainSha(Len(main)) /\ ver = Tip.ver
          /\ base = Tip.base /\ calib = no
    BY <1>3
  <2>2. MainOK
    OBVIOUS
  <2>3. LET u == Run(kind, p, sha, ver, base, calib, ver)
        IN  /\ u \in NightRun /\ u.st = "gate" /\ u.kind = kind /\ u.pr = p
            /\ u.calib = calib /\ u.ix \in 1 .. Len(main)
    BY <2>2, RunOK
  <2>4. n = Run(kind, p, sha, ver, base, calib, ver)
    BY <2>1
  <2> HIDE DEF n
  <2> QED
    BY <2>1, <2>3, <2>4
<1> HIDE DEF n
<1>5. /\ night' \in NightRun /\ night'.st = "gate" /\ night'.kind = "manual"
      /\ night'.ix \in 1 .. Len(main) /\ ~night'.calib
  BY <1>2, <1>a DEF n
<1>6. NightOK'
  BY <1>2, <1>5 DEF NightOK, Restored
<1> QED
  BY <1>2, <1>4, <1>6, PlanKept

LEMMA GateRunsOK == ASSUME IInv, GateRuns PROVE IInv'
<1> USE DEF IInv
<1> DEFINE img == IF night = Idle THEN Nothing ELSE docker[night.tag]
<1>1. img \in Image \cup {Nothing}
  BY DEF NightOK, NightRun, BuildsOK
<1>2. GateStep(img) /\ UNCHANGED <<repoVars, night>> /\ UNCHANGED <<main, pr>>
  BY DEF GateRuns, repoVars
<1> HIDE DEF img
<1>3. GateTypeOK' /\ GateOK' /\ (gate = NoGate <=> gate' = NoGate)
  BY <1>1, <1>2, GateStepOK
<1>4. ~((night.st = "judged" /\ night.verdict = "pass") \/ night.st \in {"green", "pushed"})
  <2>1. gate # NoGate \/ window = "lent"
    BY DEF GateRuns
  <2>2. gate # NoGate => night.st = "gate"
    BY DEF NightOK
  <2>3. night.st \in {"judged", "green", "pushed"} => night \in NightRun
    BY DEF NightOK, Idle
  <2> QED
    BY <2>1, <2>2, <2>3 DEF NightOK, Restored
<1>5. NightOK'
  BY <1>2, <1>3, <1>4 DEF NightOK, Restored
<1> QED
  BY <1>2, <1>3, <1>5, PlanKept

LEMMA JudgeOK == ASSUME IInv, Judge PROVE IInv'
<1> USE DEF IInv
<1>1. gate \in GateRun /\ night \in NightRun /\ night.st = "gate"
  BY DEF Judge, GateTypeOK, NoGate, NightOK
<1>2. /\ gate' = NoGate /\ UNCHANGED <<window, served, now, repoVars>> /\ UNCHANGED <<main, pr>>
      /\ night' = [night EXCEPT
                     !.st = "judged",
                     !.verdict = IF ~gate.acquired THEN "infra" ELSE Verdict(gate),
                     !.mode = gate.mode, !.saw = gate.by["bench"], !.base = Recorded(gate),
                     !.ok = served # Nothing]
  BY DEF Judge, repoVars
<1>3. /\ Recorded(gate) \in Baseline /\ gate.mode \in Modes /\ gate.by["bench"] \in Servers
      /\ (IF ~gate.acquired THEN "infra" ELSE Verdict(gate)) \in {"infra", "pass", "fail"}
  <2>1. gate.mode \in Modes /\ gate.by \in [Requests -> Servers] /\ "bench" \in Requests
    BY <1>1 DEF GateRun, Requests
  <2>2. Recorded(gate) \in Baseline
    BY <1>1, RecordedOK
  <2>3. (IF ~gate.acquired THEN "infra" ELSE Verdict(gate)) \in {"infra", "pass", "fail"}
    BY DEF Verdict
  <2> QED
    BY <2>1, <2>2, <2>3
<1>4. /\ night' \in NightRun /\ night'.st = "judged" /\ night'.kind = night.kind
      /\ night'.pr = night.pr /\ night'.calib = night.calib /\ night'.ix = night.ix
      /\ night'.verdict = IF ~gate.acquired THEN "infra" ELSE Verdict(gate)
  <2>1. /\ night'.st = "judged" /\ night'.kind = night.kind /\ night'.pr = night.pr
        /\ night'.sha = night.sha /\ night'.ver = night.ver /\ night'.ix = night.ix
        /\ night'.calib = night.calib /\ night'.tag = night.tag
        /\ night'.verdict = IF ~gate.acquired THEN "infra" ELSE Verdict(gate)
    BY <1>1, <1>2 DEF NightRun
  <2>2. night' = [st |-> "judged", kind |-> night.kind, pr |-> night.pr, sha |-> night.sha,
                  ver |-> night.ver, ix |-> night.ix, calib |-> night.calib, tag |-> night.tag,
                  base |-> Recorded(gate), mode |-> gate.mode,
                  verdict |-> IF ~gate.acquired THEN "infra" ELSE Verdict(gate),
                  saw |-> gate.by["bench"], ok |-> served # Nothing]
    BY <1>1, <1>2 DEF NightRun
  <2>3. night' \in NightRun
    BY <1>1, <1>3, <2>2 DEF NightRun
  <2> QED
    BY <2>1, <2>3
<1>5. night'.verdict = "pass" => window' = "free" /\ served' = Production
  <2> SUFFICES ASSUME night'.verdict = "pass"
               PROVE  window = "free" /\ served = Production
    BY <1>2
  <2>1. Verdict(gate) = "pass"
    BY <1>4
  <2>2. gate.restored /\ gate.at = "report" /\ gate # NoGate
    BY <1>1, <2>1, PassIs, OffIsNone DEF Judge
  <2> QED
    BY <2>2 DEF GateOK
<1>6. NightOK'
  BY <1>1, <1>2, <1>4, <1>5 DEF NightOK, Restored
<1>7. GateTypeOK' /\ GateOK'
  BY <1>2 DEF GateTypeOK, GateOK
<1> QED
  BY <1>2, <1>6, <1>7, PlanKept

-----------------------------------------------------------------------------
(* The jobs after the gate.                                                *)

LEMMA NoGateAfter == ASSUME NightOK, night.st # "gate" PROVE gate = NoGate
  BY DEF NightOK

LEMMA RunIsNight == ASSUME NightOK, night.st # "idle" PROVE night \in NightRun
  BY DEF NightOK, Idle

(* A job that leaves the repository alone.                                 *)
LEMMA QuietJob ==
    ASSUME IInv, night.st # "gate", UNCHANGED <<gateVars, main, pr, builds, docker>>, QueueOK',
           \/ night' = Idle
           \/ night' \in NightRun /\ night \in NightRun /\ night'.pr = night.pr
              /\ night'.kind = night.kind /\ night'.calib = night.calib /\ night'.ix = night.ix
              /\ (night'.st \in {"green", "pushed"} =>
                    \/ night.st \in {"green", "pushed"}
                    \/ night.kind = "pr" /\ night.st = "judged" /\ night.verdict = "pass")
              /\ night'.st # "judged"
    PROVE  IInv'
<1> USE DEF IInv
<1>1. gate' = NoGate /\ gate = NoGate /\ Grows
  BY NoGateAfter, SameGrows DEF gateVars
<1>2. GateTypeOK' /\ GateOK'
  BY GateKept
<1>3. MainOK' /\ PrOK' /\ BuildsOK'
  BY <1>1, PrKept DEF Grows, BuildsOK, PrOK
<1>4. CASE night' = Idle
  BY <1>1, <1>2, <1>3, <1>4, NightEnds
<1>5. CASE night' # Idle
  <2>1. night'.st \in {"green", "pushed"} => window' = "free" /\ served' = Production
    BY <1>5 DEF NightOK, Restored, gateVars
  <2>2. NightOK'
    BY <1>1, <1>5, <2>1 DEF NightOK, Restored
  <2> QED
    BY <1>2, <1>3, <2>2
<1> QED
  BY <1>4, <1>5

LEMMA GreenStartsOK == ASSUME IInv, GreenStarts PROVE IInv'
<1>1. /\ night.st = "judged" /\ night.kind = "pr" /\ night.verdict = "pass"
      /\ UNCHANGED <<gateVars, main, pr, builds, docker, queue>>
      /\ night' = Idle \/ night' = [night EXCEPT !.st = "green"]
  BY DEF GreenStarts, repoVars
<1>2. night \in NightRun
  BY <1>1, RunIsNight DEF IInv
<1>3. QueueOK'
  BY <1>1, QueueKept, SameGrows DEF IInv
<1>4. night' = [night EXCEPT !.st = "green"] =>
        /\ night' \in NightRun /\ night'.pr = night.pr /\ night'.kind = night.kind
        /\ night'.calib = night.calib /\ night'.ix = night.ix /\ night'.st = "green"
  BY <1>2 DEF NightRun
<1> QED
  BY <1>1, <1>2, <1>3, <1>4, QuietJob

LEMMA GreenGivesUpOK == ASSUME IInv, GreenGivesUp PROVE IInv'
<1>1. night.st = "pushed" /\ UNCHANGED <<gateVars, main, pr, builds, docker, queue>> /\ night' = Idle
  BY DEF GreenGivesUp, repoVars
<1>2. QueueOK'
  BY <1>1, QueueKept, SameGrows DEF IInv
<1> QED
  BY <1>1, <1>2, QuietJob

LEMMA RedOK == ASSUME IInv, Red PROVE IInv'
<1>1. night.st = "judged" /\ UNCHANGED <<gateVars, main, pr, builds, docker, queue>> /\ night' = Idle
  BY DEF Red
<1>2. QueueOK'
  BY <1>1, QueueKept, SameGrows DEF IInv
<1> QED
  BY <1>1, <1>2, QuietJob

LEMMA DispatchOK ==
    ASSUME QueueOK, MainOK, main' = main, NEW r \in Release1, r.ix \in 1 .. Len(main), Dispatch(r)
    PROVE  QueueOK'
<1>1. CASE Len(queue) < 2
  BY <1>1 DEF Dispatch, QueueOK
<1>2. CASE ~(Len(queue) < 2)
  <2>1. Len(queue) \in Nat /\ 1 \in 1 .. Len(queue)
    BY <1>2 DEF QueueOK
  <2>2. queue[1] \in Release1 /\ queue[1].ix \in 1 .. Len(main)
    BY <2>1 DEF QueueOK
  <2>3. queue' = <<queue[1], r>>
    BY <1>2 DEF Dispatch
  <2> QED
    BY <2>2, <2>3 DEF QueueOK
<1> QED
  BY <1>1, <1>2

LEMMA DispatchReleaseOK == ASSUME IInv, DispatchRelease PROVE IInv'
<1> DEFINE r == [ver |-> night.ver, ix |-> night.ix, kind |-> night.kind, saw |-> night.saw]
<1>1. /\ night.st = "merged" /\ Dispatch(r) /\ night' = Idle
      /\ UNCHANGED <<gateVars, main, pr, builds, docker>>
  BY DEF DispatchRelease
<1>2. night \in NightRun /\ night.ix \in 1 .. Len(main)
  BY <1>1, RunIsNight DEF IInv, NightOK
<1>3. r \in Release1 /\ r.ix \in 1 .. Len(main)
  BY <1>2 DEF NightRun, Release1
<1> HIDE DEF r
<1>4. QueueOK'
  BY <1>1, <1>3, DispatchOK DEF IInv
<1> QED
  BY <1>1, <1>4, QuietJob

LEMMA HandReleaseOK == ASSUME IInv, HandRelease PROVE IInv'
<1> USE DEF IInv
<1> DEFINE r == [ver |-> Tip.ver, ix |-> Len(main), kind |-> "manual", saw |-> Nothing]
<1>1. Dispatch(r) /\ UNCHANGED <<gateVars, main, pr, builds, docker, night>> /\ Grows
  BY SameGrows DEF HandRelease
<1>2. r \in Release1 /\ r.ix \in 1 .. Len(main)
  BY TipIs DEF Release1, Servers
<1> HIDE DEF r
<1>3. QueueOK'
  BY <1>1, <1>2, DispatchOK
<1>4. GateTypeOK' /\ GateOK'
  BY <1>1, GateKept
<1> QED
  BY <1>1, <1>3, <1>4, PrKept, NightKept DEF Grows, BuildsOK, PrOK, gateVars

LEMMA TagOK ==
    ASSUME MainOK, builds \in Seq(ABuild), NEW r, r.ver \in Versions, r.ix \in 1 .. Len(main), Tag(r)
    PROVE  builds' \in Seq(ABuild)
<1>1. CASE UNCHANGED builds
  BY <1>1
<1>2. CASE Enqueue([sha |-> MainSha(r.ix), tag |-> TRUE, img |-> main[r.ix].img, ver |-> r.ver])
  <2> DEFINE b == [sha |-> MainSha(r.ix), tag |-> TRUE, img |-> main[r.ix].img, ver |-> r.ver]
  <2>1. main[r.ix].img \in Image
    BY CommitAt
  <2>2. MainSha(r.ix) \in Shas
    BY DEF MainSha, Shas
  <2>3. b \in ABuild
    BY <2>1, <2>2 DEF ABuild
  <2> QED
    BY <1>2, <2>3, EnqueueOK
<1> QED
  BY <1>1, <1>2 DEF Tag

LEMMA ReleaseRunsOK == ASSUME IInv, ReleaseRuns PROVE IInv'
<1> USE DEF IInv
<1>1. /\ queue # << >> /\ Tag(Head(queue)) /\ queue' = Tail(queue)
      /\ UNCHANGED <<gateVars, main, pr, docker, night>> /\ Grows
  BY SameGrows DEF ReleaseRuns
<1>2. Head(queue) = queue[1] /\ queue[1] \in Release1 /\ queue[1].ix \in 1 .. Len(main)
  BY <1>1 DEF QueueOK
<1>3. builds' \in Seq(ABuild)
  BY <1>1, <1>2, TagOK DEF Release1, BuildsOK
<1>4. QueueOK'
  BY <1>1 DEF QueueOK
<1>5. GateTypeOK' /\ GateOK'
  BY <1>1, GateKept
<1> QED
  BY <1>1, <1>3, <1>4, <1>5, PrKept, NightKept DEF Grows, BuildsOK, PrOK, gateVars

LEMMA ManualEndsOK == ASSUME IInv, ManualEnds PROVE IInv'
<1> USE DEF IInv
<1> DEFINE r == [ver |-> night.ver, ix |-> night.ix, kind |-> "manual", saw |-> night.saw]
<1>1. /\ night.st = "judged" /\ night' = Idle /\ UNCHANGED <<gateVars, main, pr, docker, queue>> /\ Grows
      /\ Tag(r) \/ UNCHANGED builds
  BY SameGrows DEF ManualEnds
<1>2. r.ver \in Versions /\ r.ix \in 1 .. Len(main)
  BY <1>1, RunIsNight DEF NightOK, NightRun
<1> HIDE DEF r
<1>3. builds' \in Seq(ABuild)
  BY <1>1, <1>2, TagOK DEF BuildsOK
<1>4. gate' = NoGate
  BY <1>1, NoGateAfter DEF gateVars
<1>5. GateTypeOK' /\ GateOK'
  BY <1>1, GateKept
<1> QED
  BY <1>1, <1>3, <1>4, <1>5, PrKept, NightEnds, QueueKept DEF Grows, BuildsOK, PrOK

LEMMA JobDiesOK == ASSUME IInv, JobDies PROVE IInv'
<1> USE DEF IInv
<1>1. night' = Idle /\ gate' = NoGate /\ UNCHANGED <<window, served, now, repoVars>>
  BY DEF JobDies, gateVars
<1>2. GateTypeOK' /\ GateOK'
  BY <1>1 DEF GateTypeOK, GateOK
<1> QED
  BY <1>1, <1>2, PlanKept, NightEnds

(* A pull request gets a commit of the pipeline's own.                     *)
LEMMA OwnIs ==
    ASSUME NEW r \in PullRequest, NEW base \in Baseline
    PROVE  LET q == [r EXCEPT !.own = @ + 1, !.base = base]
           IN  q \in PullRequest /\ q.onto = r.onto /\ q.rev = r.rev /\ q.st = r.st
<1> DEFINE n == r.own + 1
           q == [r EXCEPT !.own = n, !.base = base]
<1>1. n \in Nat
  BY DEF PullRequest
<1> HIDE DEF n
<1>2. q \in PullRequest
  BY <1>1 DEF PullRequest
<1>3. q.onto = r.onto /\ q.rev = r.rev /\ q.st = r.st
  BY DEF PullRequest
<1> QED
  BY <1>2, <1>3 DEF n

LEMMA OwnCommit ==
    ASSUME IInv, NEW p \in PRs, pr[p].st # "none", NEW base \in Baseline, main' = main,
           pr' = [pr EXCEPT ![p] = [pr[p] EXCEPT !.own = @ + 1, !.base = base]],
           PrBuild(p, [pr[p] EXCEPT !.own = @ + 1, !.base = base]),
           UNCHANGED <<gateVars, docker, queue>>
    PROVE  /\ GateTypeOK' /\ GateOK'
           /\ MainOK' /\ PrOK' /\ BuildsOK' /\ QueueOK'
           /\ Sha(p, [pr[p] EXCEPT !.own = @ + 1, !.base = base]) \in Shas
           /\ pr'[p].st # "none"
<1> USE DEF IInv
<1> DEFINE q == [pr[p] EXCEPT !.own = @ + 1, !.base = base]
<1>1. pr[p] \in PullRequest /\ GoodPr(pr[p], main)
  BY GoodPrs DEF PrOK
<1>2. /\ q \in PullRequest /\ q.onto = pr[p].onto /\ q.rev = pr[p].rev /\ q.st = pr[p].st
      /\ PrBuild(p, q) /\ pr' = [pr EXCEPT ![p] = q]
  <2>1. q \in PullRequest /\ q.onto = pr[p].onto /\ q.rev = pr[p].rev /\ q.st = pr[p].st
    BY <1>1, OwnIs
  <2>2. PrBuild(p, q) /\ pr' = [pr EXCEPT ![p] = q]
    OBVIOUS
  <2> QED
    BY <2>1, <2>2
<1>3. pr'[p] = q
  BY <1>2 DEF PrOK
<1> HIDE DEF q
<1>4. GoodPr(q, main) /\ GoodPr(q, main') /\ q.st # "none"
  BY <1>1, <1>2 DEF GoodPr
<1>5. builds' \in Seq(ABuild)
  BY <1>2, <1>4, PrBuildOK DEF BuildsOK
<1>6. Sha(p, q) \in Shas
  BY <1>4, HeadIs
<1> QED
  BY <1>2, <1>3, <1>4, <1>5, <1>6, PrStep, SameGrows DEF q

LEMMA PushMeasuredOK == ASSUME IInv, PushMeasured PROVE IInv'
<1> USE DEF IInv
<1>1. night.st = "green" /\ UNCHANGED <<gateVars, main, docker, queue>>
  BY DEF PushMeasured
<1>2. /\ night \in NightRun /\ night.pr \in PRs /\ pr[night.pr].st # "none"
      /\ night.ix \in 1 .. Len(main) /\ gate = NoGate /\ gate' = NoGate
  BY <1>1, RunIsNight, NoGateAfter DEF NightOK, gateVars
<1> DEFINE p == night.pr
           q == [pr[p] EXCEPT !.own = @ + 1, !.base = night.base]
<1>3. CASE night' = Idle /\ UNCHANGED <<pr, builds>>
  <2>1. QueueOK'
    BY <1>1, QueueKept, SameGrows
  <2> QED
    BY <1>1, <1>3, <2>1, QuietJob
<1>4. CASE /\ pr' = [pr EXCEPT ![p] = q] /\ PrBuild(p, q)
           /\ night' = [night EXCEPT !.st = "pushed", !.sha = Sha(p, q)]
  <2>1. night.base \in Baseline
    BY <1>2 DEF NightRun
  <2>2. /\ GateTypeOK' /\ GateOK'
        /\ MainOK' /\ PrOK' /\ BuildsOK' /\ QueueOK'
        /\ Sha(p, q) \in Shas /\ pr'[p].st # "none"
    BY <1>1, <1>2, <1>4, <2>1, OwnCommit
  <2>3. /\ night' \in NightRun /\ night'.st = "pushed" /\ night'.pr = p
        /\ night'.kind = night.kind /\ night'.calib = night.calib /\ night'.ix = night.ix
    BY <1>2, <1>4, <2>2 DEF NightRun
  <2>4. NightOK'
    BY <1>1, <1>2, <2>2, <2>3 DEF NightOK, Restored, gateVars
  <2> QED
    BY <2>2, <2>4
<1> QED
  BY <1>3, <1>4 DEF PushMeasured

(* A merge of the night.                                                   *)
LEMMA NightMerges ==
    ASSUME IInv, night \in NightRun, night.st # "gate", Grows, builds' \in Seq(ABuild),
           UNCHANGED <<gateVars, docker, queue>>,
           pr' = pr \/ \E p \in PRs : pr[p].st = "open" /\ pr' = [pr EXCEPT ![p].st = "merged"],
           NEW ix \in 1 .. Len(main'), ix \in Nat,
           night' = [night EXCEPT !.st = "merged", !.ix = ix]
    PROVE  IInv'
<1> USE DEF IInv
<1>1. gate' = NoGate
  BY NoGateAfter DEF gateVars
<1>2. /\ night' \in NightRun /\ night'.st = "merged" /\ night'.ix = ix
      /\ night'.pr = night.pr /\ night'.kind = night.kind /\ night'.calib = night.calib
  BY DEF NightRun
<1>3. /\ GateTypeOK' /\ GateOK'
      /\ MainOK' /\ PrOK' /\ BuildsOK' /\ QueueOK'
      /\ \A p \in PRs : pr[p].st # "none" => pr'[p].st # "none"
  BY MainStep
<1>4. NightOK'
  BY <1>1, <1>2, <1>3 DEF NightOK, Restored
<1> QED
  BY <1>3, <1>4

LEMMA MergePrOK == ASSUME IInv, MergePr PROVE IInv'
<1> USE DEF IInv
<1>1. /\ night.st = "pushed" /\ pr[night.pr].st = "open" /\ Extend(Merged(night.pr))
      /\ pr' = [pr EXCEPT ![night.pr].st = "merged"] /\ UNCHANGED <<gateVars, docker, queue>>
      /\ night' = [night EXCEPT !.st = "merged", !.ix = Len(main) + 1]
  BY DEF MergePr, Active
<1>2. night \in NightRun /\ night.pr \in PRs
  BY <1>1, RunIsNight DEF NightOK
<1>3. /\ Grows /\ Len(main') = Len(main) + 1 /\ Len(main') \in 1 .. Len(main')
      /\ builds' \in Seq(ABuild)
  BY <1>1, <1>2, MergedIs, ExtendOK DEF BuildsOK
<1>4. Len(main) + 1 \in 1 .. Len(main') /\ Len(main) + 1 \in Nat
  BY <1>3
<1> QED
  BY <1>1, <1>2, <1>3, <1>4, NightMerges

LEMMA GreenMainOK == ASSUME IInv, NEW merged \in BOOLEAN, GreenMain(merged) PROVE IInv'
<1> USE DEF IInv
<1>1. night.st = "judged" /\ UNCHANGED <<gateVars, pr, docker, queue>>
  BY DEF GreenMain
<1>2. night \in NightRun /\ night.base \in Baseline /\ night.ix \in 1 .. Len(main)
  BY <1>1, RunIsNight DEF NightOK, NightRun
<1>3. CASE merged
  <2> DEFINE c == [Tip EXCEPT !.base = night.base]
             ix == IF Tip.img = main[night.ix].img /\ Tip.ver = main[night.ix].ver
                   THEN Len(main) + 1 ELSE night.ix
  <2>1. Extend(c) /\ night' = [night EXCEPT !.st = "merged", !.ix = ix]
    BY <1>3 DEF GreenMain
  <2>2. c \in Commit
    BY <1>2, TipIs DEF Commit
  <2> HIDE DEF c
  <2>3. /\ Grows /\ Len(main') = Len(main) + 1 /\ Len(main') \in 1 .. Len(main')
        /\ builds' \in Seq(ABuild)
    BY <2>1, <2>2, ExtendOK DEF BuildsOK
  <2>4. ix \in 1 .. Len(main') /\ ix \in Nat
    BY <1>2, <2>3 DEF Grows
  <2> HIDE DEF ix
  <2> QED
    BY <1>1, <1>2, <2>1, <2>3, <2>4, NightMerges
<1>4. CASE ~merged
  <2>1. night' = [night EXCEPT !.st = "merged"] /\ UNCHANGED <<main, builds>>
    BY <1>4 DEF GreenMain
  <2>2. night' = [night EXCEPT !.st = "merged", !.ix = night.ix]
    BY <1>2, <2>1 DEF NightRun
  <2>3. Grows /\ builds' \in Seq(ABuild) /\ night.ix \in 1 .. Len(main') /\ night.ix \in Nat
    BY <1>2, <2>1, SameGrows DEF BuildsOK
  <2> QED
    BY <1>1, <1>2, <2>2, <2>3, NightMerges
<1> QED
  BY <1>3, <1>4

LEMMA CalibratedOK == ASSUME IInv, Calibrated PROVE IInv'
<1> USE DEF IInv
<1>1. /\ night.st = "judged" /\ night.calib /\ night' = Idle
      /\ UNCHANGED <<gateVars, main, docker, queue>>
  BY DEF Calibrated
<1>2. /\ night \in NightRun /\ night.pr \in PRs /\ night.base \in Baseline
      /\ gate = NoGate /\ gate' = NoGate
  BY <1>1, RunIsNight, NoGateAfter DEF NightOK, NightRun, gateVars
<1>3. CASE UNCHANGED <<pr, builds>>
  <2>1. QueueOK'
    BY <1>1, QueueKept, SameGrows
  <2> QED
    BY <1>1, <1>3, <2>1, QuietJob
<1> DEFINE p == night.pr
           q == [pr[p] EXCEPT !.own = @ + 1, !.base = night.base]
<1>4. CASE pr[p].st = "open" /\ pr' = [pr EXCEPT ![p] = q] /\ PrBuild(p, q)
  <2>1. /\ GateTypeOK' /\ GateOK'
        /\ MainOK' /\ PrOK' /\ BuildsOK' /\ QueueOK'
    BY <1>1, <1>2, <1>4, OwnCommit
  <2> QED
    BY <1>1, <1>2, <2>1, NightEnds
<1> QED
  BY <1>3, <1>4 DEF Calibrated, Active

LEMMA HandRestoreOK ==
    ASSUME IInv, HandRestore, UNCHANGED <<repoVars, night, outside, history>>
    PROVE  IInv'
<1> USE DEF IInv
<1>1. /\ gate = NoGate /\ gate' = NoGate /\ window = "free" /\ served # Production
      /\ served' = Production /\ UNCHANGED <<window, now>>
      /\ UNCHANGED repoVars /\ night' = night /\ UNCHANGED <<main, pr>>
  BY DEF HandRestore, repoVars
<1>2. GateTypeOK' /\ GateOK'
  BY <1>1 DEF GateTypeOK, GateOK, Servers
<1>3. NightOK'
  BY <1>1 DEF NightOK, Restored
<1> QED
  BY <1>1, <1>2, <1>3, PlanKept

-----------------------------------------------------------------------------
LEMMA NextIInv == ASSUME IInv, [Next]_vars PROVE IInv'
<1>1. CASE UNCHANGED vars
  <2>1. UNCHANGED <<gateVars, repoVars, night>>
    BY <1>1 DEF vars
  <2>2. GateTypeOK' /\ GateOK'
    BY <2>1, GateKept DEF IInv
  <2>3. MainOK' /\ PrOK' /\ BuildsOK' /\ QueueOK'
    BY <2>1, PlanKept
  <2>4. NightOK'
    BY <2>1, NightKept, SameGrows DEF IInv, gateVars, repoVars
  <2> QED
    BY <2>2, <2>3, <2>4 DEF IInv
<1>2. CASE Workflow
  BY <1>2, GateRunsOK, JudgeOK, GreenStartsOK, PushMeasuredOK, MergePrOK, GreenGivesUpOK,
     GreenMainOK, CalibratedOK, RedOK, DispatchReleaseOK, ReleaseRunsOK, ManualEndsOK DEF Workflow
<1>3. CASE World
  BY <1>3, BuildEndsOK, CiGreenOK, PushOK, RebaseOK, HandMergeOK, PlanPrOK, PlanMainOK,
     PlanManualOK, FeatureOK, CutReleaseOK, HandReleaseOK, JobDiesOK,
     HandRestoreOK DEF World
<1> QED
  BY <1>1, <1>2, <1>3 DEF Next

LEMMA SpecIInv == Spec => []IInv
<1>1. Init => IInv
  BY InitIInv
<1>2. IInv /\ [Next]_vars => IInv'
  BY NextIInv
<1> QED
  BY <1>1, <1>2, PTL DEF Spec

(* A run with a deadline that passes took the window, and its candidate    *)
(* answered every phase but the last, and that one too unless the time of  *)
(* the window was over by then; whatever the helper does and is pushed     *)
(* meanwhile, for every deadline that is not after the end of the window.  *)
THEOREM PassMeasuresCandidate == Spec => []PassMeasured
<1>1. ASSUME IInv, Passed, gate.record # "no"
      PROVE  /\ gate.acquired /\ gate.cand \in Image
             /\ \A ph \in Asked(gate) :
                   gate.by[ph] = gate.cand \/ (After(ph, gate.mode) = "release" /\ now = WindowEnd)
  <2>1. gate.at = "report" /\ ~gate.failed /\ ~gate.error
    BY <1>1, PassIs DEF Passed
  <2>2. gate # NoGate
    BY <2>1 DEF NoGate
  <2>3. gate.acquired /\ gate.cand # Nothing /\ Answers(gate, now)
    BY <1>1, <2>1, <2>2 DEF IInv, GateOK, Timely
  <2>4. gate.cand \in Image \cup {Nothing}
    BY <1>1, <2>2 DEF IInv, GateTypeOK, GateRun
  <2> QED
    BY <2>3, <2>4 DEF Answers
<1>2. IInv => PassMeasured
  BY <1>1 DEF PassMeasured
<1> QED
  BY <1>2, SpecIInv, PTL

(* The night merges only with production back at its address, whatever the *)
(* guard, a failed start or release, or a job that died has left there.    *)
THEOREM MergesWithProductionBack == Spec => ProductionBack
<1>1. ASSUME IInv, night.st = "pushed"
      PROVE  served = Production
  <2>1. night \in NightRun
    BY <1>1, RunIsNight DEF IInv
  <2> QED
    BY <1>1, <2>1 DEF IInv, NightOK, Restored
<1>2. IInv => [NightMerge => served = Production]_vars
  BY <1>1 DEF NightMerge
<1> QED
  BY <1>2, SpecIInv, PTL DEF ProductionBack
=============================================================================
