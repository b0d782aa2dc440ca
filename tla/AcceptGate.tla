----------------------------- MODULE AcceptGate -----------------------------
(***************************************************************************)
(* The GPU acceptance gate, ci/accept/accept.py: one run of its main()     *)
(* against the `gpu-window` helper.  There is one GPU.  The helper lends   *)
(* it to a gate for a limited time; `start` stops production and serves    *)
(* the candidate at production's address.  `release`, and the helper's own *)
(* guard at the end of that time, stop the candidate and start production: *)
(* either can fail at it, and a release that comes after the guard is not  *)
(* refused.  The gate talks to the address and does not know who answers.  *)
(*                                                                         *)
(* An image is the set of changes it was built from.  All that is measured *)
(* of it is one number, its throughput, compared with the baseline of the  *)
(* run's mode; 0 stands for a number the baseline does not have.           *)
(***************************************************************************)
EXTENDS Naturals, FiniteSets

CONSTANTS Changes,      \* what images are made of
          Slow,         \* the changes that cost throughput
          Top,          \* the throughput of an image without any of them
          Tol,          \* how much of the baseline a release may lose
          Production,   \* the production server
          Nothing,      \* no server
          Deadline,     \* --deadline: no phase starts from here on
          WindowEnd     \* the helper takes the GPU back

ASSUME GateAssumption ==
    /\ IsFiniteSet(Changes) /\ Slow \subseteq Changes
    /\ Top \in Nat /\ Tol \in Nat /\ Cardinality(Slow) < Top
    /\ Deadline \in Nat /\ WindowEnd \in Nat /\ Deadline <= WindowEnd
    /\ Production # Nothing
    /\ Production \notin SUBSET Changes /\ Nothing \notin SUBSET Changes

VARIABLES gate,      \* the process that runs accept.py
          window,    \* whether the helper has lent the GPU
          served,    \* who answers at the server's address
          now        \* the time in the window

gateVars == <<gate, window, served, now>>

Image == SUBSET Changes
Modes == {"fast", "full"}
Requests == {"smoke", "chat", "bench", "gsm8k"}
Baseline == [Modes -> 0 .. Top]
Throughput(img) == Top - Cardinality(img \cap Slow)

NoGate == [at |-> "off"]
NoAnswer == [ph \in Requests |-> Nothing]

(* The phases in the order main() runs them; only `full` has gsm8k.        *)
After(ph, mode) ==
    CASE ph = "start" -> "logs"
      [] ph = "logs"  -> "smoke"
      [] ph = "smoke" -> "chat"
      [] ph = "chat"  -> "bench"
      [] ph = "bench" -> IF mode = "full" THEN "gsm8k" ELSE "release"
      [] ph = "gsm8k" -> "release"

Phases == {"start", "logs", "smoke", "chat", "bench", "gsm8k"}

(* Mutant: no phase looks at the deadline.                                 *)
BugEnter(g, ph) == [g EXCEPT !.at = ph]

(* before(phase): a phase that would start after the deadline raises; one  *)
(* that has started takes as long as it takes.  The log check and the      *)
(* release are not guarded, and a gate by hand has no deadline.            *)
Enter(g, ph) ==
    IF g.record # "no" /\ now >= Deadline /\ ph \notin {"logs", "release"}
    THEN [g EXCEPT !.at = "release", !.error = TRUE]
    ELSE [g EXCEPT !.at = ph]

Onward(g) == Enter(g, After(g.at, g.mode))

GateInit ==
    /\ gate = NoGate
    /\ window = "free"
    /\ served = Production
    /\ now = 0

Open(mode, record, baseline) ==
    [at |-> "acquire", mode |-> mode, record |-> record, base |-> baseline,
     acquired |-> FALSE, failed |-> FALSE, error |-> FALSE, restored |-> FALSE,
     cand |-> Nothing, by |-> NoAnswer]

(* A run starts.  The last window has ended by then.                       *)
Launch(mode, record, baseline) ==
    /\ gate = NoGate
    /\ window = "free"
    /\ gate' = Open(mode, record, baseline)
    /\ now' = 0
    /\ UNCHANGED <<window, served>>

-----------------------------------------------------------------------------
(* _acquire_with_retry: a refusal is tried again until the patience is     *)
(* over; then main() skips to its `finally`, which has nothing to give     *)
(* back.                                                                   *)
Acquire ==
    /\ gate.at = "acquire"
    /\ window = "free"
    /\ window' = "lent"
    /\ gate' = Enter([gate EXCEPT !.acquired = TRUE], "start")
    /\ UNCHANGED <<served, now>>

(* The window was not taken, or it was and the answer was lost (a time-out *)
(* or an answer that is no JSON): `held` is still false and nobody will    *)
(* release it.                                                             *)
AcquireFails ==
    /\ gate.at = "acquire"
    /\ gate' = [gate EXCEPT !.at = "report", !.error = TRUE]
    /\ window' \in {window, "lent"}
    /\ UNCHANGED <<served, now>>

(* win.start: the helper stops production and starts the image the tag     *)
(* names by now.                                                           *)
StartCandidate(img) ==
    /\ gate.at = "start"
    /\ served' = img
    /\ gate' = Onward([gate EXCEPT !.cand = img])
    /\ UNCHANGED <<window, now>>

(* A phase that raises.  A start that raises may have stopped production   *)
(* by then, or have brought the candidate up and lost the answer.          *)
Raise(img) ==
    /\ gate.at \in Phases
    /\ gate' = [gate EXCEPT !.at = "release", !.error = TRUE]
    /\ served' \in IF gate.at = "start" THEN {served, Nothing, img} ELSE {served}
    /\ UNCHANGED <<window, now>>

(* Who is at the address when a phase ends has answered it.                *)
Answered(g) == [g EXCEPT !.by[g.at] = served]

(* The log check asks the helper.  In the smoke requests and the chat      *)
(* replay a bad answer is noted and the run goes on; with no server every  *)
(* request fails.                                                          *)
Logs(ok) ==
    /\ gate.at = "logs"
    /\ gate' = Onward([gate EXCEPT !.failed = @ \/ ~ok])
    /\ UNCHANGED <<window, served, now>>

Check(ok) ==
    /\ gate.at \in {"smoke", "chat"}
    /\ ok => served # Nothing
    /\ gate' = Onward([Answered(gate) EXCEPT !.failed = @ \/ ~ok])
    /\ UNCHANGED <<window, served, now>>

(* BetterBench and, in full mode, GSM8K measure whoever answers.           *)
Measure ==
    /\ gate.at \in {"bench", "gsm8k"}
    /\ served # Nothing
    /\ gate' = Onward(Answered(gate))
    /\ UNCHANGED <<window, served, now>>

(* The `finally` of main(): the window goes back whatever happened.  A     *)
(* release answers with production's health; one that fails, or whose      *)
(* answer is lost, leaves the candidate, nothing or production at the      *)
(* address.                                                                *)
Release(ok) ==
    /\ gate.at = "release"
    /\ window' \in IF ok THEN {"free"} ELSE {window, "free"}
    /\ served' \in IF ok THEN {Production} ELSE {served, Nothing, Production}
    /\ gate' = [gate EXCEPT !.at = "report", !.restored = ok]
    /\ UNCHANGED now

-----------------------------------------------------------------------------
(* What the run measured.  Production carries no change that is still to   *)
(* be released: if it answered, it answered with full throughput.          *)
Tps(g) == LET saw == g.by["bench"]
          IN  IF saw \in Image THEN Throughput(saw)
              ELSE IF saw = Production THEN Top ELSE 0

(* compare(): a number the baseline does not have is not a check.          *)
Compared(g) ==
    \/ g.base[g.mode] = 0
    \/ Tps(g) + Tol >= g.base[g.mode]

(* Mutant: the health check after the gate is taken for the release's.     *)
BugUnrestored(g) ==
    IF ~g.failed /\ ~g.error /\ Compared(g) THEN "pass" ELSE "fail"

Verdict(g) ==
    IF ~g.failed /\ ~g.error /\ g.restored /\ Compared(g) THEN "pass" ELSE "fail"

(* The baseline file after the run: `always` is --record-baseline, `pass`  *)
(* --record-baseline-on-pass.                                              *)
Recorded(g) ==
    IF /\ ~g.error
       /\ g.record = "always" \/ (g.record = "pass" /\ Verdict(g) = "pass")
    THEN [g.base EXCEPT ![g.mode] = Tps(g)]
    ELSE g.base

-----------------------------------------------------------------------------
(* The guard releases a window past its time, and may not get production   *)
(* up.                                                                     *)
Expire ==
    /\ window = "lent"
    /\ now = WindowEnd
    /\ window' = "free"
    /\ served' \in {Production, Nothing}
    /\ UNCHANGED <<gate, now>>

Tick ==
    /\ now < WindowEnd
    /\ gate # NoGate \/ window = "lent"
    /\ now' = now + 1
    /\ UNCHANGED <<gate, window, served>>

(* Production is down and nobody holds the window: a human restores it.    *)
HandRestore ==
    /\ window = "free" /\ gate = NoGate
    /\ served # Production
    /\ served' = Production
    /\ UNCHANGED <<gate, window, now>>

(* main() from the acquisition to the report.                              *)
GateStep(img) ==
    \/ Acquire
    \/ AcquireFails
    \/ StartCandidate(img)
    \/ Raise(img)
    \/ \E ok \in BOOLEAN : Logs(ok) \/ Check(ok)
    \/ Measure
    \/ \E ok \in BOOLEAN : Release(ok)
    \/ Expire
    \/ Tick

Passed == gate.at = "report" /\ Verdict(gate) = "pass"

(* The phases of a run that send requests, in its mode.                    *)
Asked(g) == IF g.mode = "full" THEN Requests ELSE Requests \ {"gsm8k"}

(* What the deadline guarantees.  A run with one that passes took the      *)
(* window, and its candidate answered every phase that another phase       *)
(* follows, over resets of the address by the guard, a lost start and      *)
(* phases that outlast the window.  Only the last one, for which no check  *)
(* of the time is left, can have been answered by somebody else, and only  *)
(* once the time the window was lent for is over.                          *)
PassMeasured ==
    Passed /\ gate.record # "no"
        => /\ gate.acquired /\ gate.cand \in Image
           /\ \A ph \in Asked(gate) :
                 \/ gate.by[ph] = gate.cand
                 \/ After(ph, gate.mode) = "release" /\ now = WindowEnd
=============================================================================
