------------------------------ MODULE LazyGdn ------------------------------
(***************************************************************************)
(* Lazy snapshots of the recurrent state (RADIANCE_GDN_LAZY=1): the update *)
(* and materialise kernels of libr4d, the hooks that call them, and vLLM's *)
(* "align" mode around them, with the retirement of state blocks that the  *)
(* repository patches into it.  Steps are scheduled one ahead of the GPU.  *)
(*                                                                         *)
(* A request owns a running block, which holds one state (the base), and a *)
(* stash block, which holds the inputs of the last step's drafts.  How     *)
(* many drafts were right is known after the step, and the next kernel     *)
(* that needs the state replays that many from the stash.                  *)
(*                                                                         *)
(* All requests read one token stream, so they share prefixes.  A state is *)
(* the number of tokens of the stream it has been through, or Wrong.       *)
(* Columns of a block table are counted from 1; 0 is no column.            *)
(***************************************************************************)
EXTENDS Integers, Sequences, FiniteSets, Functions

CONSTANTS Requests,
          Slots,        \* physical blocks of the state cache
          Null,         \* the null block
          BlockSize,    \* tokens in a block
          Drafts,       \* draft tokens in a decode step
          Prompts,      \* lengths a prompt may have
          MaxLen,       \* bound on a request's tokens
          MaxTurns      \* bound on the requests that arrive

ASSUME LazyAssumption ==
    /\ BlockSize \in Nat /\ Drafts \in Nat /\ Drafts < BlockSize
    /\ MaxLen \in Nat /\ Prompts \subseteq 1 .. MaxLen /\ MaxTurns \in Nat
    /\ Null \notin Slots

VARIABLES slot,       \* what each block holds
          cached,     \* vLLM's prefix cache: the block of a boundary
          bt,         \* the scheduler's block table of each request
          begun,      \* requests whose own blocks have been allocated
          prompt,     \* the prompt's length, 0: not here
          known,      \* its tokens once the steps in flight have run
          flight,     \* the tokens of those steps
          retired,    \* _num_retired_blocks
          computed,   \* the worker's count of its tokens
          nacc,       \* accepted tokens of its last step
          col,        \* the column of its running block, 0: none yet
          queue,      \* steps scheduled and not run
          done,       \* steps run and not known to the scheduler
          turns

schedVars == <<cached, bt, begun, prompt, known, flight, retired, turns>>
workVars == <<slot, computed, nacc, col>>
vars == <<schedVars, workVars, queue, done>>

Wrong == -1
State(n) == [kind |-> "state", n |-> n]
Stash(base, at, good) == [kind |-> "stash", base |-> base, at |-> at, good |-> good]
ZeroHeader == Stash(Null, 0, 0)

(* The column a token is in.                                               *)
Column(n) == (n + BlockSize - 1) \div BlockSize

-----------------------------------------------------------------------------
(* The kernels, on the contents s of the blocks and a row t of the block   *)
(* table.                                                                  *)

(* What a block holds when it is read as a state.                          *)
Base(s, b) == IF s[b].kind = "state" THEN s[b].n ELSE Wrong

(* The base and `count` drafts of the stash, if the stash is of that base; *)
(* a replayed draft that was not right makes the state wrong.              *)
Replayed(s, base, stash, count) ==
    IF count = 0 \/ stash = Null THEN Base(s, base)
    ELSE IF s[stash].kind # "stash" THEN Base(s, base)
    ELSE IF s[stash].base # base THEN Base(s, base)
    ELSE IF Base(s, base) = s[stash].at /\ count <= s[stash].good
         THEN Base(s, base) + count
         ELSE Wrong

Written(s, b, x) == [s EXCEPT ![b] = x]
Invalidated(s, b) == IF b = Null THEN s ELSE Written(s, b, ZeroHeader)

(* Mutant: without a stash block there is nothing to do (before rx17).     *)
BugMigrate(s, t, src, dst, bias) ==
    IF src \in {0, dst} THEN s
    ELSE IF Null \in {t[src], t[dst], t[src + 1]} THEN s
    ELSE Invalidated(Written(s, t[dst],
                             State(Replayed(s, t[src], t[src + 1], bias))),
                     t[dst + 1])

(* materialize mode 0, before the step, when the running block moves.      *)
Migrate(s, t, src, dst, bias) ==
    IF src \in {0, dst} THEN s
    ELSE IF Null \in {t[src], t[dst]} \/ (bias > 0 /\ t[src + 1] = Null) THEN s
    ELSE Invalidated(Written(s, t[dst],
                             State(Replayed(s, t[src], t[src + 1], bias))),
                     t[dst + 1])

(* The update kernel, at n tokens: replay, one candidate that is always    *)
(* accepted, then the drafts, of which the first `good` are right.         *)
Update(s, t, c, n, accepted, good) ==
    LET from == Replayed(s, t[c], t[c + 1], accepted - 1)
    IN  IF Null \in {t[c], t[c + 1]} THEN s
        ELSE [s EXCEPT ![t[c]] = State(IF from = n THEN n + 1 ELSE Wrong),
                       ![t[c + 1]] = Stash(t[c], n + 1, good)]

(* A prefill from n to m tokens; the rows of a prefill have their stash    *)
(* invalidated.                                                            *)
Prefill(s, t, c, n, m) ==
    LET from == IF n = 0 THEN 0 ELSE Base(s, t[c])
    IN  [s EXCEPT ![t[c]] = State(IF from = n THEN m ELSE Wrong),
                  ![t[c + 1]] = ZeroHeader]

Aligned(m) == m - (m % BlockSize)

(* The accepted tokens, up to m, have crossed a boundary.                  *)
Crossed(m, accepted) == Aligned(m) >= m - accepted + 1

(* Mutant: made after vLLM's own kernel, which resets the accepted count   *)
(* when the boundary is the running block's.                               *)
BugCheckpoint(s, t, c, m, accepted) ==
    LET dst   == Aligned(m) \div BlockSize
        count == Aligned(m) - (m - accepted + 1)
    IN  IF \/ ~Crossed(m, accepted) \/ dst = c \/ Null \in {t[c], t[dst]}
           \/ t[c + 1] = Null /\ count > 0
        THEN s
        ELSE Written(s, t[dst], State(Replayed(s, t[c], t[c + 1], count)))

(* materialize mode 1, after the step: the state at the boundary.          *)
Checkpoint(s, t, c, m, accepted) ==
    LET dst   == Aligned(m) \div BlockSize
        count == Aligned(m) - (m - accepted + 1)
    IN  IF \/ ~Crossed(m, accepted) \/ (dst = c /\ count = 0)
           \/ Null \in {t[c], t[dst]} \/ (t[c + 1] = Null /\ count > 0)
        THEN s
        ELSE Written(s, t[dst], State(Replayed(s, t[c], t[c + 1], count)))

-----------------------------------------------------------------------------
(* vLLM's scheduler.                                                       *)
Here(r) == prompt[r] > 0
Held(r) == Range(bt[r]) \ {Null}
Committed(r) == known[r] - flight[r]
InFlight(r) == \E e \in Range(queue) \cup Range(done) : e.req = r

Init ==
    /\ slot = [s \in Slots |-> State(Wrong)]
    /\ cached = [p \in 1 .. MaxLen |-> Null]
    /\ bt = [r \in Requests |-> << >>]
    /\ begun = {}
    /\ prompt = [r \in Requests |-> 0]
    /\ known = [r \in Requests |-> 0]
    /\ flight = [r \in Requests |-> 0]
    /\ retired = [r \in Requests |-> 0]
    /\ computed = [r \in Requests |-> 0]
    /\ nacc = [r \in Requests |-> 1]
    /\ col = [r \in Requests |-> 0]
    /\ queue = << >>
    /\ done = << >>
    /\ turns = 0

(* A request arrives, or comes back after a preemption or for its next     *)
(* turn, and finds a prefix: only the last block of it is kept.            *)
Arrive(r, p, hit) ==
    /\ ~Here(r) /\ ~InFlight(r) /\ turns < MaxTurns
    /\ turns' = turns + 1
    /\ IF hit = 0 THEN TRUE ELSE hit < p /\ cached[hit] # Null
    /\ prompt' = [prompt EXCEPT ![r] = p]
    /\ bt' = [bt EXCEPT ![r] = [i \in 1 .. Column(hit) |->
                                   IF i = Column(hit) THEN cached[hit] ELSE Null]]
    /\ known' = [known EXCEPT ![r] = hit]
    /\ flight' = [flight EXCEPT ![r] = 0]
    /\ computed' = [computed EXCEPT ![r] = hit]
    /\ nacc' = [nacc EXCEPT ![r] = 1]
    /\ col' = [col EXCEPT ![r] = Column(hit)]
    /\ UNCHANGED <<slot, cached, begun, retired, queue, done>>

(* Blocks whose states come before that of the last committed token.       *)
Past(r) ==
    LET k == (Committed(r) - 1) \div BlockSize
    IN  1 .. (IF k < Len(bt[r]) THEN k ELSE Len(bt[r]))

(* Mutant: the scan goes down and stops at a null block, as the stock one  *)
(* does.                                                                   *)
BugRetire(r) ==
    [i \in 1 .. Len(bt[r]) |->
        IF /\ i \in Past(r) /\ i > retired[r]
           /\ \A j \in Past(r) : j > i => bt[r][j] # Null
        THEN Null ELSE bt[r][i]]

(* _remove_blocks_in_range: they are given up, null blocks between them or *)
(* not, but for the prefix already looked at.                              *)
Retire(r) ==
    [i \in 1 .. Len(bt[r]) |->
        IF i \in Past(r) /\ i > retired[r] THEN Null ELSE bt[r][i]]

Retired(r) == IF Cardinality(Past(r)) > retired[r] THEN Cardinality(Past(r))
              ELSE retired[r]

(* MambaManager.allocate_new_blocks: the blocks are those up to the one    *)
(* the step ends in, and the stash.  What the step skips stays null, and   *)
(* the old stash block moves on with the window.                           *)
Window(t, end, mine) ==
    LET skipped == Column(end) - 1
        moves   == mine /\ Len(t) <= skipped
    IN  IF Column(end) + 1 <= Len(t) THEN t
        ELSE [i \in (1 .. Len(t)) \cup (1 .. skipped) |->
                 IF i > Len(t) \/ (moves /\ i = Len(t)) THEN Null ELSE t[i]]
             \o (IF moves THEN <<t[Len(t)]>> ELSE << >>)

(* Blocks the pool can give r: those nobody holds, cached or not.          *)
Free(r) == (Slots \ UNION {Held(q) : q \in Requests \ {r}}) \ Range(Retire(r))

(* Tokens of full blocks that vLLM registers when a step to `end` is       *)
(* scheduled.                                                              *)
Registered(r, end) ==
    LET tokens == IF Committed(r) < prompt[r] THEN prompt[r] ELSE Committed(r) + 1
    IN  IF end < tokens THEN end ELSE tokens

(* A step to `end` is scheduled: a chunk of the prompt, which ends at a    *)
(* boundary or with the prompt, or one token and its drafts.               *)
Schedule(r, end) ==
    /\ Here(r) /\ Len(queue) + Len(done) < 2
    /\ IF known[r] < prompt[r]
       THEN end > known[r] /\ (end = prompt[r] \/ (end < prompt[r] /\ end % BlockSize = 0))
       ELSE end = known[r] + 1 + Drafts
    /\ LET kept == Window(Retire(r), end, r \in begun)
       IN  \E new \in Injection(1 .. Column(end) + 1 - Len(kept), Free(r)) :
             LET t == kept \o new
             IN  /\ bt' = [bt EXCEPT ![r] = t]
                 /\ cached' = [p \in 1 .. MaxLen |->
                       IF cached[p] # Null /\ cached[p] \notin Range(new) THEN cached[p]
                       ELSE IF p % BlockSize = 0 /\ p <= Registered(r, end)
                            THEN t[Column(p)] ELSE Null]
                 /\ queue' = Append(queue, [req |-> r, n |-> end - known[r], t |-> t,
                                            decode |-> known[r] >= prompt[r]])
    /\ begun' = begun \cup {r}
    /\ retired' = [retired EXCEPT ![r] = Retired(r)]
    /\ known' = [known EXCEPT ![r] = end]
    /\ flight' = [flight EXCEPT ![r] = @ + end - known[r]]
    /\ UNCHANGED <<workVars, prompt, done, turns>>

(* The scheduler learns how many of a step's tokens were accepted.         *)
Output ==
    /\ done # << >>
    /\ done' = Tail(done)
    /\ LET e == Head(done)
       IN  IF Here(e.req)
           THEN /\ known' = [known EXCEPT ![e.req] = @ - (e.n - e.accepted)]
                /\ flight' = [flight EXCEPT ![e.req] = @ - e.n]
           ELSE UNCHANGED <<known, flight>>
    /\ UNCHANGED <<workVars, cached, bt, begun, prompt, retired, turns, queue>>

(* Mutant: the retired prefix outlives the request.                        *)
BugLeave(r) ==
    /\ Here(r)
    /\ prompt' = [prompt EXCEPT ![r] = 0]
    /\ bt' = [bt EXCEPT ![r] = << >>]
    /\ begun' = begun \ {r}
    /\ UNCHANGED <<workVars, cached, known, flight, retired, turns, queue, done>>

(* A request ends, is aborted or is preempted: its blocks are free at      *)
(* once, its steps in flight run.                                          *)
Leave(r) ==
    /\ Here(r)
    /\ prompt' = [prompt EXCEPT ![r] = 0]
    /\ bt' = [bt EXCEPT ![r] = << >>]
    /\ begun' = begun \ {r}
    /\ retired' = [retired EXCEPT ![r] = 0]
    /\ UNCHANGED <<workVars, cached, known, flight, turns, queue, done>>

-----------------------------------------------------------------------------
(* The worker.                                                             *)
Running(e) == Column(computed[e.req] + e.n)
Moved(e) == col[e.req] # 0 /\ col[e.req] # Running(e)
Accepted(e) == IF Moved(e) THEN 1 ELSE nacc[e.req]

(* The blocks once the migration before step e has been made.              *)
Migrated(e) == Migrate(slot, e.t, col[e.req], Running(e), nacc[e.req] - 1)

(* The next step runs, and `good` of its drafts turn out to be right.      *)
RunStep(good) ==
    /\ queue # << >>
    /\ LET e   == Head(queue)
           r   == e.req
           c   == Running(e)
           acc == IF e.decode THEN good + 1 ELSE 1
           m   == computed[r] + (IF e.decode THEN acc ELSE e.n)
           run == IF e.decode
                  THEN Update(Migrated(e), e.t, c, computed[r], Accepted(e), good)
                  ELSE Prefill(Migrated(e), e.t, c, computed[r], m)
           own == Crossed(m, acc) /\ Aligned(m) \div BlockSize = c
       IN  /\ e.decode \/ good = 0
           /\ slot' = Checkpoint(run, e.t, c, m, acc)
           /\ computed' = [computed EXCEPT ![r] = m]
           /\ nacc' = [nacc EXCEPT ![r] = IF own THEN 1 ELSE acc]
           /\ col' = [col EXCEPT ![r] = c]
           /\ queue' = Tail(queue)
           /\ done' = Append(done, [req |-> r, n |-> e.n,
                                    accepted |-> IF e.decode THEN acc ELSE e.n])
    /\ UNCHANGED schedVars

Next ==
    \/ \E r \in Requests, p \in Prompts, hit \in 0 .. MaxLen : Arrive(r, p, hit)
    \/ \E r \in Requests, end \in 1 .. MaxLen : Schedule(r, end)
    \/ \E r \in Requests : Leave(r)
    \/ \E good \in 0 .. Drafts : RunStep(good)
    \/ Output

Spec == Init /\ [][Next]_vars

-----------------------------------------------------------------------------
Steps(r) == Cardinality({i \in DOMAIN queue : queue[i].req = r})
            + Cardinality({i \in DOMAIN done : done[i].req = r})

(* The types, that no retired prefix is longer than its block table, and   *)
(* that at most one step is scheduled ahead.                               *)
TypeOK ==
    /\ slot \in [Slots -> [kind : {"state"}, n : 0 .. MaxLen \cup {Wrong}]
                         \cup [kind : {"stash"}, base : Slots \cup {Null},
                               at : 0 .. MaxLen, good : 0 .. Drafts]]
    /\ cached \in [1 .. MaxLen -> Slots \cup {Null}]
    /\ begun \subseteq Requests
    /\ {prompt, known, flight, retired, computed, col}
         \subseteq [Requests -> 0 .. MaxLen]
    /\ \A r \in Requests : bt[r] \in Seq(Slots \cup {Null}) /\ retired[r] <= Len(bt[r])
    /\ nacc \in [Requests -> 1 .. 1 + Drafts]
    /\ Len(queue) + Len(done) <= 2 /\ turns \in 0 .. MaxTurns

(* The state the next step starts from (after the migration, and with the  *)
(* drafts its kernel replays) is the state after exactly the tokens        *)
(* accepted so far: for a decode step, for each chunk of a prompt, and for *)
(* the first step after a prefix hit on a block another request left.      *)
StepsExact ==
    queue # << >> =>
        LET e == Head(queue)
            c == Running(e)
            n == computed[e.req]
        IN  n > 0 =>
              n = IF e.decode
                  THEN Replayed(Migrated(e), e.t[c], e.t[c + 1], Accepted(e) - 1)
                  ELSE Base(Migrated(e), e.t[c])

(* Once the scheduled steps have run, each block in the prefix cache holds *)
(* the state at its boundary, also where the boundary lay between two      *)
(* tokens of one step.                                                     *)
CheckpointsExact ==
    queue = << >> =>
        \A p \in 1 .. MaxLen : cached[p] # Null => slot[cached[p]] = State(p)

(* Scheduling a step leaves a request with no more blocks than the state   *)
(* of its last committed token, one for each step in flight, and a stash:  *)
(* nothing piles up over a long prompt.                                    *)
HoldsFew ==
    [][\A r \in Requests :
          flight'[r] > flight[r] => Cardinality(Held(r)') <= 2 + Steps(r)']_vars

=============================================================================
