---------------------------- MODULE DraftLookup -----------------------------
(***************************************************************************)
(* The prompt-lookup override of the DFlash2 draft,                        *)
(* sly/radiance_lookup_draft.py, for one slot of the runner and the        *)
(* requests that hold it one after the other.  After the drafter's graph   *)
(* has written a draft, a scan looks for the longest earlier occurrence of *)
(* the end of the history, and where it is long enough the tokens that     *)
(* followed it replace the draft; the cached draft distribution, of which  *)
(* the rejection sampler takes q, is rewritten to say so.  That is sparse: *)
(* only the candidates of the step before are known to be set, and only    *)
(* those are cleared.                                                      *)
(***************************************************************************)
EXTENDS Integers, Sequences, FiniteSetsExt

CONSTANTS Tokens,
          TopK,       \* selector_top_k
          K,          \* drafted tokens
          ENTER, STAY, HOT, MINDIST, MAXL,   \* RADIANCE_LOOKUP_*
          PosBase,    \* 2^POS_BITS
          MaxLen,     \* bound on a history
          MaxPrompt   \* bound on a prompt

LookupSettings ==
    /\ {ENTER, STAY, HOT, MAXL, PosBase, MaxLen, MaxPrompt} \subseteq Nat
    /\ 1 <= STAY /\ STAY <= ENTER /\ ENTER <= MAXL /\ HOT >= 1   \* install
    /\ MINDIST \in Nat /\ K \in Nat \ {0} /\ TopK \in Nat \ {0}
    /\ MaxLen < PosBase                                          \* _prepare
    /\ MaxPrompt < MaxLen

VARIABLES ids,        \* tokens of the request that holds the slot, <<>>: none
          prefilling, \* its prompt is not computed yet
          st_len,     \* the history's length at the slot's last step
          st_used,    \* whether that step used the lookup
          tokens,     \* the draft
          support,    \* per drafted place, the tokens whose logit is not -inf
          cached_ids, \* cached_candidate_ids, as sets
          took,       \* whether the lookup wrote the place
          hot,        \* the last step's decision
          mine        \* what the last step of the request itself makes of it

record == <<st_len, st_used>>
draft == <<tokens, support, cached_ids, took>>
lookupVars == <<ids, prefilling, record, draft, hot, mine>>

Places == 1 .. K
Lower(a, b) == IF a < b THEN a ELSE b
Draw == [Places -> Tokens]
Candidates == {[i \in Places |-> C] : C \in {D \in SUBSET Tokens : Cardinality(D) = TopK}}

(* No request, and nothing in the buffers.                                 *)
LookupInit ==
    /\ ids = <<>> /\ prefilling = FALSE
    /\ st_len = -1 /\ st_used = FALSE
    /\ tokens \in Draw
    /\ support = [i \in Places |-> {}]
    /\ cached_ids = [i \in Places |-> {}]
    /\ took = [i \in Places |-> FALSE]
    /\ hot = FALSE /\ mine = FALSE

-----------------------------------------------------------------------------
(* The scan.  A place p of the history s is where a continuation starts.   *)

\* The tokens before p that equal those at the end, going backwards.
MatchLength(s, p) ==
    Max({m \in 0 .. Lower(p, MAXL) :
           \A j \in 1 .. m : s[p - j + 1] = s[Len(s) - j + 1]})

\* Mutant: a source as close as the limit is left out.
BugAlive(s, p) == 1 <= p /\ p < Len(s) /\ p + MINDIST < Len(s)

Alive(s, p) == 1 <= p /\ p < Len(s) /\ p + MINDIST <= Len(s)

\* What a program of _scan_kernel adds to the maximum for p.
Key(s, p) ==
    IF Alive(s, p) /\ MatchLength(s, p) >= Lower(ENTER, STAY)
    THEN MatchLength(s, p) * PosBase + p
    ELSE 0

Best(s) == Max({Key(s, p) : p \in 0 .. Len(s)})

-----------------------------------------------------------------------------
(* A step that sampled ns tokens.                                          *)

\* Mutant: the token that every step yields counts as accepted.
BugHot(ns, length) == st_used /\ st_len + ns = length /\ ns >= HOT

Hot(ns, length) == st_used /\ st_len + ns = length /\ ns - 1 >= HOT

\* Mutant: the candidates of the graph stay in the cache.
BugRecache(c, y) == c

Recache(c, y) == {y}

(* The graph writes a draft d and its candidates; the first clen places    *)
(* become the tokens from p on in history s (_apply_kernel).               *)
Override(s, p, clen) ==
    \E cand \in Candidates : \E d \in {e \in Draw : \A i \in Places : e[i] \in cand[i]} :
      LET drawn == [i \in Places |-> (support[i] \ cached_ids[i]) \cup cand[i]]
          Y(i) == s[p + i]
      IN  /\ took' = [i \in Places |-> i <= clen]
          /\ tokens' = [i \in Places |-> IF i <= clen THEN Y(i) ELSE d[i]]
          /\ support' = [i \in Places |->
                           IF i <= clen THEN (drawn[i] \ (cand[i] \ {Y(i)})) \cup {Y(i)}
                           ELSE drawn[i]]
          /\ cached_ids' = [i \in Places |->
                              IF i <= clen THEN Recache(cand[i], Y(i)) ELSE cand[i]]

(* What is overridden, and the slot's record (_override, _decide).         *)
Propose(s, ns) ==
    \E best \in {Best(s)}, h \in {Hot(ns, Len(s))} :
      LET m == best \div PosBase
          p == best % PosBase
          use == m > 0 /\ m >= (IF h THEN STAY ELSE ENTER)
      IN  /\ hot' = h
          /\ st_len' = Len(s) /\ st_used' = use
          /\ Override(s, p, IF use THEN Lower(Len(s) - p, K) ELSE 0)

(* A request takes the slot.                                               *)
Arrive(s) ==
    /\ ids = <<>>
    /\ ids' = s /\ prefilling' = TRUE
    /\ UNCHANGED <<record, draft, hot, mine>>

(* A part of its prompt is computed: nothing is sampled.                   *)
PrefillChunk ==
    /\ prefilling
    /\ mine' = FALSE
    /\ Propose(ids, 0)
    /\ UNCHANGED <<ids, prefilling>>

(* The rest of it is, and the first token is x.                            *)
First(x) ==
    /\ prefilling
    /\ ids' = Append(ids, x) /\ prefilling' = FALSE
    /\ mine' = FALSE
    /\ Propose(ids', 1)

(* a drafts are accepted, and the target's own token x.                    *)
Verify(a, x) ==
    /\ ids # <<>> /\ ~prefilling
    /\ Len(ids) + a < MaxLen
    /\ ids' = Append(ids \o [i \in 1 .. a |-> tokens[i]], x)
    /\ mine' = (st_used /\ a >= HOT)
    /\ Propose(ids', a + 1)
    /\ UNCHANGED prefilling

(* The request ends, or is preempted.                                      *)
Leave ==
    /\ ids # <<>>
    /\ ids' = <<>> /\ prefilling' = FALSE
    /\ UNCHANGED <<record, draft, hot, mine>>

Prompts == UNION {[1 .. n -> Tokens] : n \in 1 .. MaxPrompt}

LookupNext ==
    \/ \E s \in Prompts : Arrive(s)
    \/ PrefillChunk
    \/ \E x \in Tokens : First(x)
    \/ \E a \in 0 .. K, x \in Tokens : Verify(a, x)
    \/ Leave

LookupSpec == LookupInit /\ [][LookupNext]_lookupVars

LookupTypeOK ==
    /\ ids \in Seq(Tokens) /\ Len(ids) <= MaxLen
    /\ prefilling \in BOOLEAN /\ st_used \in BOOLEAN
    /\ st_len \in -1 .. MaxLen
    /\ tokens \in Draw
    /\ {support, cached_ids} \subseteq [Places -> SUBSET Tokens]
    /\ took \in [Places -> BOOLEAN]
    /\ hot \in BOOLEAN /\ mine \in BOOLEAN

(* ref_best_match: the longest suffix of the history, of at least minl and *)
(* at most MAXL tokens, that ends at an earlier token far enough back; the *)
(* latest of several.  <<0, 0>>: there is none.                            *)
Suffix(s, m) == SubSeq(s, Len(s) - m + 1, Len(s))

Reference(s, minl) ==
    LET far == IF MINDIST > 1 THEN MINDIST ELSE 1
        matches == {q \in (minl .. MAXL) \X (1 .. Len(s) - far) :
                      q[1] <= q[2] /\ SubSeq(s, q[2] - q[1] + 1, q[2]) = Suffix(s, q[1])}
        longest == Max({0} \cup {q[1] : q \in matches})
    IN  IF matches = {} THEN <<0, 0>>
        ELSE <<longest, Max({q[2] : q \in {r \in matches : r[1] = longest}})>>

(* The kernel's packed maximum is the match that the reference looks for,  *)
(* on every history the slot holds.                                        *)
ScanIsBest ==
    LET found == Reference(ids, Lower(ENTER, STAY))
    IN  Best(ids) = found[1] * PosBase + found[2]

(* The distribution that the rejection sampler takes a drafted token from  *)
(* is the one it was drawn from: the step's candidates where the graph     *)
(* wrote it, a point mass where the lookup did, with nothing left over of  *)
(* an earlier step or of an earlier request; so that no token is accepted  *)
(* with a wrong probability.                                               *)
DistributionIsDraft ==
    \A i \in Places :
        /\ support[i] = cached_ids[i]
        /\ took[i] => support[i] = {tokens[i]}
        /\ support[i] # {} => tokens[i] \in support[i]

(* A request is kept in lookup mode by drafts of its own that were         *)
(* accepted, never by what an earlier one left in the slot.                *)
HotIsOwn == hot = mine
=============================================================================
