---------------------------- MODULE MCKernelRuns ----------------------------
(* Three groups of ranks, each with its own stream of calls, a stream of   *)
(* split-K launches, and three of the programs around the drafter.  They   *)
(* share no state, so a behaviour runs one, as its first state chooses;    *)
(* the others stay as they are.                                            *)
(*   rows   two ranks; decode steps of one and two rows on the fused kernel *)
(*   three  three ranks; a one-word message on the exact kernel            *)
(*   lone   two ranks on the exact kernel; rank 0 alone keeps running, and *)
(*          spins are given up; the sequence number wraps in its 2nd call   *)
(*   split  launches of one to three blocks of two threads                  *)
(*   skip   two prompts, one the beginning of the other, the drafter off    *)
(*          for what is far from their ends                                 *)
(*   lookup the requests of one slot, histories of up to six tokens         *)
(*   width  batches of three requests with up to five drafts each           *)
EXTENDS OneShotAllReduce, PrefillSkip, DraftLookup

MCTwo == {0, 1}
MCRows == {[kernel |-> "nq", words |-> 2], [kernel |-> "nq", words |-> 4]}

MCReqs == {"long", "short"}
MCPrompt == [r \in MCReqs |-> IF r = "long" THEN 13 ELSE 7]
MCTokens == {"x", "y", "z"}

VARIABLES
    group,
    threeStream, threeCall, threeSeq, threeStage, threeWords, threePeers,
    threeScratch, threeFlags, threeRead, threeResult, threeSpins,
    loneStream, loneCall, loneSeq, loneStage, loneWords, lonePeers,
    loneScratch, loneFlags, loneRead, loneResult, loneSpins,
    launch, split, at, stored, slab, cnt, ticket, out,
    mode, drafts, estimate, width, chosen

threeVars ==
    <<
      threeStream, threeCall, threeSeq, threeStage, threeWords, threePeers,
      threeScratch, threeFlags, threeRead, threeResult, threeSpins
    >>
loneVars ==
    <<
      loneStream, loneCall, loneSeq, loneStage, loneWords, lonePeers,
      loneScratch, loneFlags, loneRead, loneResult, loneSpins
    >>
splitVars == <<launch, split, at, stored, slab, cnt, ticket, out>>
widthVars == <<mode, drafts, estimate, width, chosen>>
drafterVars == <<skipVars, lookupVars, widthVars>>
allVars == <<group, vars, threeVars, loneVars, splitVars, drafterVars>>

Three == INSTANCE OneShotAllReduce WITH
    stream <- threeStream, call <- threeCall, seq <- threeSeq, stage <-
    threeStage, words <- threeWords, peers <- threePeers, scratch <-
    threeScratch, flags <- threeFlags, read <- threeRead, result <-
    threeResult, spins <- threeSpins,
    Ranks <- {0, 1, 2}, Messages <- {[kernel |-> "exact", words |-> 1]},
    WordsPerBlock <- 1

Lone == INSTANCE OneShotAllReduce WITH
    stream <- loneStream, call <- loneCall, seq <- loneSeq, stage <-
    loneStage, words <- loneWords, peers <- lonePeers, scratch <- loneScratch,
    flags <- loneFlags, read <- loneRead, result <- loneResult, spins <-
    loneSpins,
    Messages <- {[kernel |-> "exact", words |-> 1]},
    SeqMod <- 2, SpinOuts <- 3

Split == INSTANCE SplitK WITH
    Leader <- 0, Others <- {1}, Splits <- 1 .. 3, MaxLaunches <- 2

Adaptive == INSTANCE AdaptiveWidth WITH
    Requests <- {1, 2, 3}, Depth <- 5, Lens <- {1, 3}, Parts <- 4, Qs <- {1, 3},
    CostA <- 76, CostB <- 1, MinRows <- 8, Quant <- 4, Modes <- {"perseq", "uniform"}

ASSUME SkipSettings /\ LookupSettings /\ Adaptive!WidthSettings

\* What is not run has one initial state.
GroupsInit ==
    /\ Init /\ Three!Init /\ Lone!Init /\ Split!Init
    /\ SkipInit /\ LookupInit /\ Adaptive!Init
    /\ group \in {"rows", "three", "lone", "split", "skip", "lookup", "width"}
    /\ group # "split" => split = 1
    /\ group # "rows" => \A c \in 1 .. Calls : stream[c].words = 2
    /\ group # "skip" => caching
    /\ group # "lookup" => \A i \in DOMAIN tokens : tokens[i] = "x"
    /\ group # "width" => /\ mode = "perseq"
                          /\ \A i \in {1, 2, 3} : drafts[i] = 1 /\ estimate[i] = 1

RowsStep ==
    /\ group = "rows" /\ Next
    /\ UNCHANGED <<group, threeVars, loneVars, splitVars, drafterVars>>

ThreeStep(r) ==
    /\ group = "three" /\ Three!Rank(r)
    /\ UNCHANGED <<group, vars, loneVars, splitVars, drafterVars>>

LoneStep(r) ==
    /\ group = "lone" /\ Lone!Rank(r)
    /\ UNCHANGED <<group, vars, threeVars, splitVars, drafterVars>>

SplitStep ==
    /\ group = "split" /\ Split!Next
    /\ UNCHANGED <<group, vars, threeVars, loneVars, drafterVars>>

SkipStep ==
    /\ group = "skip" /\ SkipNext
    /\ UNCHANGED <<group, vars, threeVars, loneVars, splitVars, lookupVars, widthVars>>

LookupStep ==
    /\ group = "lookup" /\ LookupNext
    /\ UNCHANGED <<group, vars, threeVars, loneVars, splitVars, skipVars, widthVars>>

WidthStep ==
    /\ group = "width" /\ Adaptive!Next
    /\ UNCHANGED <<group, vars, threeVars, loneVars, splitVars, skipVars, lookupVars>>

GroupsNext ==
    \/ RowsStep
    \/ \E r \in {0, 1, 2} : ThreeStep(r)
    \/ \E r \in {0, 1} : LoneStep(r)
    \/ SplitStep
    \/ SkipStep
    \/ LookupStep
    \/ WidthStep

\* The GPUs of `three` keep running their kernels; of `lone`, that of rank 0.
GroupsSpec ==
    /\ GroupsInit /\ [][GroupsNext]_allVars
    /\ \A r \in {0, 1, 2} : WF_threeVars(group = "three" /\ Three!Rank(r))
    /\ WF_loneVars(group = "lone" /\ Lone!Rank(0))

\* Types of the groups that are not the module's own variables.
KernelsTypeOK ==
    /\ Lone!TypeOK /\ Split!TypeOK
    /\ SkipTypeOK /\ LookupTypeOK /\ Adaptive!TypeOK

\* Three ranks get the sums an all-reduce promises too, and a split-K launch
\* stores what one that is not split would.
AllImplement == Three!Implements /\ Split!Implements

\* Three ranks that run end every call; a rank left alone gives its spins up.
CallsEnd ==
    /\ group = "three" => Three!EveryCallEnds
    /\ group = "lone" => Lone!LoneRankEnds(0)

\* The property of AdaptiveWidth, by its name there.
ShorteningPays == Adaptive!ShorteningPays
=============================================================================
