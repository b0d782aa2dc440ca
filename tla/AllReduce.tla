------------------------------ MODULE AllReduce ------------------------------
(***************************************************************************)
(* What the ranks of a tensor-parallel group are promised of their         *)
(* all-reduces: a call ends on a rank only after every rank has begun it,  *)
(* and its result is reduced from the inputs of that call and no other.    *)
(***************************************************************************)
EXTENDS Naturals

CONSTANTS
    Ranks,    \* the ranks of the group
    Calls     \* bound: length of the stream of calls

VARIABLES
    begun,    \* calls each rank has begun
    ended,    \* calls each rank has ended
    result    \* the calls whose inputs went into each result

vars == <<begun, ended, result>>

Init ==
    /\ begun = [r \in Ranks |-> 0]
    /\ ended = [r \in Ranks |-> 0]
    /\ result = [r \in Ranks |-> [c \in 1..Calls |-> {}]]

Begin(r) ==
    /\ begun[r] = ended[r] /\ begun[r] < Calls
    /\ begun' = [begun EXCEPT ![r] = @ + 1]
    /\ UNCHANGED <<ended, result>>

End(r) ==
    /\ begun[r] = ended[r] + 1
    /\ \A p \in Ranks : begun[p] >= begun[r]
    /\ ended' = [ended EXCEPT ![r] = @ + 1]
    /\ result' = [result EXCEPT ![r][begun[r]] = {begun[r]}]
    /\ UNCHANGED begun

Next == \E r \in Ranks : Begin(r) \/ End(r)

Spec == Init /\ [][Next]_vars
=============================================================================
