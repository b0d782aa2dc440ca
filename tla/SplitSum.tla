------------------------------ MODULE SplitSum ------------------------------
(***************************************************************************)
(* What a split-K kernel promises: each launch gives every column of its   *)
(* output the sum of that launch's partials, and the next launch on the    *)
(* stream starts when all of them have it.                                 *)
(***************************************************************************)
EXTENDS Integers

CONSTANT Threads     \* each thread of the reducing block owns some columns

VARIABLES launch,    \* the launch that runs
          out        \* the launch whose sum a thread's columns hold

vars == <<launch, out>>

Init == launch = 1 /\ out = [t \in Threads |-> 0]

Sum(t) == out' = [out EXCEPT ![t] = launch] /\ UNCHANGED launch

Relaunch ==
    /\ \A t \in Threads : out[t] = launch
    /\ launch' = launch + 1
    /\ UNCHANGED out

Next == Relaunch \/ \E t \in Threads : Sum(t)

Spec == Init /\ [][Next]_vars
=============================================================================
