---------------------- MODULE MSP430BranchSelectorMC ----------------------
(***************************************************************************)
(* Instances of MSP430BranchSelector for TLC: every function of NumBlocks  *)
(* blocks whose bodies have the sizes Bodies, with any branches.  The      *)
(* range of a branch is scaled down to Reach with the sizes.               *)
(***************************************************************************)
EXTENDS MSP430BranchSelector

CONSTANTS
    NumBlocks,
    Bodies       \* pairs <<measured size, real size>> of a body

Targets == 1..NumBlocks

\* The fields of an absent branch are fixed, so as not to repeat functions.
MCBlocks ==
    {[body |-> s[1], real |-> s[2], cond |-> c[1], condTo |-> c[2], over |-> 1,
      reversed |-> FALSE, jump |-> j[1], jumpTo |-> j[2]] :
        s \in Bodies,
        c \in {<<"none", 1>>} \cup ({"JCC"} \X Targets),
        j \in {<<"none", 1>>, <<"RET", 1>>} \cup ({"JMP"} \X Targets)}

MCFunctions == {f \in [Targets -> MCBlocks] : WellFormed(f)}

\* An empty body, and inline assembly shorter than its upper bound.
MCBodies == {<<0, 0>>, <<3, 2>>}
=============================================================================
