---------------------------- MODULE VZeroUpperMC ----------------------------
(***************************************************************************)
(* Instances of VZeroUpper for TLC: families of small functions, each with *)
(* every control-flow graph over its blocks.                               *)
(***************************************************************************)
EXTENDS VZeroUpper

Plain == [isCall |-> FALSE, isReturn |-> FALSE, isVZero |-> FALSE,
          ymm |-> FALSE, regMask |-> "none"]

Kind == [ymm      |-> [Plain EXCEPT !.ymm = TRUE],
         vzero    |-> [Plain EXCEPT !.isVZero = TRUE, !.ymm = TRUE],
         call     |-> [Plain EXCEPT !.isCall = TRUE, !.regMask = "all"],
         callYmm  |-> [Plain EXCEPT !.isCall = TRUE, !.regMask = "all", !.ymm = TRUE],
         callSome |-> [Plain EXCEPT !.isCall = TRUE, !.regMask = "some"],
         helper   |-> [Plain EXCEPT !.isCall = TRUE],
         ret      |-> [Plain EXCEPT !.isReturn = TRUE],
         retYmm   |-> [Plain EXCEPT !.isReturn = TRUE, !.ymm = TRUE],
         tailCall |-> [Plain EXCEPT !.isCall = TRUE, !.isReturn = TRUE, !.regMask = "all"]]

\* A return ends its block, and the block has no successor.
WellFormed(f) ==
    \A b \in Block : \A i \in 1..Len(f.code[b]) :
        f.code[b][i].isReturn => i = Len(f.code[b]) /\ f.succ[b] = {}

\* Blocks of at most n instructions of the given kinds.
Blocks(n, kinds) == UNION {[1..k -> {Kind[x] : x \in kinds}] : k \in 0..n}

\* The functions of n blocks: the blocks above n are empty and unreachable.
FunctionsOf(n, blocks, intr) ==
    {f \in [code: {c \in [Block -> blocks] : \A b \in Block : b > n => c[b] = <<>>},
            succ: {s \in [Block -> SUBSET (1..n)] : \A b \in Block : b > n => s[b] = {}},
            x86Intr: intr, liveIn: BOOLEAN] : WellFormed(f)}

\* Every kind of instruction on two blocks, returns and handlers, and three-block
\* graphs with cycles, joins and chains of pass-through blocks.
MCFunctions ==
    FunctionsOf(2, Blocks(2, {"ymm", "vzero", "call", "callSome", "helper", "ret"}), {FALSE})
    \cup FunctionsOf(2, Blocks(2, {"ymm", "callYmm", "ret", "retYmm", "tailCall"}), BOOLEAN)
    \cup FunctionsOf(3, Blocks(1, {"ymm", "call"}), {FALSE})

\* runOnMachineFunction comes to an end: the worklist drains on every graph.
PassTerminates == <>(phase = "run")
=============================================================================
