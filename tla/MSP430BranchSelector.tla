----------------------- MODULE MSP430BranchSelector -----------------------
(***************************************************************************)
(* The pass of MSP430BranchSelector.cpp, which replaces the branches that  *)
(* cannot reach their destination by long sequences, followed by the       *)
(* assembler, which places the blocks one after the other.                 *)
(*                                                                         *)
(* The pass works on the sizes it knows.  It measures the function, then   *)
(* scans its branches again and again: each expansion moves the code after *)
(* it and may push another branch out of range.  A conditional branch that *)
(* something follows is first cut off into a block of its own.             *)
(* Sizes and distances are in words of two bytes.                          *)
(***************************************************************************)
EXTENDS Integers, SequencesExt

CONSTANTS
    Reach,       \* a branch field holds -Reach..Reach-1; 512 for its 10 bits
    Functions    \* the functions the pass may be given

\* A block is some instructions, at most one conditional branch (to condTo)
\* and at most one unconditional one (to jumpTo).  body is the measured size
\* of the instructions, real the size the assembler makes of them: inline
\* assembly is measured by an upper bound.  A long conditional branch is a
\* JCC on the reversed condition over a Bi: over is the block it skips to.
MachineBasicBlock(Ids) ==
    [body: Nat, real: Nat,
     cond: {"none", "JCC", "long"}, condTo: Ids, over: Ids, reversed: BOOLEAN,
     jump: {"none", "RET", "JMP", "Bi"}, jumpTo: Ids]

\* In layout order.  Control does not fall off the end, a conditional branch
\* and the jump after it differ, and a block that returns does nothing else.
WellFormed(f) ==
    /\ f \in Seq(MachineBasicBlock(1..Len(f)))
    /\ \A b \in 1..Len(f) :
          /\ f[b].real <= f[b].body
          /\ f[b].cond \in {"none", "JCC"} /\ ~f[b].reversed
          /\ f[b].cond = "JCC" => f[b].jump # "RET"
          /\ f[b].cond = "JCC" /\ f[b].jump # "none" => f[b].condTo # f[b].jumpTo
          /\ b = Len(f) => f[b].jump # "none"

\* Reach > 2: the JCC of a long sequence can skip the two words of its Bi.
ASSUME ReachAssumption == Reach \in Nat /\ Reach > 2
ASSUME FunctionsAssumption == \A f \in Functions : WellFormed(f)

VARIABLES
    fn,              \* the function given to the pass, never changed
    code,            \* the blocks; their indices stand for their addresses
    order,           \* the layout: the block at each position
    succ,            \* the successor list of each block
    BlockOffsets,    \* by position, as measured
    phase,           \* where runOnMachineFunction is, then the assembler
    num, mi,         \* position of the block and the branch looked at
    TotalSize,       \* of measureFunction
    MadeChange,      \* of expandBranches
    addr             \* by position, where the assembler puts each block

vars == <<fn, code, order, succ, BlockOffsets, phase, num, mi, TotalSize,
          MadeChange, addr>>

-----------------------------------------------------------------------------
Blocks == 1..Len(code)

\* The number the last RenumberBlocks gave to block b.
Number(b) == CHOOSE i \in 1..Len(order) : order[i] = b

InRange(Distance) == -Reach <= Distance /\ Distance < Reach

CondSize(b) == CASE code[b].cond = "none" -> 0
                 [] code[b].cond = "JCC"  -> 1
                 [] code[b].cond = "long" -> 3

JumpSize(b) == CASE code[b].jump = "none" -> 0
                 [] code[b].jump \in {"RET", "JMP"} -> 1
                 [] code[b].jump = "Bi" -> 2

Size(b) == code[b].body + CondSize(b) + JumpSize(b)

\* The operand of the JCC of b, be it alone or the first of a long sequence.
JCCTarget(b) == IF code[b].cond = "long" THEN code[b].over ELSE code[b].condTo

\* Mutant: the distance is counted from the start of the branch.
CondDistance_FromStart(b) == BlockOffsets[Number(JCCTarget(b))]
                               - BlockOffsets[Number(b)] - code[b].body

\* BranchDistance, counted from the end of the branch.
CondDistance(b) == BlockOffsets[Number(JCCTarget(b))]
                     - BlockOffsets[Number(b)] - (code[b].body + 1)

JumpDistance(b) == BlockOffsets[Number(code[b].jumpTo)]
                     - BlockOffsets[Number(b)] - (code[b].body + CondSize(b) + 1)

-----------------------------------------------------------------------------
\* Where control goes from block b of the function f laid out as lay, when
\* the condition of its original branch is c; 0 for a return.
Rest(f, lay, b) ==
    CASE f[b].jump \in {"JMP", "Bi"} -> f[b].jumpTo
      [] f[b].jump = "RET" -> 0
      [] f[b].jump = "none" ->
            lay[(CHOOSE i \in 1..Len(lay) : lay[i] = b) + 1]

Outcome(f, lay, b, c) ==
    CASE f[b].cond = "none" -> Rest(f, lay, b)
      [] f[b].cond = "JCC"  -> IF c THEN f[b].condTo ELSE Rest(f, lay, b)
      [] f[b].cond = "long" -> IF c # f[b].reversed THEN f[b].over ELSE f[b].condTo

Outcomes(f, lay, b) == {Outcome(f, lay, b, c) : c \in BOOLEAN}

\* The layout of the function as it was given.
InputOrder == [i \in 1..Len(fn) |-> i]

Init ==
    /\ fn \in Functions
    /\ code = fn
    /\ order = InputOrder
    /\ succ = [b \in 1..Len(fn) |-> Outcomes(fn, InputOrder, b) \ {0}]
    /\ BlockOffsets = [i \in 1..Len(fn) |-> 0]
    /\ phase = "measure" /\ num = 1 /\ mi = "cond"
    /\ TotalSize = 0 /\ MadeChange = FALSE
    /\ addr = <<>>

-----------------------------------------------------------------------------
\* One turn of the loop of measureFunction, which starts at the first block
\* or at the block that was split.
MeasureBlock ==
    /\ phase \in {"measure", "remeasure"} /\ num <= Len(order)
    /\ BlockOffsets' = [BlockOffsets EXCEPT ![num] = TotalSize]
    /\ TotalSize' = TotalSize + Size(order[num])
    /\ num' = num + 1
    /\ UNCHANGED <<fn, code, order, succ, phase, mi, MadeChange, addr>>

\* Mutant: MadeChange outlives the call of expandBranches.
StartScan_KeepsChange ==
    phase' = "scan" /\ num' = 1 /\ mi' = "cond" /\ UNCHANGED MadeChange

\* The start of an expandBranches: its first, and one after each that made a
\* change.
StartScan == phase' = "scan" /\ num' = 1 /\ mi' = "cond" /\ MadeChange' = FALSE

\* runOnMachineFunction returns early when the whole function is so small
\* that any branch in it reaches.
EndMeasure ==
    /\ phase = "measure" /\ num > Len(order)
    /\ \/ InRange(TotalSize) /\ phase' = "assemble" /\ UNCHANGED <<num, mi, MadeChange>>
       \/ ~InRange(TotalSize) /\ StartScan
    /\ UNCHANGED <<fn, code, order, succ, BlockOffsets, TotalSize, addr>>

\* After a split expandBranches returns true and is called again.
EndRemeasure ==
    /\ phase = "remeasure" /\ num > Len(order)
    /\ StartScan
    /\ UNCHANGED <<fn, code, order, succ, BlockOffsets, TotalSize, addr>>

-----------------------------------------------------------------------------
Scanning(m) == phase = "scan" /\ num <= Len(order) /\ mi = m

SkipCond ==
    /\ Scanning("cond")
    /\ code[order[num]].cond = "none" \/ InRange(CondDistance(order[num]))
    /\ mi' = "jump"
    /\ UNCHANGED <<fn, code, order, succ, BlockOffsets, phase, num, TotalSize,
                   MadeChange, addr>>

\* Mutant: the successor lists are not updated.
MovedSuccessors_None(b) == {}

\* The successors a split moves to the new block.
MovedSuccessors(b) == succ[b] \ {code[b].condTo}

\* Mutant: measuring again, the offsets of the old number of blocks are kept.
ResizedOffsets_Same == BlockOffsets

ResizedOffsets == Append(BlockOffsets, 0)

\* The jump after an out-of-range JCC goes to a new block, with the
\* successors that are not the destination of the JCC; the blocks from this
\* one on are numbered and measured again.
SplitBlock ==
    LET b == order[num]
        NewBB == Len(code) + 1
        moved == MovedSuccessors(b)
    IN  /\ Scanning("cond")
        /\ code[b].cond = "JCC" /\ ~InRange(CondDistance(b)) /\ code[b].jump # "none"
        /\ code' = Append([code EXCEPT ![b].jump = "none"],
                          [code[b] EXCEPT !.body = 0, !.real = 0, !.cond = "none"])
        /\ order' = InsertAt(order, num + 1, NewBB)
        /\ succ' = Append([succ EXCEPT ![b] = (@ \ moved) \cup {NewBB : s \in moved}],
                          moved)
        /\ BlockOffsets' = ResizedOffsets
        /\ phase' = "remeasure" /\ TotalSize' = BlockOffsets[num]
        /\ UNCHANGED <<fn, num, mi, MadeChange, addr>>

\* Mutant: the offsets of later blocks are left as measured.
Grow_Not(diff) == UNCHANGED BlockOffsets

\* The new instructions are longer by diff words: all later blocks move.
Grow(diff) ==
    BlockOffsets' = [i \in 1..Len(BlockOffsets) |->
                        BlockOffsets[i] + IF i > num THEN diff ELSE 0]

\* Mutant: the condition is not reversed.
LongBranch_NotReversed(b) == [code[b] EXCEPT !.cond = "long", !.over = order[num + 1]]

\* A JCC on the reversed condition to NextMBB, over a Bi to the destination.
LongBranch(b) ==
    [code[b] EXCEPT !.cond = "long", !.reversed = TRUE, !.over = order[num + 1]]

ExpandCond ==
    LET b == order[num] IN
    /\ Scanning("cond")
    /\ code[b].cond = "JCC" /\ ~InRange(CondDistance(b)) /\ code[b].jump = "none"
    /\ code' = [code EXCEPT ![b] = LongBranch(b)]
    /\ Grow(2)
    /\ MadeChange' = TRUE /\ mi' = "jump"
    /\ UNCHANGED <<fn, order, succ, phase, num, TotalSize, addr>>

NextBlock == num' = num + 1 /\ mi' = "cond"

SkipJump ==
    /\ Scanning("jump")
    /\ code[order[num]].jump # "JMP" \/ InRange(JumpDistance(order[num]))
    /\ NextBlock
    /\ UNCHANGED <<fn, code, order, succ, BlockOffsets, phase, TotalSize,
                   MadeChange, addr>>

ExpandJump ==
    LET b == order[num] IN
    /\ Scanning("jump")
    /\ code[b].jump = "JMP" /\ ~InRange(JumpDistance(b))
    /\ code' = [code EXCEPT ![b].jump = "Bi"]
    /\ Grow(1)
    /\ MadeChange' = TRUE
    /\ NextBlock
    /\ UNCHANGED <<fn, order, succ, phase, TotalSize, addr>>

\* The loop of runOnMachineFunction: once more unless nothing changed.
EndScan ==
    /\ phase = "scan" /\ num > Len(order)
    /\ \/ MadeChange /\ StartScan
       \/ ~MadeChange /\ phase' = "assemble" /\ UNCHANGED <<num, mi, MadeChange>>
    /\ UNCHANGED <<fn, code, order, succ, BlockOffsets, TotalSize, addr>>

-----------------------------------------------------------------------------
\* The assembler, outside src: each block starts where the one before ends.
RealSize(b) == code[b].real + CondSize(b) + JumpSize(b)

PlaceBlock ==
    /\ phase = "assemble" /\ Len(addr) < Len(order)
    /\ addr' = Append(addr, IF addr = <<>> THEN 0
                            ELSE addr[Len(addr)] + RealSize(order[Len(addr)]))
    /\ UNCHANGED <<fn, code, order, succ, BlockOffsets, phase, num, mi, TotalSize,
                   MadeChange>>

Next == \/ MeasureBlock \/ EndMeasure \/ EndRemeasure
        \/ SkipCond \/ SplitBlock \/ ExpandCond \/ SkipJump \/ ExpandJump \/ EndScan
        \/ PlaceBlock

Spec == Init /\ [][Next]_vars
FairSpec == Spec /\ WF_vars(Next)

-----------------------------------------------------------------------------
\* Every variable has a value of its type, and the layout is a permutation
\* of the blocks.
TypeOK ==
    /\ fn \in Functions
    /\ code \in Seq(MachineBasicBlock(Blocks))
    /\ order \in Seq(Blocks) /\ Len(order) = Len(code)
    /\ \A b \in Blocks : \E i \in Blocks : order[i] = b
    /\ \A i, j \in Blocks : order[i] = order[j] => i = j
    /\ succ \in Seq(SUBSET Blocks) /\ Len(succ) = Len(code)
    /\ BlockOffsets \in Seq(Nat) /\ Len(BlockOffsets) = Len(code)
    /\ phase \in {"measure", "remeasure", "scan", "assemble"}
    /\ num \in 1..Len(code) + 1 /\ mi \in {"cond", "jump"}
    /\ TotalSize \in Nat /\ MadeChange \in BOOLEAN
    /\ addr \in Seq(Nat) /\ Len(addr) <= Len(code)

Assembled == phase = "assemble" /\ Len(addr) = Len(order)

Displacement(b, target, before) ==
    addr[Number(target)] - addr[Number(b)] - (code[b].real + before + 1)

\* Once the blocks have their addresses, the displacement of every branch
\* that was left short, and of the JCC of every long sequence, fits its
\* field, though expansions moved code after the branch was looked at, the
\* early return looked at none, and inline assembly is shorter than measured.
ShortBranchesReach ==
    Assembled => \A b \in Blocks :
        /\ code[b].cond # "none" => InRange(Displacement(b, JCCTarget(b), 0))
        /\ code[b].jump = "JMP" => InRange(Displacement(b, code[b].jumpTo, CondSize(b)))

\* Whatever has been split, reversed and expanded so far, a block of the
\* input goes where it went in the input, for each value of its condition,
\* at once or through a block made by a split.
SameTargets ==
    \A b \in 1..Len(fn) : \A c \in BOOLEAN :
        LET to == Outcome(code, order, b, c)
        IN  Outcome(fn, InputOrder, b, c) =
                IF to > Len(fn) THEN Outcome(code, order, to, c) ELSE to

\* The successor lists, which are changed only by a split, say what the code
\* does; so an expanded branch has the layout successor the code asserts.
SuccessorsExact ==
    \A b \in Blocks : succ[b] = Outcomes(code, order, b) \ {0}

\* A branch is long only if it has to be: by the sizes of the function as it
\* is now, however late its neighbours grew, a short one would not reach.
\* Forward distances start after the sequence, backward ones after a JCC or
\* JMP in its place.
NoNeedlessExpansion ==
    phase \in {"scan", "assemble"} =>
        LET start(b) == BlockOffsets[Number(b)] + code[b].body
            Far(to, short, long) ==
                IF BlockOffsets[Number(to)] >= long
                THEN ~InRange(BlockOffsets[Number(to)] - long)
                ELSE ~InRange(BlockOffsets[Number(to)] - short)
        IN  \A b \in Blocks :
               /\ code[b].cond = "long" => Far(code[b].condTo, start(b) + 1, start(b) + 3)
               /\ code[b].jump = "Bi" =>
                     Far(code[b].jumpTo, start(b) + CondSize(b) + 1, start(b) + CondSize(b) + 2)

\* The pass reaches its fixed point and the function is assembled.
PassTerminates == <>Assembled
=============================================================================
