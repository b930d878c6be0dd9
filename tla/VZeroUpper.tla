----------------------------- MODULE VZeroUpper -----------------------------
(***************************************************************************)
(* The pass of X86VZeroUpper.cpp, which keeps the upper halves of the      *)
(* YMM/ZMM registers clean at every control transfer out of a function,    *)
(* followed by the execution of the code it produced.                      *)
(*                                                                         *)
(* The pass scans every block once (processBasicBlock), seeds a worklist   *)
(* with the successors of the blocks that exit dirty, and then drains the  *)
(* worklist, guarding the first unguarded call of each block it reaches.   *)
(* The machine afterwards follows any path of the control-flow graph.      *)
(***************************************************************************)
EXTENDS Integers, Sequences, FiniteSets

CONSTANTS
    NumBlocks,   \* blocks of the function, numbered from the entry block, 1
    Functions    \* the functions the pass may be given

Block == 1..NumBlocks

\* What the pass asks of an instruction.  regMask: "none" when it has no
\* RegMask operand, "all" when the mask clobbers YMM0-15 and ZMM0-15, "some"
\* when it preserves one of them.
MachineInstr == [isCall: BOOLEAN, isReturn: BOOLEAN, isVZero: BOOLEAN,
                 ymm: BOOLEAN, regMask: {"none", "all", "some"}]

MachineFunction == [code: [Block -> Seq(MachineInstr)],
                    succ: [Block -> SUBSET Block],
                    x86Intr: BOOLEAN,    \* calling convention X86_INTR
                    liveIn: BOOLEAN]     \* a YMM/ZMM register is live-in

ASSUME NumBlocksAssumption == NumBlocks \in Nat \ {0}
ASSUME FunctionsAssumption == Functions \subseteq MachineFunction

BlockExitState == {"PASS_THROUGH", "EXITS_CLEAN", "EXITS_DIRTY"}
UpperState == {"clean", "dirty"}

VARIABLES
    fn,                  \* the function being compiled, never changed
    phase,               \* where runOnMachineFunction is, then the machine
    at,                  \* block and index of the instruction looked at
    CurState,            \* local of processBasicBlock
    ExitState,           \* BlockStates[b].ExitState
    FirstUnguardedCall,  \* BlockStates[b].FirstUnguardedCall, 0 for MBB.end()
    Added,               \* the blocks with AddedToDirtySuccessors set
    DirtySuccessors,     \* the worklist; the last element is its back
    guards,              \* places <<b, i>> with a VZEROUPPER inserted before
    NumVZU,              \* the statistic, one per insertVZeroUpper
    upper                \* the machine: state of the upper halves

passVars == <<CurState, ExitState, FirstUnguardedCall, Added,
              DirtySuccessors, guards, NumVZU>>
vars == <<fn, phase, at, CurState, ExitState, FirstUnguardedCall, Added,
          DirtySuccessors, guards, NumVZU, upper>>

Place == Block \X (Nat \ {0})

TypeOK ==
    /\ fn \in Functions
    /\ phase \in {"check", "scan", "seed", "drain", "run", "done"}
    /\ at \in Place
    /\ CurState \in BlockExitState
    /\ ExitState \in [Block -> BlockExitState]
    /\ FirstUnguardedCall \in [Block -> Nat]
    /\ Added \subseteq Block
    /\ DirtySuccessors \in Seq(Block)
    /\ guards \subseteq Place
    /\ NumVZU \in Nat
    /\ upper \in UpperState
-----------------------------------------------------------------------------
Code(b) == fn.code[b]

hasYmmOrZmmReg(mi) == mi.ymm \/ (mi.isCall /\ mi.regMask = "some")

callHasRegMask(mi) == mi.regMask # "none"

IsControlFlow(mi) == mi.isCall \/ mi.isReturn

\* An instruction processBasicBlock steps over before it looks at registers.
SkippedReturn(mi) == fn.x86Intr /\ mi.isReturn

\* Mutant: a control transfer is guarded even when it names YMM/ZMM registers.
NeedsGuard_IgnoresOperands(mi) ==
    /\ ~SkippedReturn(mi)
    /\ ~mi.isVZero
    /\ IsControlFlow(mi)
    /\ mi.isCall => callHasRegMask(mi)

\* A transfer of control out of the function that must be made clean.
NeedsGuard(mi) ==
    /\ ~SkippedReturn(mi)
    /\ ~mi.isVZero
    /\ ~hasYmmOrZmmReg(mi)
    /\ IsControlFlow(mi)
    /\ mi.isCall => callHasRegMask(mi)

\* The fast check: some YMM/ZMM register is live-in or has an operand.
YmmOrZmmUsed ==
    \/ fn.liveIn
    \/ \E b \in Block : \E i \in 1..Len(Code(b)) : Code(b)[i].ymm

\* The sequences that list the members of S once each, in any order.
Listings(S) == {q \in [1..Cardinality(S) -> S] : \A x \in S : \E i \in DOMAIN q : q[i] = x}

\* Mutant: a block already added is pushed again.
addDirtySuccessors_Again(stack, S) ==
    \E q \in Listings(S) : /\ DirtySuccessors' = stack \o q
                           /\ Added' = Added \cup S

\* addDirtySuccessor on each block of S: those not yet added are pushed.
addDirtySuccessors(stack, S) ==
    \E q \in Listings(S \ Added) : /\ DirtySuccessors' = stack \o q
                                   /\ Added' = Added \cup S
-----------------------------------------------------------------------------
Init ==
    /\ fn \in Functions
    /\ phase = "check"
    /\ at = <<1, 1>>
    /\ CurState = "PASS_THROUGH"
    /\ ExitState = [b \in Block |-> "PASS_THROUGH"]
    /\ FirstUnguardedCall = [b \in Block |-> 0]
    /\ Added = {}
    /\ DirtySuccessors = <<>>
    /\ guards = {}
    /\ NumVZU = 0
    /\ upper \in IF fn.liveIn THEN UpperState ELSE {"clean"}

\* The early return of runOnMachineFunction, or the start of the first block.
FastCheck ==
    /\ phase = "check"
    /\ phase' = IF YmmOrZmmUsed THEN "scan" ELSE "run"
    /\ UNCHANGED <<fn, at, upper, passVars>>

\* The instruction the scan, or the machine, is at.
MI == Code(at[1])[at[2]]
InBlock == at[2] \in 1..Len(Code(at[1]))
AtBlockEnd == at[2] = Len(Code(at[1])) + 1

Scanning == phase = "scan" /\ InBlock

NextInstr == at' = <<at[1], at[2] + 1>>

\* The iterations that change nothing: an interrupt return, a regular
\* instruction when already dirty, a regular instruction without YMM/ZMM
\* operands, and a call without a RegMask operand.
ScanSkips ==
    /\ Scanning
    /\ \/ SkippedReturn(MI)
       \/ /\ ~MI.isVZero
          /\ \/ ~IsControlFlow(MI) /\ CurState = "EXITS_DIRTY"
             \/ ~IsControlFlow(MI) /\ ~hasYmmOrZmmReg(MI)
             \/ MI.isCall /\ ~callHasRegMask(MI) /\ ~hasYmmOrZmmReg(MI)
    /\ NextInstr
    /\ UNCHANGED <<fn, phase, upper, passVars>>

ScanVZero ==
    /\ Scanning
    /\ ~SkippedReturn(MI)
    /\ MI.isVZero
    /\ CurState' = "EXITS_CLEAN"
    /\ NextInstr
    /\ UNCHANGED <<fn, phase, upper, ExitState, FirstUnguardedCall, Added,
                   DirtySuccessors, guards, NumVZU>>

ScanYmm ==
    /\ Scanning
    /\ ~SkippedReturn(MI)
    /\ ~MI.isVZero
    /\ IsControlFlow(MI) \/ CurState # "EXITS_DIRTY"
    /\ hasYmmOrZmmReg(MI)
    /\ CurState' = "EXITS_DIRTY"
    /\ NextInstr
    /\ UNCHANGED <<fn, phase, upper, ExitState, FirstUnguardedCall, Added,
                   DirtySuccessors, guards, NumVZU>>

\* insertVZeroUpper before the place p.
insertVZeroUpper(p) ==
    /\ guards' = guards \cup {p}
    /\ NumVZU' = NumVZU + 1

\* Mutant: any call met while not dirty is taken for the first unguarded one.
FirstTransfer_AnyClean == CurState # "EXITS_DIRTY"

FirstTransfer == CurState = "PASS_THROUGH"

\* A call or return that may execute SSE code.
ScanTransfer ==
    /\ Scanning
    /\ NeedsGuard(MI)
    /\ \/ /\ CurState = "EXITS_DIRTY"
          /\ insertVZeroUpper(at)
          /\ UNCHANGED FirstUnguardedCall
       \/ /\ FirstTransfer
          /\ FirstUnguardedCall' = [FirstUnguardedCall EXCEPT ![at[1]] = at[2]]
          /\ UNCHANGED <<guards, NumVZU>>
       \/ /\ CurState = "EXITS_CLEAN"
          /\ UNCHANGED <<guards, NumVZU, FirstUnguardedCall>>
    /\ CurState' = "EXITS_CLEAN"
    /\ NextInstr
    /\ UNCHANGED <<fn, phase, upper, ExitState, Added, DirtySuccessors>>

\* Mutant: the loop over the blocks runs one block too far.
NextBlock_OneTooFar ==
    IF at[1] = NumBlocks + 1
      THEN at' = <<1, 1>> /\ phase' = "seed"
      ELSE at' = <<at[1] + 1, 1>> /\ UNCHANGED phase

\* The loop over the blocks of the function.
NextBlock ==
    IF at[1] = NumBlocks
      THEN at' = <<1, 1>> /\ phase' = "seed"
      ELSE at' = <<at[1] + 1, 1>> /\ UNCHANGED phase

\* The end of processBasicBlock, and the start of the next block's.
ScanBlockEnd ==
    /\ phase = "scan"
    /\ AtBlockEnd
    /\ IF CurState = "EXITS_DIRTY"
         THEN addDirtySuccessors(DirtySuccessors, fn.succ[at[1]])
         ELSE UNCHANGED <<Added, DirtySuccessors>>
    /\ ExitState' = [ExitState EXCEPT ![at[1]] = CurState]
    /\ CurState' = "PASS_THROUGH"
    /\ NextBlock
    /\ UNCHANGED <<fn, upper, FirstUnguardedCall, guards, NumVZU>>

\* YMM/ZMM live-ins make the entry block a dirty successor.
SeedEntry ==
    /\ phase = "seed"
    /\ IF fn.liveIn THEN addDirtySuccessors(DirtySuccessors, {1})
                    ELSE UNCHANGED <<Added, DirtySuccessors>>
    /\ phase' = "drain"
    /\ UNCHANGED <<fn, at, upper, CurState, ExitState, FirstUnguardedCall,
                   guards, NumVZU>>

Back == DirtySuccessors[Len(DirtySuccessors)]

\* Mutant: the loop continues before pop_back when there is nothing to guard.
Popped_OnlyGuarded ==
    IF FirstUnguardedCall[Back] = 0 THEN DirtySuccessors
    ELSE SubSeq(DirtySuccessors, 1, Len(DirtySuccessors) - 1)

Popped == SubSeq(DirtySuccessors, 1, Len(DirtySuccessors) - 1)

\* Mutant: only blocks already known to exit dirty pass dirtiness on.
PassesDirtOn_Dirty(b) == ExitState[b] = "EXITS_DIRTY"

PassesDirtOn(b) == ExitState[b] = "PASS_THROUGH"

\* One turn of the worklist loop, on the block at the back of the list.
Drain ==
    /\ phase = "drain"
    /\ DirtySuccessors # <<>>
    /\ IF FirstUnguardedCall[Back] # 0
         THEN insertVZeroUpper(<<Back, FirstUnguardedCall[Back]>>)
         ELSE UNCHANGED <<guards, NumVZU>>
    /\ IF PassesDirtOn(Back)
         THEN addDirtySuccessors(Popped, fn.succ[Back])
         ELSE DirtySuccessors' = Popped /\ UNCHANGED Added
    /\ UNCHANGED <<fn, phase, at, upper, CurState, ExitState, FirstUnguardedCall>>

Drained ==
    /\ phase = "drain"
    /\ DirtySuccessors = <<>>
    /\ phase' = "run"
    /\ UNCHANGED <<fn, at, upper, passVars>>
-----------------------------------------------------------------------------
(* The machine.  The callee of a call is code of the same contract: entered  *)
(* clean, it returns clean unless it returns a YMM/ZMM value.                *)

\* The state in which the instruction at a place starts: VZEROUPPER cleans.
UpperBefore(p) == IF p \in guards THEN "clean" ELSE upper

UpperAfter(mi, u) ==
    IF mi.isVZero THEN {"clean"} ELSE IF mi.ymm THEN UpperState ELSE {u}

Running == phase = "run" /\ InBlock

Execute ==
    /\ Running
    /\ upper' \in UpperAfter(MI, UpperBefore(at))
    /\ IF MI.isReturn THEN phase' = "done" /\ UNCHANGED at
                      ELSE NextInstr /\ UNCHANGED phase
    /\ UNCHANGED <<fn, passVars>>

Branch ==
    /\ phase = "run"
    /\ AtBlockEnd
    /\ \E b \in fn.succ[at[1]] : at' = <<b, 1>>
    /\ UNCHANGED <<fn, phase, upper, passVars>>

Pass == FastCheck \/ ScanSkips \/ ScanVZero \/ ScanYmm \/ ScanTransfer
        \/ ScanBlockEnd \/ SeedEntry \/ Drain \/ Drained

Next == Pass \/ Execute \/ Branch

Spec == Init /\ [][Next]_vars

\* The pass is a sequential program: it keeps taking steps.
FairSpec == Spec /\ WF_vars(Pass)
-----------------------------------------------------------------------------
(* What processBasicBlock's scan means, stated without the scan: the last   *)
(* instruction before place <<b, i>> that sets the state, if there is one.  *)

Dirties(mi) == ~SkippedReturn(mi) /\ ~mi.isVZero /\ hasYmmOrZmmReg(mi)
Cleans(mi) == ~SkippedReturn(mi) /\ (mi.isVZero \/ NeedsGuard(mi))

DirtyAt(b, i) ==
    \E j \in 1..(i - 1) : /\ Dirties(Code(b)[j])
                          /\ \A k \in (j + 1)..(i - 1) : ~Cleans(Code(b)[k])

UntouchedAt(b, i) ==
    \A j \in 1..(i - 1) : ~Dirties(Code(b)[j]) /\ ~Cleans(Code(b)[j])

End(b) == Len(Code(b)) + 1

\* An instruction after which foreign code may run SSE instructions: a call
\* under the standard convention, or a return, that carries no YMM/ZMM value.
MayReachSSE(mi) ==
    /\ mi.isCall \/ mi.isReturn
    /\ mi.isCall => mi.regMask = "all"
    /\ mi.isReturn => ~fn.x86Intr
    /\ ~mi.ymm /\ ~mi.isVZero

\* The pass's promise (X86VZeroUpper.cpp:9-12, 246-252): no call or return that
\* may execute SSE code starts with dirty upper halves, on any path.
NoDirtyTransfer == Running /\ MayReachSSE(MI) => UpperBefore(at) = "clean"

\* S has every block that execution can enter with dirty halves: the entry block
\* if there are live-ins, and what follows a block that ends dirty or that touches
\* nothing and is itself in S.
SpreadsDirt(S) ==
    /\ fn.liveIn => 1 \in S
    /\ \A a \in Block :
          DirtyAt(a, End(a)) \/ (a \in S /\ UntouchedAt(a, End(a))) => fn.succ[a] \subseteq S

DirtyOnEntry(b) == \A S \in SUBSET Block : SpreadsDirt(S) => b \in S

\* No VZEROUPPER is inserted unless some path reaches it with YMM/ZMM touched
\* and not cleaned since: the two visits of a block add no needless guard.
NoNeedlessGuard ==
    \A p \in guards : \/ DirtyAt(p[1], p[2])
                      \/ UntouchedAt(p[1], p[2]) /\ DirtyOnEntry(p[1])

\* AddedToDirtySuccessors keeps a block from being revisited, so that no two
\* VZEROUPPERs are ever inserted before the same instruction.
OneGuardPerPlace == NumVZU = Cardinality(guards)

\* A VZEROUPPER is only inserted where it destroys no live YMM/ZMM value:
\* before a call that clobbers them all anyway, or a return, that names none.
GuardDestroysNothing ==
    \A p \in guards :
        LET mi == Code(p[1])[p[2]]
        IN /\ ~mi.ymm /\ (mi.isCall \/ mi.isReturn)
           /\ mi.isCall => mi.regMask = "all"
=============================================================================
