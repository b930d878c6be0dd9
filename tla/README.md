# Verification of late code-generation passes of the LLVM targets

The repository is `llvm/lib/Target`: the back ends of LLVM, one directory per
processor. Most of it is data (instruction descriptions, encodings) or local
rewriting. Its hard part, for a test suite, is where **the compiler's bookkeeping
has to agree with a machine it does not see**: a pass walks a control-flow graph
once, in some order, and what it inserts or leaves out has to be right on every path
the processor takes afterwards, while other processors and memory units act on their
own. These modules model such passes together with the machine that runs their
result, and state what must hold of the two together.

## 1. Inventory

| Part | Source | State | Operations | What makes it correct |
| --- | --- | --- | --- | --- |
| X86 vzeroupper insertion | `X86/X86VZeroUpper.cpp` | per block: exit state, first unguarded call, added flag; a worklist | scan of a block, seeding, worklist turn | every transfer that may run SSE code starts clean on every path; nothing live destroyed; termination |
| RISC-V atomic expansion | `RISCV/RISCVExpandAtomicPseudoInsts.cpp`, operands from `RISCV/RISCVISelLowering.cpp` | none in the compiler; registers, a shared word, reservations at run time | one LR/SC loop shape per pseudo | each expansion is one atomic IR operation, under races and spurious failures |
| LoongArch atomic expansion | `LoongArch/LoongArchExpandAtomicPseudoInsts.cpp`, `LoongArchISelLowering.cpp` | as above | as above, written separately | as above |
| Memory ordering of atomics | the same files | aq/rl bits, fences, `dbar` hints | tables per ordering and per Ztso | IR orderings hold on a weak memory |
| AMDGPU wait counts | `AMDGPU/SIInsertWaitcnts.cpp` | score brackets per block, pending events, per-register scores | event, wait, merge, fix-point | no register is read or overwritten before its memory operation is done |
| AMDGPU mode register | `AMDGPU/SIModeRegister.cpp` | required/changed mode per block | three data-flow phases | the mode holds at each instruction that needs it |
| RISC-V vsetvli, VXRM | `RISCV/RISCVInsertVSETVLI.cpp`, `RISCVInsertWriteVXRM.cpp` | demanded and available VL/VTYPE per block | needs, incoming state, emission, coalescing | every vector instruction executes under the VL/VTYPE it was selected for |
| MSP430 branch relaxation | `MSP430/MSP430BranchSelector.cpp` | blocks, layout, successor lists, block offsets | measure, scan, split a block, lengthen a branch, repeat | every branch left short reaches in the assembled code; control flow is kept; the loop ends |
| Other branch relaxation | `PowerPC/PPCBranchSelector.cpp`, `SystemZ/SystemZLongBranch.cpp` | block offsets, sizes | relax until nothing changes | every branch reaches; the loop ends |
| x87 stackifier | `X86/X86FloatingPoint.cpp` | stack order, live mask, fixed order per edge bundle | push, pop, exchange, adjust at block ends | blocks that meet agree on the stack |
| Dynamic alloca probing | `X86/X86DynAllocaExpander.cpp` | offset from the last touched page per block | classify, lower | no page is skipped |
| Other atomic loops | `PowerPC/PPCExpandAtomicPseudoInsts.cpp`, AArch64, ARM, Mips expanders | as RISC-V | as RISC-V | as RISC-V |
| Instruction selection, register and frame info, assemblers, encoders, C bindings | all targets | tables | conversions | not behaviours; out of scope |

Parts interact in two ways. In the compiler, each pass takes a machine function and
leaves one: there are no threads, callbacks or persistent state in it, so no crash
or message hazard exists there. At run time the *output* of the passes is concurrent
code: the harts share memory, lose reservations at any time, and wait for counters
that other units decrement. The hazards in `PROJECT.json` are of these two kinds:
facts learnt too late in a traversal (stale or merged block states, worklists), and
interleavings of the emitted code.

## 2. Modules

| Module | Content |
| --- | --- |
| `VZeroUpper` | the pass of `X86VZeroUpper.cpp` and then the execution of its output |
| `VZeroUpperMC` | every small function as an instance; termination |
| `VZeroUpperProofs` | theorems about it |
| `AtomicObject` | the abstract specification: each call takes effect in one step between invocation and return |
| `AtomicWord` | registers and words as sets of bits, their instructions, and the IR's `atomicrmw` and `cmpxchg` on a part of a word |
| `LLSC` | harts with registers, one shared word, load-linked/store-conditional, foreign stores |
| `RISCVExpandAtomicPseudo` | the RISC-V loops over `LLSC` |
| `RISCVAtomicsMC`, `RISCVAtomicsProofs` | its instances and its theorems |
| `AtomicWordProofs` | theorems about the numbers registers hold, shared by both expansions |
| `MSP430BranchSelector`, `MSP430BranchSelectorMC`, `MSP430BranchSelectorProofs` | the pass of `MSP430BranchSelector.cpp` and the assembled result, its instances and its theorems |
| `LoongArchExpandAtomicPseudo`, `LoongArchAtomicsMC`, `LoongArchAtomicsProofs` | the LoongArch loops, their instances and theorems |
| `WaitcntBrackets` | the class of that name of `SIInsertWaitcnts.cpp`: scores, pending events, waits and merges |
| `SIInsertWaitcnts`, `SIInsertWaitcntsMC` | the pass, the wave that runs its result, and its instances |
| `SIInsertWaitcntsProofs`, `SIWaitcntCoverProofs` | theorems about the brackets of the pass; about what they know of the wave |
| `VSETVLIInfo` | the classes `VSETVLIInfo` and `DemandedFields` of `RISCVInsertVSETVLI.cpp` |
| `RISCVInsertVSETVLI`, `RISCVInsertVSETVLIMC` | the pass, the hart that runs its result, and its instances |
| `RISCVInsertVSETVLIProofs` | theorems about that lattice, about the data flow of the pass, and about the types the hart finds |

`AtomicWord` is extended by `LLSC`, which is extended by both expansions; each
instantiates `AtomicObject` under the name `IR`, with the refinement mapping below.
`SIInsertWaitcnts` extends `WaitcntBrackets` and `RISCVInsertVSETVLI` extends `VSETVLIInfo`: the
second module of each pair is the lattice, the first the walk over the graph that uses it.

### 2.1 X86 vzeroupper insertion

`phase` follows `runOnMachineFunction`: `check` is the early return when no YMM/ZMM
register is used, `scan` the loop over the blocks, `seed` the live-in case, `drain`
the worklist loop. `CurState`, `ExitState`, `FirstUnguardedCall`, `Added` and
`DirtySuccessors` are the variables of the code with their names. One action is one
iteration of a loop of the code: an instruction of `processBasicBlock` (`ScanSkips`,
`ScanVZero`, `ScanYmm`, `ScanTransfer`), the end of it (`ScanBlockEnd`), a turn of the
worklist loop (`Drain`). The order in which the successors of a block are pushed is
the order of a list the model does not keep, so `addDirtySuccessors` takes any.
Instructions are reduced to what the pass asks of them: call, return, VZERO*, an operand in
YMM/ZMM, and what the RegMask says.

When the pass is done, `phase = "run"`: `Execute` and `Branch` follow any path of the
graph with `upper`, the processor's state of the upper halves. An instruction with a
YMM/ZMM operand may leave them clean or dirty; a VZEROUPPER inserted before a place
cleans them there. A callee under the standard convention is assumed to keep the same
contract (entered clean, it returns clean unless it returns such a value). Helpers
without a RegMask, which the pass leaves alone because they follow no standard convention
(lines 238-244), are not counted among the transfers that may reach SSE code.

### 2.2 RISC-V and LoongArch atomic expansions

A call of a hart is a record: the operation, whether it is masked, the shift of its
part, the operands, and (RISC-V) whether a branch on the result was folded into the
expansion. `Entry` is `expandMI`: the block in which the code emitted for that pseudo
starts. One action is one basic block of the emitted code, cut between the LR and the SC
of a block that holds both, so that other harts can act between them.

A register is a set of bit positions and arithmetic is done on the full register
width: sign-extension of LR.W, shifts that drop bits, `addw`-like forms and the operands
`emitMasked...Intrinsic` prepares are modelled bit by bit, for any register, word and
part width. They are not the identity, and most of the single-hart mutants live here.

`LLSC` gives the machine: `LoadLinked` takes a reservation; every store to the word, of
a hart or of another agent (`ForeignStore`), takes all reservations away;
`LoseReservation` does so for no reason. The model has one shared word, so a
reservation cannot be lost to a store elsewhere except as `LoseReservation`.
AMO instructions (the and/or that replaces an exchange with a constant 0 or -1) are single
steps; LA32 has none and uses a loop.

**Refinement.** `Status` maps `pc` to idle, pending and done; `Replies` is what the program
learns: the old value extracted from DestReg and, for a cmpxchg, success, computed by
the program's own comparison or known from the block a folded branch led to. A call
takes effect at its successful SC, and a failing cmpxchg at the LR that did not match.
`ImplementsIR` is `AtomicObject!Spec` under this mapping, with `IREffect` and `IRReply`
(the IR's own definition, on numbers) as its effect and reply. Violating it takes a lost
update, a double update, an overwritten neighbour, or a wrong result.

The fold (`tryToFoldBNEOnCmpXchgResult`) assigns the new target before its last check, so
a fold that is reported as failed, because an instruction follows the branch, still changes
the loop head's branch. The branch that is left is then never taken. Both cases
behave alike and both are `folded`.

### 2.3 MSP430 branch relaxation

`phase` follows `runOnMachineFunction`: `measure` is `measureFunction`, a turn of its loop being
`MeasureBlock`; `scan` is a call of `expandBranches`, `num` and `mi` the block and the branch its two
loops look at; `remeasure` is the measurement after a split. One action is one short branch
looked at: it is left (`SkipCond`, `SkipJump`), made long (`ExpandCond`, `ExpandJump`), or what
follows it is moved to a new block (`SplitBlock`). `EndMeasure`, `EndRemeasure` and `EndScan` are
what happens between measurements and scans. `BlockOffsets`, `TotalSize` and `MadeChange` are the variables of the code;
`MBBStartOffset` is a function of the block and the branch and is written where it is used.

A block is a body of some size, at most one JCC and at most one jump, the shape
`analyzeBranch` accepts and the passes before leave. Block numbers are positions in the layout; a block keeps
its identity when others are inserted. Sizes are in words. When the pass is done, `PlaceBlock`
puts the blocks one after the other as the assembler does, with the real size of each body: inline
assembly is measured by an upper bound (`getInstSizeInBytes`), so real distances may be shorter.
`SameTargets` compares, for both values of each condition, where the input goes with where
the code goes, at every step of the pass.

Assumed of the input: a JCC and the jump after it have different targets (equal ones are folded by the
branch folder of the code generator; here they would leave a split block without its layout
successor and the assertion of line 185 would fail), no RET follows a JCC in
a block, and blocks are not padded, as the target asks for no block alignment.

### 2.4 AMDGPU wait-count insertion

A wave issues memory operations that complete later, and must wait, by counter, before it touches a register
or a memory location an operation in flight still uses. `WaitcntBrackets` is the pass's knowledge at one place:
for each counter (`InstCounterType`) the range of scores that may be pending, the events pending, and
for each register the score of the last operation that writes or holds it. `updateByEvent`, `determineWait`,
`simplifyWaitcnt`, `applyWaitcnt` and `merge` are the methods of those names, for every generation the source tells apart.

In `SIInsertWaitcnts`, `Incoming` and `Dirty` are `BlockInfo`, `Hard` and `Soft` the waits in the code before each place.
`StartBlock` takes the next dirty block of the reverse post order; `VisitInstruction` is a turn of the loop of
`insertWaitcntInBlock` (`generateWaitcntInstBefore`, `generateWaitcnt` with the preexisting waits,
`updateEventWaitcntAfter`); `EndBlock` is the flush at the end of a preheader and the merge into the
successors; `RepeatRound` the `do ... while (Repeat)`. Waits are encoded as the target does: before gfx12 the
counters of one instruction are capped together (`Encoded`), and the export counter that a VINTERP instruction holds is
the EXP_CNT of `Hard`. `shouldFlushVmCnt`, which guesses whether a flush is worth it, is left open: both answers are
taken (`FlushChoices`).

When the pass is done the wave runs: `Issue` puts the operations of an instruction into `queue`, `Complete` takes any
out that its counter allows (operations of one kind in order, scalar reads and mixed FLAT operations out of
order), `Call` and `Leave` hand over what the calling convention leaves pending. `LeftPending` is the set of instructions
whose operations a caller may leave in flight where a called function starts, and a callee, if they are stores, where it returns.

The safety properties of the wave compare an instruction that is ready with all the operations in flight, and are written from what the
hardware does, not from scores: `ResultsArrived` (what it reads has been written), `OperandsRead` (what it writes has been read, EXEC
included), `WritesOrdered` (what it writes is not written later by an older load), `MemoryOrdered` (scalar loads before a store to their
address, DMA stores to LDS before an access to their object), `ReturnsDrained` (a return leaves stores only). `IncomingCoversEvents` and
`IncomingCoversRegisters` compare the brackets at the start of a block with the queue where the wave enters it (`EntersBusy`).

What DMA writes to LDS arrives in no register, so the brackets keep it in slots of their own: a general one, and one for each
object that the code has told apart so far (`LDSDMAStores`). Every store to LDS takes part, of a DS instruction as well as by DMA
(`mayWriteLds`, `accessEvent`): it marks the general slot and that of its object, and gets a new slot for an object without one
while there is any (`dmaSlot`, `recordDmaStore`). DS stores therefore use up the slots of later DMA stores, and in the instance they do.
An access looks at the slots of its object, or at the general one if it has none (`dmaSlotsOf`).

Of instructions the model assumes what their descriptions say (`Sensible`): loads and LDS instructions write VGPRs, scalar
loads and messages SGPRs, exports and GDS instructions hold VGPRs, stores, exports and the end of the program write nothing.
VGPRs and SGPRs are different registers (`RegistersAssumption`). GDS instructions access no LDS object, and a store to LDS
has one memory operand there (a DS instruction that stores to two objects is left out). A FLAT instruction without memory operands
has all address spaces, as one with an operand in FLAT. `lds` holds the objects known by alias scope: an operand without one, or in FLAT, has
no object, so what is accessed through it is not what `MemoryOrdered` speaks of.

The passing instance leaves out what `PROJECT.json` names as hazards where a property does not hold: more exports of mixed
kinds in a row than the counter holds (:393, `OperandsRead`); stores to LDS recorded in different orders by two predecessors
(:2139, `MemoryOrdered`); a sampling image instruction that overwrites the register of a FLAT load (:914, `WritesOrdered`); before
gfx10, a FLAT load carried around a loop into more loads than the counter holds, before a wait encoded with the maximum for
them (:1103, `ResultsArrived`); scalar loads of one address in two blocks that lead to different stores to it, and stores in two
blocks of an irreducible loop after a load (:1729, `MemoryOrdered`). Stores to scratch never reach an exit that is visited before
them, which one of the violation runs is about. Soft waits occur in it, but that they are kept is asked in the other only.

### 2.5 RISC-V vsetvli insertion

`VSETVLIInfo` has the lattice (uninitialized, unknown, an AVL with a full VTYPE or with its ratio only),
`isCompatible`, `intersect` (`operator==` is `SameInfo`), what instructions depend on (`DemandedFields`), and `changedFor`, the
body of `transferBefore`. An AVL register is a value of LiveIntervals: the register and the place of its definition, where
`<<b, 0>>` is a phi of block `b`; without LiveIntervals (at -O0) it has no place. A value is defined before it is read, so that the
chain of vsets whose output VLs are one another's AVLs, which `forwardVSETVLIAVL` follows, ends, and an AVL register is a value that
the function defines (`WellFormed`). Before the pass no vset
keeps VL (the assertion "Can't handle X0, X0 vsetvli yet") and each type has a VLMAX of at least one, as a type without is illegal.

`phase` follows `runOnMachineFunction`: `collect` (phase 1), `incoming` (phase 2, a turn of the worklist per step), `pre`
(`doPRE`), `emit` (`emitVSETVLIs`) and `coalesce` (`coalesceVSETVLIs`), the last three one block per step. `Code` holds at each place
what the function says there and what is there now. Then the hart runs: `vl` and `vtype` are what vsets, fault-first loads and
callees leave in them, `regs` the scalar registers; `want` is a ghost, the registers by the
meaning of the function, in which every instruction asks for its own AVL and type. Where the ISA lets a hart choose VL
(between VLMAX and twice that) both rules are instances. `TypesMeet` says for each kind of instruction what of VTYPE its result depends on
and `OpsMeet` what of VL, and that no narrower float is moved under SEW 64 without f64 vectors, both from
the ISA rather than from `getDemanded`. `insertReadVL` is part of the step of a fault-first load, whose output is VL as the load leaves it.

Scalar registers are redefined only by definitions of the function, and a register's value is taken to be dead only if
nobody reads the register at all: dead flags of single definitions and the repair of live intervals are abstracted. What is not in
the passing instance:

- `riscv_vsetvli_pre`: when `doPRE` moves a vset to where its AVL register has been redefined, `insertVSETVLI` uses
  a copy of the old value, and the block then ends with an AVL that differs from the recorded one (finding below). The code
  computed is right, the assertion is not.
- `coalesceVSETVLIs` moves the output register of the later vset up to the earlier one (:1685-1722)
  without asking whether the register, still holding an older value, is read in between:
  `def y; insert; use y; y = vset; ...` violates `ValuesAgree`. The pass runs after register coalescing, which may join such values in one register. It
  is recorded as a hazard.
- `riscv_vsetvli_union`: on a target without vectors of 64-bit floats, an instruction that needs an SEW of at least its own but below 64
  (a move or splat of a float scalar) and one that needs the same without the limit stand between two vsets. `doUnion` (:262) takes
  the larger of the two demands, which is the one without the limit (finding below).

A fault-first load whose output is dead but whose VL an inserted vset would later need as AVL, under another ratio, is
outside the instance as well: `insertReadVL` (:1752) reads VL only for outputs that are not dead.

## 3. Runs

| Run | Instance | Shows |
| --- | --- | --- |
| `vzeroupper` | 2 blocks of up to 2 instructions of every kind, every graph, with and without live-ins, returns, tail calls, interrupt handlers; 3 blocks of at most 1 instruction, every graph | types, `NoDirtyTransfer` through pass-through chains and cycles, `NoNeedlessGuard`, `OneGuardPerPlace`, `GuardDestroysNothing`, `PassTerminates` |
| `riscv_data64` | 1 hart, 12-bit registers, 6-bit word, 2-bit parts, all calls and initial words | types, `PendingCallsComputeIR` |
| `riscv_race` | 2 harts, registers as wide as the word (RV32, or double words of RV64), a call of each loop shape on two parts of a 3-bit word and on the whole, foreign stores, fairness | `ImplementsIR`, `NeighboursKept`, `SomeCallCompletes` |
| `loongarch_data64` | the same for LA64; what is special to LA32 (loops for its exchanges) is covered by the theorems, which are for both | types, `PendingCallsComputeIR` |
| `loongarch_race` | the same races on 3-bit words in 6-bit registers | `ImplementsIR`, `SomeCallCompletes` |
| `msp430_three` | 3 blocks, each empty or with inline assembly of at most 3 and really 2 words, any branches; range -3..2 | types, `ShortBranchesReach`, `SameTargets`, `SuccessorsExact`, `NoNeedlessExpansion`, `PassTerminates` |
| `si_waitcnt` | some 14000 functions of 3 or 4 blocks on generations 6, 9, 10, 11 and 12, counters up to 3, 2 VGPRs, 2 SGPRs, 3 LDS objects with 2 slots for stores to them | types, `PendingMatchesRange`, `ResultsArrived`, `OperandsRead`, `WritesOrdered`, `MemoryOrdered`, `ReturnsDrained`, `ReleasedWithoutScratch`, `IncomingCoversEvents`, `IncomingCoversRegisters`, `PassTerminates` |
| `si_waitcnt_soft` (violated) | a loop with a store and a soft wait for stores | the soft wait is dropped at the first visit of its block: `SoftWaitsHonoured` fails |
| `si_waitcnt_release` (violated) | a loop whose exit is visited before its latch | the release of the VGPRs outlives the visit that justified it: `ReleasedWithoutScratch` fails |
| `riscv_vsetvli` | some 12000 functions of 1, 3 or 4 blocks on 2 scalar registers, AVLs 0 to 5, VLMAX 2 and 4, with and without LiveIntervals, an exact VLEN, f64 vectors | types, `TypesMeet`, `OpsMeet`, `ValuesAgree`, `KeepsVL`, `IncomingHolds`, `DataflowAgrees`, `PassTerminates` |
| `riscv_vsetvli_pre` (violated) | a preheader that redefines the AVL register of the vset hoisted into it | the assertion at the end of `emitVSETVLIs`, `DataflowAgrees`, fails |
| `riscv_vsetvli_union` (violated) | three instructions of one block, a float scalar move and an integer one before an instruction of SEW 64, no f64 vectors | the float scalar is moved under SEW 64: `FloatsBelow64` fails |

**Findings.** Four lines of the repository's own text that the code does not keep:
`applyPreexistingWaitcnt` drops soft waits its comment takes for required (`SIInsertWaitcnts.cpp:1229`); the release of
VGPRs at `S_ENDPGM` is kept when scratch stores are found pending later, against its comment (:1655); the assertion "InsertVSETVLI
dataflow invariant violated" (`RISCVInsertVSETVLI.cpp:1496`) fails after a hoisted vset that reads a copy; and `doUnion` makes of two demands that are not comparable the one without the upper limit (:262), so that
less is demanded than "both", as its comment says. The last came out of the attempt to prove that the demands of a block survive
the unions of `coalesceVSETVLIs`: that lemma is false for `SEWGreaterThanOrEqualAndLessThan64` and true for the rest. Each is one run of its own.

**Why the bounds are enough to be worth running.**

- vzeroupper. The decisions of the pass depend on the first and the last relevant instruction
  of a block and on the shape of the graph. Two instructions give every pair
  (dirty then call, call then dirty, clean then dirty ...); three blocks give joins, a
  pass-through block between a dirty one and a call, self-loops and cycles. The theorem
  `GuardedTransfers` removes the bound.
- Data runs. A word of three parts has a bottom, a middle and a top part; the top one is
  where sign-extension matters. Two-bit parts have positive, negative and extreme
  values. All operands of masked operations are offered; those of unmasked ones are the
  edges of the signed and the unsigned range. Registers of twice the word give the RV64/LA64
  word forms; `SextShamt` modulo the word width needs register width a multiple of it.
  With one hart and no foreign store, `ImplementsIR` follows from what these runs check by the theorem `Refinement`, and is not checked again.
- Race runs. Two harts and a foreign writer produce every way a reservation can be lost
  between two blocks; the word and its parts are as small as the merge allows; the calls cover all loop shapes, same-part and
  neighbouring-part conflicts, a maximum that changes its part or leaves it, and a cmpxchg whose comparison another hart can make true
  or false. `NeighboursKept` is about the hart's own steps, so it also holds, and is
  broken by a mutant, with foreign stores present.
- Branch relaxation. The range is scaled down with the sizes. Three blocks with up to two branches each
  give forward, backward and self branches, chains in which one expansion pushes a second and a
  third out of range, splits before and after expansions, and functions on both sides of the early
  return. `BranchesReach` removes the bound for the main property.
- Wait counts. What a wait has to be depends on the operations since the last wait, at most a counter's maximum of them, and on the
  paths that meet. Three instructions on a loop, a join or a preheader (four blocks on a loop left from its head) give
  each pair of operations of the same counter across each kind of edge, and the families combine those kinds that share
  counters, registers or memory. Counters are scaled down to 3, so that a wave can reach their limits, and the 8 slots for stores to LDS to 2, so
  that two DS stores leave none to a DMA store in the same loop.
- vsetvli. Each family is a shape of graph and, at each place, the instructions that differ in what they demand there: equal
  and different AVLs, equal VLMAX with another SEW, output VLs and AVLs of immediates,
  instructions that depend on one field only. An AVL of 5 lies between VLMAX and twice VLMAX for the types used, where the hart has a choice.
  Probes confirmed that hoisting, ratio-only states, the phi case, deleted and merged vsets and removed immediates all occur.

`vzeroupper` and `msp430_three` switch deadlock checking off because an execution ends at a return, or
at a block without successors, and the pass at the assembled function. All other runs check it; `si_waitcnt` and
`riscv_vsetvli` have a step `Ended` for a wave or hart that has returned, so that any other stop is an error.

**Fairness.** `PassTerminates`, of all four passes, assumes weak fairness of the pass: it is a sequential program,
nothing else runs in its process. In `SIInsertWaitcnts` and `RISCVInsertVSETVLI` it is written as "the pass is over, or takes a step, again and
again", which is the same where the pass always has a step, as the deadlock check shows, and much cheaper to check. `SomeCallCompletes` assumes that each hart keeps executing
(weak fairness of its steps) and that, if again and again some hart holds a reservation on
its way to the SC, then again and again some SC succeeds: the guarantee the ISA gives to
*constrained* LR/SC loops, and the reason the code keeps floating point out of them
(`RISCVISelLowering.cpp:20955`). Individual calls may starve, so the property is that some call
completes. The guarantee does not extend to an agent that writes for ever, so the property is
conditional on foreign stores coming to an end.

## 4. Theorems

All of them hold for every value of the constants that satisfies the named assumptions of
the modules; TLC evaluates those assumptions in every run.

**`VZeroUpperProofs`.** Assumptions: the function has at least one block and is well-typed.

- `TypeCorrect`: `Spec => []TypeOK`.
- `Invariance`: `Spec => []IInv`. `NoDirtyTransfer` is about the machine and is not inductive: why a
  transfer is clean was decided long before. `IInv` carries the reasons: `ScanInv` says that
  `CurState` is what the scanned prefix of the block implies; `TransferInv` that a scanned transfer
  is guarded if it is dirty in its own block and remembered if nothing precedes it; `BlockInv` that
  the successors of a dirty block are in `Added` and a block that touches nothing is
  pass-through; `WorkInv` that an added block is on the worklist or has been visited, that
  is, its first transfer is guarded and, if pass-through, its successors are added; `RunInv` that
  halves are dirty at a place only if its block dirtied them or was entered dirty and is added.
- `GuardedTransfers`: `Spec => []NoDirtyTransfer`, from `IInv`.
- `GuardedOnce`: `Spec => []OneGuardPerPlace`. Places are guarded by the scan and by the worklist, which ask different
  questions. `OnceInv` keeps them apart: no block is on the worklist twice and all on it are in `Added` (`ListInv`);
  the first unguarded call is a transfer with nothing before it (`FirstInv`); a guarded place has nothing before it only if its
  block has left the worklist for good, and is behind the scan (`GuardInv`, which also counts the guards).
- `GuardsAreHarmless`: `Spec => []GuardDestroysNothing`, from `GuardInv`: a guarded place is a transfer that names no YMM/ZMM register.
- `GuardsAreNeeded`: `Spec => []NoNeedlessGuard`: every VZEROUPPER stands where some path arrives dirty. `DirtyOnEntry(b)` is the
  existence of a path of pass-through blocks from a dirty one, of any length. `NeedInv` says that the blocks in
  `Added` are such blocks, that the scan's `EXITS_DIRTY` is the truth about the prefix of the block, and that
  `PASS_THROUGH` is said of blocks that touch nothing only.

**`RISCVAtomicsProofs`.** Assumptions: the widths are natural numbers with
part < word <= register; the calls are ones `expandMI` expands; foreign stores leave words.

- `TypeCorrect`: `Spec => []TypeOK`.
- `Invariance`: `Spec => [](TypeOK /\ LoopInv)`. `LoopInv` says that a call is in a block of its own
  expansion, that DestReg is the current word while a reservation is held between LR and SC
  (`ReservationInv`), and what the scratch register is as a function of DestReg (`ValueInv`).
- `NeighboursAreKept`: `Spec => NeighboursKept`: whatever the widths and the number of harts, a
  masked operation changes only its part. It is proved from the bits of the masked merge.
- `ExpansionsCompute`: `ComputesIR`, and with it `PendingCallsCompute`: `Spec => []PendingCallsComputeIR`. The sequential half: for every
  width of registers, words and parts, every call and every word, an undisturbed pass over the expansion stores what the IR operation stores and
  returns what it returns. `EffectKeeps` says that it keeps the bits outside the part, so (`WithPartUnique`) only the number it leaves inside is
  open: `BinOpNumber` (the carries into and out of the part do not matter, as nothing of the operand lies below it), `NoChangeIs` (comparing
  sign-extended words, with the part at its place and zeros below, is comparing the parts, signed or not), `CmpXchgNumber` (the masked word and the
  expected value are sign-extended alike, so they are equal when the parts are) and `AMONumber`.
- `Refinement`: `Spec => ImplementsIR`. The concurrency half, for any number of harts and any foreign stores: a successful SC stores what was
  computed from the word it replaces, and by `ExpansionsCompute` that is the IR's operation. No hypothesis is left.

**`AtomicWordProofs`.** The arithmetic both expansions rest on; its assumption is that of the widths. `Uns` is the sum of the powers of two of a set and
`Bits` its inverse. What needs induction is proved by it on a *set* (`NatSet`: a subset of Nat with 0 and closed under successor is Nat;
`Least`: from `WellFoundedInduction`, which the library proves for sets too), since the induction theorems over an operator cannot be used:
powers (`PowNext`, `PowAdd`), that the sum exists and unfolds bit by bit (`SumExists`, `UnsBit`), the bound of a sum (`UnsBound`), and that each number
has its bits (`UnsOfBits`). From there a register is split at a part, `Uns[r] = low + 2^k * (part + 2^n * high)` (`UnsSplit`), and each instruction
is followed on that: `AddPart` for sums and differences with carries and wrap-around, `AndPart`, `OrPart`, `XorPart`, `NandPart`, the shift pairs that sign-extend
(`SextSra`, and `SextSraW` for the 32-bit forms, whose amount is taken modulo the word), and the comparisons (`CompareUnsigned`, `CompareSigned`).

**`LoongArchAtomicsProofs`.** Assumptions: as above, and that a subtarget without 64-bit registers has words as wide
as registers (`SubtargetAssumption`).

- `TypeCorrect`: `Spec => []TypeOK`. The types are not inductive: that a loop leaves a register in the scratch register is so
  only for the calls that can be in it. LA64 uses AMO instructions where LA32 loops, and the loop's result is a register
  because the operand of LA32 is as wide as one. So `TypeOK` is proved together with `LoopInv`.
- `ExpansionsCompute` and `PendingCallsCompute`, as for RISC-V. Different here are the andn and or of a cmpxchg (`AndnWord`), the loop of LA32 for an
  exchange with a constant, which stores what the AMO of LA64 would (`ConstXchgWord`), the unmasked loops of LA32, and `sll.w` and `sra.w`, which take the
  shift amount modulo 32 though it is computed from the width of a register: `SextOfPart` needs that this width is a multiple of the word's.
- `Refinement`: `Spec => ImplementsIR`, with the argument of the RISC-V proof. New is the block of the barrier after a
  failed cmpxchg: there the call has taken effect at its LL, and has not returned.

**`MSP430BranchSelectorProofs`.** Assumptions: the range is more than the 2 words a long sequence skips; functions
are well-formed, of any number of blocks and any sizes.

- `TypeCorrect`: `Spec => []TypeOK`, with the invariant that the last block of the layout does not fall through.
- `BranchesReach`: `Spec => []ShortBranchesReach`. The property is about addresses that exist only at
  the end. `ReachInv` links them to what the scans saw: `OffsetsApart`, measured blocks do not overlap, whatever
  has grown; `ScannedReaches`, what a scan that changed nothing so far has passed is in range by the
  offsets, and so is everything at the end, also after the early return; `PlacedWithin`, placed
  blocks are no farther apart than measured ones. Distances to either side can then only shrink.
- `FlowPreserved`: `Spec => []SameTargets`, and `SuccessorsCorrect`: `Spec => []SuccessorsExact`. Both follow from `FlowInv`.
  Neither is inductive alone. An expansion reverses a condition and makes what was the fall-through the target, so `FlowShape` says what the
  two branches of a block can be at each stage and that they differ; `SameBranches` says of each block of the
  input which branches it has now, its own or those of the block that a split made behind it.
- `ExpansionNeeded`: `ShortInput => (Spec => []NoNeedlessExpansion)`. A branch made long was out of reach by the offsets of that moment,
  and blocks are split and grow afterwards. `AllFar` says that it still is, by the sizes of now: what lies between a
  branch and its target never shrinks. `OffsetsExact` links offsets to sizes, also while the function is measured
  again after a split, when offsets behind the split are those of the old positions (`Offset`). `ShortInput` says that no function has a
  `Bi` before the pass; the only other one is an indirect branch to a block address, which the property would count as one made long.

**`SIInsertWaitcntsProofs`.** Assumptions: counters hold at least 1 (`LimitsAssumption`), generations and the number of
slots for stores to LDS are natural numbers (`GenerationsAssumption`, `SlotsAssumption`), functions are well-formed
(`FunctionsAssumption`).

- `TypeCorrect`: `Spec => []TypeOK`. Beside the types of the variables (`VariableTypes`: scores stay natural numbers through the
  alignment of a merge and the moves of the bounds) it says that brackets never tell more stores to LDS apart than there are slots, whatever
  paths recorded them (`SlotsSuffice`), and that the place looked at is in the code or, in the pass, between two blocks (`InCode`).
- `PendingEventsMatch`: `Spec => []PendingMatchesRange`, for functions of any size on any generation: the sets of pending
  events and the ranges of scores are updated by different code in every operation, and a wait that clears one and not the other
  would make all later waits too weak or the pass abort. `IInv` adds to the types that each bracket the pass holds (`BracketOK`) is
  of the function's generation, has no more stores to LDS than slots and no lower bound above its upper bound, and, of each counter the target
  has, events pending exactly where the range is not empty; one lemma for each operation on brackets says that it keeps this.
  `Located` says that the place looked at is one.

**`SIWaitcntCoverProofs`.** The same assumptions, and `LeftPendingAssumption` (what callers leave pending are
instructions) and `RegistersAssumption`. These theorems are about the pass and the wave together.

*The certificate.* The wave runs code that the pass wrote at different times: the waits of a block are those of its last visit, with
brackets that are gone when the pass ends. `CoverInv` says that there are brackets `C` and waits `W`, one for each place,
that certify the code (`Cert`): for each block whose last visit counts (`Settled`), `Hard` holds the encoding of `W`, `W` asks for
what the instruction needs by `C` (`Strong`), the brackets of the next place are what the update of the pass makes of them (`Done`), those at
the end are covered by those of each successor (`Left`), and the block was entered with what it would be entered with now (`Entered`).
`Covers(B, A)` says that B has the events and the registers pending that A has, no farther back. `Entered` needs it both ways:
`merge` reports no change when the new brackets are covered, and moves the scores all the same. A visit gives the certificate of
its block; the others keep theirs because a join that changes a block makes it dirty (`PassOK`: and then there
is another round). The lemmas `...View`, `MergeCovers` and `GeneratedStrong` say what the operations on brackets and the combination of required,
preexisting and simplified waits do to this. When the wave steps, its queue is compared with `C[at]`; what the caller of a function left
pending, and the wait at its start ends, is excused at that place (`Excused`).

- `EventsCovered`: `Spec => []IncomingCoversEvents`, and `ReturnsAreDrained`: `Spec => []ReturnsDrained`, for all functions, from `CoverInv`:
  the event of each operation in flight is pending in `C[at]`.
- `ResultsArrive`: `Spec => []ResultsArrived`, `OperandsAreRead`: `Spec => []OperandsRead`, `WritesAreOrdered`: `Spec => []WritesOrdered`,
  and `RegistersCovered`: `Spec => []IncomingCoversRegisters`. `TraceInv` adds to `CoverInv` that each register of an operation in flight has a score in
  `C[at]` that is no farther from the upper bound than the number of operations of its counter issued later, or the counter is out of order
  (`Traces`). Each wait, encoded or not, each update up to the counter's limit, each end of an operation in an order the counter
  allows, and each branch keeps that (`AllWaited`, `IssueTraced`, `CompleteTraced`, `BranchTraced`); a wait
  of what `determineWait` says then leaves the operation no room in the queue (`TracesAwaited`). A second write of a register waits for nothing where both are vector-memory
  reads of the one type the brackets know of it; for that `Covers` compares types as well, and `TypesNow`, the last part of `TraceInv`, says
  that the type of each such read in flight is known in `C[at]` of each register it writes (`IssueTypes`, `CompleteTypes`), FLAT loads apart.

  They have hypotheses on the functions, without which they are false in the model and which the hazards :393 and :1103 explain. `ExportsAlike`: the
  exports, locks and loads by the export path of a function are of one kind, since the lower bound of that counter rises with
  the number in flight, as if the oldest had ended. `FlatInOrder`: accesses that go to memory and LDS at once end in order with the others
  (gfx10 and later), or there are none. `OperandsAreRead` needs the first, `ResultsArrive` the second, and the first where a load by the
  export path occurs; `RegistersCovered` needs both, and `WritesAreOrdered` what
  `ResultsArrive` does and `TypesAlike`: the type of a FLAT load, which the pass does not record (:914), is that of all the reads it does
  record, or reads of one type do not write in order. Functions without FLAT loads are among those. The run has functions of both kinds and others, on which TLC finds no violation.
- `ReleasesAreSafe`: `Spec => []ReleasedWithoutScratch` for functions without loops (`Forward`: in reverse post order all edges lead forward) whose
  `S_ENDPGM` ends its block. With a loop it is false, as the run `si_waitcnt_release` shows. Without one each block is visited once, and after all that
  lead to it (`OneRound`: the blocks to be visited are those behind the present one, and no round is repeated), so what the visit that decided on
  the release saw is what is certified at the end (`Released`), and by `CoverInv` no store to scratch that it did not see is in flight.
- `ScalarLoadsAreRead`: `Spec => []ScalarReadsDone`, the first half of `MemoryOrdered`, for functions without loops in which a store that post-dominates
  one block with a load of its address post-dominates the others with such a load that come no later (`LoadsMeet`; it holds wherever an address is
  loaded in one block only). The second hypothesis is a finding of the proof: `SLoadAddresses` keeps one block for an address, so a store that post-dominates the first
  of two loads drops both, and a store on another path from the second does not wait. `LoadInv` adds to the above a set of places of stores that wait for
  scalar loads: of every store visited, that it is one of them or that from each load before it there is one that cannot be gone around (`StoresWait`);
  of every load in flight, that the wave has passed none of them since, and that any block it has skipped or has still ahead can be gone around (`ComesFrom`). In
  a function without loops a block that post-dominates cannot be (`NoWayRound`).

**`RISCVInsertVSETVLIProofs`.** First about the lattice, for all of its states (`IsInfo`) and demanded fields; no module assumptions.

- `JoinCovers`: a state joined from two (`intersect`) claims nothing that either does not: `Covers` compares AVL, VLMAX and, unless only
  the ratio is known, the type.
- `JoinAscends`: what a state becomes by a join is the same to `operator==` or of a higher `Rank` (uninitialized, full, ratio only,
  unknown). The state at the start of a block therefore changes three times at most, whatever its predecessors' exits do: exits are not
  monotone in entries, so it is not obvious.
- `TransferServes`: the state after `transferBefore` is, as its comment says (:1208), legal for the instruction: the state before is kept
  only if compatible, and otherwise changed as far as the demands go; the adjusted LMUL, the AVL kept because both are known to be zero or
  both not, and the type taken whole from a ratio-only state are the cases. It is about AVLs with LiveIntervals, and about demands that
  include the ratio where they include VL, as those of `getDemanded` do.

Then about the pass, for functions of any number of blocks and instructions; assumption: functions are well-formed (`FunctionsAssumption`).
The first three are about the data flow, before code is emitted and, for what the data flow recorded, ever after.

- `DataflowIsSolved`: `Spec => []DataflowSolved`. Once the worklist is empty, no block is taken to start with more than each of its
  predecessors ends with, the entry starts with nothing known, and each block that is reached has a state. It still holds after each
  `doPRE`, which replaces the end of a predecessor: the new end has to be covered by the starts of *all* of its successors, which is why
  `canPRE` asks for one successor only.
- `ExitsAgreeAlways`: `Spec => []ExitsAgree`. The recorded end of a block is, up to `operator==`, what its code makes of its recorded start.
  `computeIncomingVLVTYPE` returns early where the start or the end did not change, so old and new are mixed.
- `WorklistDrainsAlways`: `Spec => WorklistDrains`. Each step of the worklist makes `Variant` smaller: the steps of `Rank` that starts of
  blocks are away from saying nothing, times one more than the number of blocks, plus the length of the queue. With a turn of the worklist always possible
  until it is empty (`PassTerminates` on the run) phase 2 ends on every function.

`FlowInv` is the invariant. That starts are solved is not inductive: it is so of the blocks that are not in the queue, and for the others to
be solved when they leave it, ends must be what the starts lead to (`ExitAgrees`), up to `operator==`. `Covers` has to be transitive along
`operator==` (`SameCovers`, `CoversTransitive`), for which AVLs are compared kind by kind (`LatticeTransitive`: register, definition and copy; number; VLMAX); and the queue has each block once (`Queue`), or its length is not bounded.
The second `\/` of `FlowDone` is about functions without vector instructions, whose data flow is never computed.

*Recursion.* What a block does to a state (`computeVLVTYPEChanges`) and what its predecessors join to (`incomingInfo`) are folds, and the AVL a vset
forwards (`forwardVSETVLIAVL`) is a recursive function on the places of vsets. In TLA+ such a function is a CHOOSE: before
anything can be said of its values it must be shown that its equation has a solution. `FoldSolution` does that for folds over finite sets and
`ChainSolution` for a walk along a chain without circles, both by a minimal counterexample, which is a *set*, as in `AtomicWordProofs`; `FoldWithin` then says that what each
step of a fold keeps, the fold keeps.

The others are about the code that comes out and the hart that runs it; VTYPE is followed to the end, VL is not.

- `TypesMeetAlways`: `Spec => []TypesMeet`. On every path through the code made of any function, each vector instruction finds in VTYPE the type
  it asked for, or one its result cannot tell from it: the whole of the pass for the half of its work that is about types.
- `KeepsVLAlways`: `Spec => []KeepsVL`. A vset that keeps VL is executed only where VLMAX stays, also after coalescing.
- `IncomingTypesHoldAlways`: `Spec => []IncomingTypesHold`, the VTYPE half of `IncomingHolds`: what the data flow recorded is so on the hart.
- `TypeCorrect`: `Spec => []TypeOK`.

*The argument.* The places of a block are given sets of types. `Passes(x, X, Y)` says of a place that any type in X serves it (`Fits`: what
`getDemanded` asks of it) and that the type after it is in Y, and that it changes no VLMAX if it keeps VL; `Leads(code, X, Y)` that there are such
sets for each place of the code, from X to Y (`Path`). Sets, because what is known of VTYPE at a place may be its ratio only, or nothing. A block is
`Done` when its code leads from the types it may be entered with (`Entry`: any, for the entry; what is known at the end of a predecessor
otherwise) to those known at its end (`TypesOf(Exit[b])`). Then:

- Before emission the recorded end has the types that the code of the block leads to (`Agree`); that survives `doPRE`, whose condition that
  the block ends with the same state is what the proof needs (`PreSame`: the states converge and then stay alike to the end). `DataflowAgrees`
  itself does not survive it (finding :1496), as an AVL may change; the types do not.
- `EmittedLeads`: what `emitVSETVLIs` makes of a block is `Done`. While nothing in the block has changed VL or VTYPE (`prefix`), a vset may be left
  out at a join (`needVSETVLIPHI`), and the code still leads from `Entry` to `Entry`: the vset left out had the type all predecessors end with. The
  keeping form is only made where the state before has the VLMAX (`InsertedPlaced`).
- `CoalescedLeads`: `coalesceVSETVLIs` keeps `Leads`. It goes from the end of the block; `CoalInv` says that from the next vset on everything leads
  where it should, and that what lies between the present place and that vset tolerates (`Tolerates`) any type that meets the united
  demands. A deleted vset is by-passed (`Bypass`): what follows it to the next vset can do with the types before it, or with the type that the
  earlier vset is given. `RoughlyUnion` is the lemma on `doUnion`: it is true of every demand but `SEWGreaterThanOrEqualAndLessThan64`, for
  which it is false and was given up; hence `MeetsRoughly`, which leaves that upper limit out, and finding :262.
- Load immediates that disappear with their last use change no type (`ThinnedPlaced`), and in blocks not emitted yet no state (`ThinnedFresh`).
- `CodeInv` says which blocks agree and which are done in each phase, and `HartInv` that the hart is at a place of a path from `Entry`, with a type
  in the set of that place (`Underway`). It takes `Solved` to say that `Entry` is among the types known at the start (`EntryKnown`).

Only model-checked, and why:

- Termination and progress (`PassTerminates`, `SomeCallCompletes`): liveness under fairness is out of the prover's reach.
- `MemoryOrdered` and `SoftWaitsHonoured` do not hold for every function, as hazards and findings say. Of `MemoryOrdered` the half about
  scalar loads is proved under hypotheses; that about LDS depends on the order in which the paths of the whole graph record stores to LDS.
- Of the run `riscv_vsetvli`, what is about VL: `OpsMeet`, the VL half of `IncomingHolds`, and `ValuesAgree`. `ValuesAgree` does not hold for every
  function (the hazard of the moved output register), nor `OpsMeet` on targets without f64 vectors (finding :262), nor `DataflowAgrees`
  (finding :1496; `ExitsAgreeAlways` is what holds of it before `doPRE`, and `Agree` in the proof is what remains of it after). For VL to be
  right, registers must hold the values that the function's definitions give, which takes assumptions on live ranges (what `out` says of them,
  which definition reaches a read) that `WellFormed` does not make.

## 5. Not modelled in the parts above

- Memory orderings: aq/rl bits, fences, `dbar` hints. The shared word is one location, on which every
  ordering gives the same values; a litmus module is planned.
- The matcher of the BNE fold (which instructions may follow the cmpxchg). Its effect is modelled.
- Register allocation: the pseudos mark their results `@earlyclobber`, and each loop is modelled with
  distinct registers, as the assertions of `insertMaskedMerge` require.
- The experimental RV64 patterns in which i32 is a legal type.
- AMDGPU: the work-around for VCCZ, barriers, the precise-memory mode, waits for cache invalidation and the legacy geometry messages, the
  write-back after scalar stores, debug counters.
- vsetvli: the rounding-mode pass (`RISCVInsertWriteVXRM.cpp`), dead flags of single values, the upkeep of LiveIntervals.
- Whole parts listed in the inventory and not in section 2; `PROJECT.json` gives the reason for each. The repository has more than
  a million lines, most of them instruction selection, tables and encoders whose behaviour is one rewriting step at a time; the models cover
  the passes with state and control, so the share of all lines they cover is small and will stay so.

## 6. Plan

What is left, in the order of importance:

1. **Proofs**: the LDS half of `MemoryOrdered`, `ReleasedWithoutScratch` and the scalar half for graphs with loops, and the VL half of the vsetvli pass, for functions whose live ranges are described.
2. **RISC-V and LoongArch ordering**: the tables and fences on a store-buffer memory; litmus tests
   (message passing, store buffering) as instances. Abstract: orderings of the IR.
3. **VXRM insertion and `SIModeRegister`**, which share the data-flow shape of the vsetvli pass.
4. **More branch relaxation**: PowerPC with alignment padding that is only estimated while branches grow, and
   SystemZ, which shortens from the worst case.
5. **x87 stackifier, dynamic alloca probing, PowerPC quadword atomics** over `LLSC`.
