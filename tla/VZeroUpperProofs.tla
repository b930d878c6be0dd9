-------------------------- MODULE VZeroUpperProofs --------------------------
(***************************************************************************)
(* For every function, of any size: the code X86VZeroUpper.cpp produces    *)
(* never leaves the function with dirty upper halves.                      *)
(*                                                                         *)
(* The invariant follows the pass.  CurState says what the scan has seen   *)
(* of the block so far (ScanInv); every transfer scanned is guarded if the *)
(* block dirtied the halves before it, and is the block's first unguarded  *)
(* call if the block touched nothing before it (TransferInv); a block      *)
(* whose end is dirty has added its successors (BlockInv); and an added    *)
(* block is on the worklist until it has been visited (WorkInv).  The      *)
(* machine is then only dirty where the scan saw it, or in the untouched   *)
(* first part of an added block (RunInv).                                  *)
(*                                                                         *)
(* The guards themselves need more: a block is on the worklist once and    *)
(* for all (ListInv), and the scan guards a place before it passes it and  *)
(* the worklist only places that nothing precedes (OnceInv); blocks are    *)
(* added only if they can be entered dirty (NeedInv).                      *)
(***************************************************************************)
EXTENDS VZeroUpper, FiniteSetTheorems, TLAPS

\* The pass has looked at the instruction at <<b, i>>.
Scanned(b, i) ==
    \/ phase = "scan" /\ (b < at[1] \/ (b = at[1] /\ i < at[2]))
    \/ phase \in {"seed", "drain"}
    \/ phase = "run" /\ YmmOrZmmUsed

\* The pass has reached the end of block b.
BlockDone(b) ==
    \/ phase = "scan" /\ b < at[1]
    \/ phase \in {"seed", "drain"}
    \/ phase = "run" /\ YmmOrZmmUsed

\* The worklist loop has done for b what it does for an added block.
Visited(b) ==
    /\ FirstUnguardedCall[b] # 0 => <<b, FirstUnguardedCall[b]>> \in guards
    /\ ExitState[b] = "PASS_THROUGH" => fn.succ[b] \subseteq Added

OnWorklist(b) == \E k \in 1..Len(DirtySuccessors) : DirtySuccessors[k] = b

AtInv == at[2] <= End(at[1])

ScanInv ==
    phase = "scan" =>
        \A b \in Block : \A i \in Nat \ {0} : at = <<b, i>> =>
            /\ CurState = "PASS_THROUGH" <=> UntouchedAt(b, i)
            /\ DirtyAt(b, i) => CurState = "EXITS_DIRTY"

TransferInv ==
    \A b \in Block : \A i \in 1..Len(Code(b)) :
        Scanned(b, i) /\ NeedsGuard(Code(b)[i]) =>
            /\ DirtyAt(b, i) => <<b, i>> \in guards
            /\ UntouchedAt(b, i) => FirstUnguardedCall[b] = i

BlockInv ==
    \A b \in Block : BlockDone(b) =>
        /\ DirtyAt(b, End(b)) => fn.succ[b] \subseteq Added
        /\ UntouchedAt(b, End(b)) => ExitState[b] = "PASS_THROUGH"

WorkInv ==
    /\ phase \in {"scan", "seed"} => \A b \in Added : OnWorklist(b)
    /\ phase = "drain" => \A b \in Added : OnWorklist(b) \/ Visited(b)
    /\ phase = "run" /\ YmmOrZmmUsed => \A b \in Added : Visited(b)
    /\ phase = "drain" \/ (phase = "run" /\ YmmOrZmmUsed) => (fn.liveIn => 1 \in Added)

RunInv ==
    /\ phase \notin {"run", "done"} /\ upper = "dirty" => fn.liveIn
    /\ phase \in {"check", "seed", "drain"} => at = <<1, 1>>
    /\ phase \in {"scan", "seed", "drain"} => YmmOrZmmUsed
    /\ phase = "check" => Added = {} /\ CurState = "PASS_THROUGH"
    /\ phase = "run" /\ ~YmmOrZmmUsed => upper = "clean"
    /\ phase = "run" /\ YmmOrZmmUsed =>
        \A b \in Block : \A i \in Nat \ {0} : at = <<b, i>> /\ upper = "dirty" =>
            DirtyAt(b, i) \/ (UntouchedAt(b, i) /\ b \in Added)

IInv == TypeOK /\ AtInv /\ ScanInv /\ TransferInv /\ BlockInv /\ WorkInv /\ RunInv
-----------------------------------------------------------------------------
(* What the scan's predicates say one instruction further on.              *)

LEMMA CodeType ==
    ASSUME fn \in Functions, NEW b \in Block
    PROVE  /\ Code(b) \in Seq(MachineInstr)
           /\ Len(Code(b)) \in Nat
           /\ \A i \in 1..Len(Code(b)) : Code(b)[i] \in MachineInstr
           /\ fn.succ[b] \subseteq Block
           /\ End(b) \in Nat \ {0}
  BY FunctionsAssumption DEF MachineFunction, Code, End

LEMMA DirtyStep ==
    ASSUME NEW b \in Block, NEW i \in Nat \ {0}
    PROVE  /\ UntouchedAt(b, 1)
           /\ ~DirtyAt(b, 1)
           /\ ~(DirtyAt(b, i) /\ UntouchedAt(b, i))
           /\ DirtyAt(b, i + 1) <=> \/ Dirties(Code(b)[i])
                                    \/ DirtyAt(b, i) /\ ~Cleans(Code(b)[i])
           /\ UntouchedAt(b, i + 1) <=> /\ UntouchedAt(b, i)
                                        /\ ~Dirties(Code(b)[i])
                                        /\ ~Cleans(Code(b)[i])
<1> USE DEF DirtyAt, UntouchedAt
<1>1. UntouchedAt(b, 1) /\ ~DirtyAt(b, 1)
  OBVIOUS
<1>2. ~(DirtyAt(b, i) /\ UntouchedAt(b, i))
  OBVIOUS
<1>3. UntouchedAt(b, i + 1) <=> /\ UntouchedAt(b, i)
                                /\ ~Dirties(Code(b)[i])
                                /\ ~Cleans(Code(b)[i])
  OBVIOUS
<1>4. DirtyAt(b, i + 1) => \/ Dirties(Code(b)[i])
                           \/ DirtyAt(b, i) /\ ~Cleans(Code(b)[i])
  OBVIOUS
<1>5. Dirties(Code(b)[i]) \/ (DirtyAt(b, i) /\ ~Cleans(Code(b)[i])) => DirtyAt(b, i + 1)
  OBVIOUS
<1> QED
  BY <1>1, <1>2, <1>3, <1>4, <1>5

\* No step changes the function, nor what is said of its code.
LEMMA FnFixed ==
    ASSUME fn' = fn
    PROVE  /\ \A b : Code(b)' = Code(b)
           /\ \A b : End(b)' = End(b)
           /\ \A b, i : DirtyAt(b, i)' <=> DirtyAt(b, i)
           /\ \A b, i : UntouchedAt(b, i)' <=> UntouchedAt(b, i)
           /\ \A mi : NeedsGuard(mi)' <=> NeedsGuard(mi)
           /\ YmmOrZmmUsed' <=> YmmOrZmmUsed
  BY DEF Code, End, DirtyAt, UntouchedAt, NeedsGuard, YmmOrZmmUsed, Dirties,
         Cleans, SkippedReturn

\* addDirtySuccessor on a set of blocks puts those not yet added on the list.
LEMMA AddedOnWorklist ==
    ASSUME TypeOK, NEW stack \in Seq(Block), NEW S \in SUBSET Block,
           addDirtySuccessors(stack, S)
    PROVE  /\ DirtySuccessors' \in Seq(Block)
           /\ Added' = Added \cup S
           /\ Len(stack) <= Len(DirtySuccessors')
           /\ \A k \in 1..Len(stack) : DirtySuccessors'[k] = stack[k]
           /\ \A b \in S \ Added : OnWorklist(b)'
<1>1. PICK q \in Listings(S \ Added) : DirtySuccessors' = stack \o q /\ Added' = Added \cup S
  BY DEF addDirtySuccessors
<1>2. Cardinality(S \ Added) \in Nat
  <2>1. IsFiniteSet(Block)
    BY FS_Interval, NumBlocksAssumption DEF Block
  <2> QED
    BY <2>1, FS_Subset, FS_CardinalityType
<1>3. q \in Seq(Block) /\ Len(q) = Cardinality(S \ Added)
  <2> DEFINE n == Cardinality(S \ Added)
  <2>1. n \in Nat /\ q \in [1..n -> S \ Added] /\ S \ Added \subseteq Block
    BY <1>1, <1>2 DEF Listings
  <2> HIDE DEF n
  <2>2. q \in Seq(Block) /\ Len(q) = n
    BY <2>1
  <2> QED
    BY <2>2 DEF n
<1>4. \A b \in S \ Added : \E k \in 1..Len(q) : q[k] = b
  BY <1>1, <1>3 DEF Listings
<1>5. /\ DirtySuccessors' \in Seq(Block)
      /\ Len(stack) <= Len(DirtySuccessors')
      /\ \A k \in 1..Len(stack) : DirtySuccessors'[k] = stack[k]
  BY <1>1, <1>3
<1>6. ASSUME NEW b \in S \ Added PROVE OnWorklist(b)'
  <2>1. PICK k \in 1..Len(q) : q[k] = b
    BY <1>4
  <2>2. Len(stack) + k \in 1..Len(DirtySuccessors') /\ DirtySuccessors'[Len(stack) + k] = b
    BY <1>1, <1>3, <2>1
  <2> QED
    BY <2>2 DEF OnWorklist
<1> QED
  BY <1>1, <1>5, <1>6

-----------------------------------------------------------------------------
\* Every variable of the pass and of the machine keeps its type.
THEOREM TypeCorrect == Spec => []TypeOK
<1>1. Init => TypeOK
  <2> SUFFICES ASSUME Init PROVE TypeOK
    OBVIOUS
  <2>1. <<1, 1>> \in Place
    BY NumBlocksAssumption DEF Place, Block
  <2> QED
    BY <2>1 DEF Init, TypeOK, BlockExitState, UpperState
<1>2. TypeOK /\ [Next]_vars => TypeOK'
  <2> SUFFICES ASSUME TypeOK, [Next]_vars PROVE TypeOK'
    OBVIOUS
  <2> USE DEF TypeOK, passVars
  <2>0. /\ at = <<at[1], at[2]>> /\ at[1] \in Block /\ at[2] \in Nat \ {0}
        /\ 1 \in Block /\ <<1, 1>> \in Place
        /\ <<at[1], at[2] + 1>> \in Place
        /\ fn.succ[at[1]] \subseteq Block
    BY NumBlocksAssumption, CodeType DEF Place, Block
  <2>1. CASE FastCheck
    BY <2>1 DEF FastCheck
  <2>2. CASE ScanSkips
    BY <2>0, <2>2 DEF ScanSkips, NextInstr
  <2>3. CASE ScanVZero
    BY <2>0, <2>3 DEF ScanVZero, NextInstr, BlockExitState
  <2>4. CASE ScanYmm
    BY <2>0, <2>4 DEF ScanYmm, NextInstr, BlockExitState
  <2>5. CASE ScanTransfer
    <3>1. FirstUnguardedCall' \in [Block -> Nat]
      BY <2>0, <2>5 DEF ScanTransfer, FirstTransfer
    <3>2. guards' \subseteq Place /\ NumVZU' \in Nat
      BY <2>0, <2>5 DEF ScanTransfer, insertVZeroUpper
    <3> QED
      BY <2>0, <2>5, <3>1, <3>2 DEF ScanTransfer, NextInstr, BlockExitState
  <2>6. CASE ScanBlockEnd
    <3>1. Added' \subseteq Block /\ DirtySuccessors' \in Seq(Block)
      BY <2>0, <2>6, AddedOnWorklist DEF ScanBlockEnd
    <3>2. at' \in Place /\ phase' \in {"scan", "seed"}
      BY <2>0, <2>6, NumBlocksAssumption DEF ScanBlockEnd, NextBlock, Scanning, Place, Block
    <3>3. ExitState' \in [Block -> BlockExitState] /\ CurState' \in BlockExitState
      BY <2>0, <2>6 DEF ScanBlockEnd, BlockExitState
    <3> QED
      BY <2>6, <3>1, <3>2, <3>3 DEF ScanBlockEnd
  <2>7. CASE SeedEntry
    <3>1. Added' \subseteq Block /\ DirtySuccessors' \in Seq(Block)
      BY <2>0, <2>7, AddedOnWorklist DEF SeedEntry
    <3> QED
      BY <2>7, <3>1 DEF SeedEntry
  <2>8. CASE Drain
    <3>1. Back \in Block /\ Popped \in Seq(Block)
      BY <2>8 DEF Drain, Back, Popped
    <3>2. Added' \subseteq Block /\ DirtySuccessors' \in Seq(Block)
      <4>1. fn.succ[Back] \subseteq Block
        BY <3>1, CodeType
      <4> QED
        BY <2>8, <3>1, <4>1, AddedOnWorklist DEF Drain
    <3>3. guards' \subseteq Place /\ NumVZU' \in Nat
      <4> DEFINE first == FirstUnguardedCall[Back]
      <4>1. first \in Nat
        BY <3>1
      <4>2. first # 0 => <<Back, first>> \in Place
        BY <3>1, <4>1 DEF Place
      <4>3. \A p \in Place : guards \cup {p} \subseteq Place
        OBVIOUS
      <4>4. first # 0 => guards \cup {<<Back, first>>} \subseteq Place
        BY <4>2, <4>3, Zenon
      <4>5. \/ first # 0 /\ guards' = guards \cup {<<Back, first>>} /\ NumVZU' = NumVZU + 1
            \/ guards' = guards /\ NumVZU' = NumVZU
        BY <2>8, Zenon DEF Drain, insertVZeroUpper
      <4> QED
        BY <4>4, <4>5
    <3> QED
      BY <2>8, <3>2, <3>3 DEF Drain
  <2>9. CASE Drained
    BY <2>9 DEF Drained
  <2>10. CASE Execute
    <3>1. upper' \in UpperState
      BY <2>10 DEF Execute, UpperAfter, UpperBefore, UpperState
    <3> QED
      BY <2>0, <2>10, <3>1 DEF Execute, NextInstr
  <2>11. CASE Branch
    BY <2>0, <2>11 DEF Branch, Place
  <2>12. CASE UNCHANGED vars
    BY <2>12 DEF vars
  <2> QED
    BY <2>1, <2>2, <2>3, <2>4, <2>5, <2>6, <2>7, <2>8, <2>9, <2>10, <2>11,
       <2>12 DEF Next, Pass
<1> QED
  BY <1>1, <1>2, PTL DEF Spec

-----------------------------------------------------------------------------
LEMMA IInvInit == Init => IInv
<1> SUFFICES ASSUME Init PROVE IInv
  OBVIOUS
<1>1. 1 \in Block /\ TypeOK
  <2>1. 1 \in Block /\ <<1, 1>> \in Place
    BY NumBlocksAssumption DEF Place, Block
  <2> QED
    BY <2>1 DEF Init, TypeOK, BlockExitState, UpperState
<1>2. 1 <= End(1)
  BY <1>1, CodeType DEF Init
<1>3. fn.liveIn \/ upper = "clean"
  BY DEF Init
<1> QED
  BY <1>1, <1>2, <1>3 DEF Init, IInv, AtInv, ScanInv, TransferInv, BlockInv, WorkInv,
     RunInv, Scanned, BlockDone

\* A step of the scan inside a block: ScanInv is what the branch taken must
\* establish, and the place passed is the only one newly scanned.
LEMMA ScanStep ==
    ASSUME IInv, TypeOK', fn' = fn, phase = "scan", phase' = "scan", InBlock, NextInstr,
           UNCHANGED <<upper, ExitState, Added, DirtySuccessors>>,
           guards \subseteq guards',
           CurState' = "PASS_THROUGH" <=> /\ CurState = "PASS_THROUGH"
                                          /\ ~Dirties(MI)
                                          /\ ~Cleans(MI),
           Dirties(MI) \/ (CurState = "EXITS_DIRTY" /\ ~Cleans(MI)) => CurState' = "EXITS_DIRTY",
           NeedsGuard(MI) /\ CurState = "EXITS_DIRTY" => at \in guards',
           FirstUnguardedCall' =
              IF NeedsGuard(MI) /\ CurState = "PASS_THROUGH"
                THEN [FirstUnguardedCall EXCEPT ![at[1]] = at[2]]
                ELSE FirstUnguardedCall
    PROVE  IInv'
<1> DEFINE b0 == at[1]
           i0 == at[2]
<1>1. /\ b0 \in Block /\ i0 \in Nat \ {0} /\ at = <<b0, i0>> /\ at' = <<b0, i0 + 1>>
      /\ i0 \in 1..Len(Code(b0)) /\ MI = Code(b0)[i0]
      /\ Len(Code(b0)) \in Nat /\ End(b0) = Len(Code(b0)) + 1
  BY CodeType DEF IInv, TypeOK, Place, NextInstr, InBlock, MI, End
<1>2. /\ \A b : Code(b)' = Code(b) /\ End(b)' = End(b)
      /\ \A b, i : DirtyAt(b, i)' <=> DirtyAt(b, i)
      /\ \A b, i : UntouchedAt(b, i)' <=> UntouchedAt(b, i)
      /\ \A mi : NeedsGuard(mi)' <=> NeedsGuard(mi)
      /\ YmmOrZmmUsed' <=> YmmOrZmmUsed
  BY FnFixed
<1>3. AtInv'
  BY <1>1, <1>2 DEF AtInv
<1>4. /\ CurState = "PASS_THROUGH" <=> UntouchedAt(b0, i0)
      /\ DirtyAt(b0, i0) => CurState = "EXITS_DIRTY"
  BY <1>1 DEF IInv, ScanInv
<1>5. ScanInv'
  <2>1. /\ CurState' = "PASS_THROUGH" <=> UntouchedAt(b0, i0 + 1)
        /\ DirtyAt(b0, i0 + 1) => CurState' = "EXITS_DIRTY"
    BY <1>1, <1>4, DirtyStep
  <2>2. \A b \in Block, i \in Nat \ {0} : at' = <<b, i>> => b = b0 /\ i = i0 + 1
    BY <1>1
  <2> QED
    BY <1>2, <2>1, <2>2 DEF ScanInv
<1>6. TransferInv'
  <2> SUFFICES ASSUME NEW b \in Block, NEW i \in 1..Len(Code(b)), Scanned(b, i)',
                      NeedsGuard(Code(b)[i])
               PROVE  /\ DirtyAt(b, i) => <<b, i>> \in guards'
                      /\ UntouchedAt(b, i) => FirstUnguardedCall'[b] = i
    BY <1>2 DEF TransferInv
  <2>0. i \in Nat /\ b \in Nat /\ b0 \in Nat
    <3>1. Len(Code(b)) \in Nat
      BY CodeType DEF IInv, TypeOK
    <3> QED
      BY <1>1, <3>1, NumBlocksAssumption DEF Block
  <2>1. Scanned(b, i) \/ (b = b0 /\ i = i0)
    BY <1>1, <2>0 DEF Scanned
  <2>2. CASE b = b0 /\ i = i0
    BY <1>1, <1>4, <2>2 DEF IInv, TypeOK
  <2>3. CASE Scanned(b, i) /\ ~(b = b0 /\ i = i0)
    <3>1. /\ DirtyAt(b, i) => <<b, i>> \in guards
          /\ UntouchedAt(b, i) => FirstUnguardedCall[b] = i
      BY <2>3 DEF IInv, TransferInv
    <3>2. CASE b # b0
      BY <3>1, <3>2, <1>1 DEF IInv, TypeOK
    <3>3. CASE b = b0
      <4>1. i < i0
        BY <1>1, <2>0, <2>3, <3>3 DEF Scanned
      <4>2. Cleans(Code(b)[i])
        BY DEF Cleans, NeedsGuard
      <4>3. ~UntouchedAt(b0, i0)
        BY <1>1, <2>0, <3>3, <4>1, <4>2 DEF UntouchedAt
      <4> QED
        BY <1>4, <3>1, <4>3
    <3> QED
      BY <3>2, <3>3
  <2> QED
    BY <2>1, <2>2, <2>3
<1>7. BlockInv'
  BY <1>1, <1>2 DEF IInv, BlockInv, BlockDone
<1>8. WorkInv'
  BY <1>2 DEF IInv, WorkInv, OnWorklist
<1>9. RunInv'
  BY <1>2 DEF IInv, RunInv
<1> QED
  BY <1>3, <1>5, <1>6, <1>7, <1>8, <1>9 DEF IInv

LEMMA IInvStep == IInv /\ [Next]_vars /\ TypeOK' => IInv'
<1> SUFFICES ASSUME IInv, [Next]_vars, TypeOK' PROVE IInv'
  OBVIOUS
<1> USE DEF passVars
<1>a. /\ at[1] \in Block /\ at[2] \in Nat \ {0} /\ at = <<at[1], at[2]>>
      /\ 1 \in Block /\ \A b \in Block : b \in 1..NumBlocks /\ b \in Nat
      /\ NumBlocks \in Nat
      /\ TypeOK /\ fn \in Functions
  <2>1. NumBlocks \in Nat \ {0} /\ TypeOK
    BY NumBlocksAssumption DEF IInv
  <2>2. 1 \in Block /\ \A b \in Block : b \in 1..NumBlocks /\ b \in Nat
    BY <2>1 DEF Block
  <2>3. fn \in Functions /\ at[1] \in Block /\ at[2] \in Nat \ {0} /\ at = <<at[1], at[2]>>
    BY <2>1 DEF TypeOK, Place
  <2> QED
    BY <2>1, <2>2, <2>3
<1>b. fn' = fn
  BY DEF Next, Pass, FastCheck, ScanSkips, ScanVZero, ScanYmm, ScanTransfer, ScanBlockEnd,
         SeedEntry, Drain, Drained, Execute, Branch, vars
<1>c. /\ \A b : Code(b)' = Code(b) /\ End(b)' = End(b)
      /\ \A b, i : DirtyAt(b, i)' <=> DirtyAt(b, i)
      /\ \A b, i : UntouchedAt(b, i)' <=> UntouchedAt(b, i)
      /\ \A mi : NeedsGuard(mi)' <=> NeedsGuard(mi)
      /\ YmmOrZmmUsed' <=> YmmOrZmmUsed
  BY <1>b, FnFixed
<1>d. \A b \in Block : /\ Len(Code(b)) \in Nat
                       /\ End(b) = Len(Code(b)) + 1
                       /\ UntouchedAt(b, 1) /\ ~DirtyAt(b, 1)
  BY <1>a, CodeType, DirtyStep DEF End
<1>e. /\ InBlock' <=> at'[2] \in 1..Len(Code(at'[1]))
      /\ CurState \in {"PASS_THROUGH", "EXITS_CLEAN", "EXITS_DIRTY"}
  BY <1>a, <1>c DEF InBlock, TypeOK, BlockExitState
<1>1. CASE FastCheck
  <2>1. at = <<1, 1>> /\ Added = {} /\ CurState = "PASS_THROUGH"
    BY <1>1 DEF FastCheck, IInv, RunInv
  <2>2. ~fn.liveIn => upper # "dirty"
    BY <1>1 DEF FastCheck, IInv, RunInv
  <2>3. upper \in {"clean", "dirty"}
    BY <1>a DEF TypeOK, UpperState
  <2>4. ~YmmOrZmmUsed => upper = "clean"
    BY <2>2, <2>3 DEF YmmOrZmmUsed
  <2>5. AtInv'
    BY <1>1, <1>a, <1>c, <1>d, <2>1 DEF FastCheck, AtInv
  <2>6. ScanInv' /\ TransferInv' /\ BlockInv'
    BY <1>1, <1>a, <1>c, <1>d, <2>1 DEF FastCheck, ScanInv, TransferInv, BlockInv, Scanned, BlockDone
  <2>7. WorkInv'
    BY <1>1, <1>c, <2>1 DEF FastCheck, WorkInv
  <2>8. RunInv'
    BY <1>1, <1>a, <1>c, <2>1, <2>2, <2>4 DEF FastCheck, IInv, RunInv
  <2> QED
    BY <2>5, <2>6, <2>7, <2>8 DEF IInv
<1>2. CASE ScanSkips
  <2>1. ~Dirties(MI) \/ CurState = "EXITS_DIRTY"
    BY <1>2 DEF ScanSkips, Dirties, IsControlFlow
  <2>2. ~Cleans(MI) /\ ~NeedsGuard(MI)
    BY <1>2 DEF ScanSkips, Cleans, NeedsGuard, IsControlFlow
  <2> QED
    BY <1>2, <1>b, <2>1, <2>2, ScanStep DEF ScanSkips, Scanning
<1>3. CASE ScanVZero
  <2>1. ~Dirties(MI) /\ Cleans(MI) /\ ~NeedsGuard(MI)
    BY <1>3 DEF ScanVZero, Dirties, Cleans, NeedsGuard
  <2> QED
    BY <1>3, <1>b, <2>1, ScanStep DEF ScanVZero, Scanning
<1>4. CASE ScanYmm
  <2>1. Dirties(MI) /\ ~Cleans(MI) /\ ~NeedsGuard(MI)
    BY <1>4 DEF ScanYmm, Dirties, Cleans, NeedsGuard
  <2> QED
    BY <1>4, <1>b, <2>1, ScanStep DEF ScanYmm, Scanning
<1>5. CASE ScanTransfer
  <2>1. NeedsGuard(MI) /\ Cleans(MI) /\ ~Dirties(MI)
    BY <1>5 DEF ScanTransfer, NeedsGuard, Cleans, Dirties
  <2>2. guards \subseteq guards' /\ (CurState = "EXITS_DIRTY" => at \in guards')
    BY <1>5 DEF ScanTransfer, FirstTransfer, insertVZeroUpper
  <2>3. FirstUnguardedCall' = IF CurState = "PASS_THROUGH"
                                THEN [FirstUnguardedCall EXCEPT ![at[1]] = at[2]]
                                ELSE FirstUnguardedCall
    BY <1>5 DEF ScanTransfer, FirstTransfer
  <2> QED
    BY <1>5, <1>b, <2>1, <2>2, <2>3, ScanStep DEF ScanTransfer, Scanning
<1>6. CASE ScanBlockEnd
  <2> DEFINE b0 == at[1]
  <2>1. phase = "scan" /\ at[2] = End(b0)
    BY <1>6 DEF ScanBlockEnd, AtBlockEnd, End
  <2>2. /\ DirtyAt(b0, End(b0)) => CurState = "EXITS_DIRTY"
        /\ CurState = "PASS_THROUGH" <=> UntouchedAt(b0, End(b0))
    BY <1>a, <2>1 DEF IInv, ScanInv
  <2>3. /\ Added \subseteq Added'
        /\ CurState = "EXITS_DIRTY" => fn.succ[b0] \subseteq Added'
        /\ \A b \in Added' : OnWorklist(b)'
    <3>1. \A b \in Added : OnWorklist(b)
      BY <2>1 DEF IInv, WorkInv
    <3>2. CASE CurState = "EXITS_DIRTY"
      <4>1. addDirtySuccessors(DirtySuccessors, fn.succ[b0])
        BY <1>6, <3>2 DEF ScanBlockEnd
      <4>2. DirtySuccessors \in Seq(Block) /\ fn.succ[b0] \in SUBSET Block
        BY <1>a, CodeType DEF TypeOK
      <4>3. /\ DirtySuccessors' \in Seq(Block)
            /\ Added' = Added \cup fn.succ[b0]
            /\ Len(DirtySuccessors) <= Len(DirtySuccessors')
            /\ \A k \in 1..Len(DirtySuccessors) : DirtySuccessors'[k] = DirtySuccessors[k]
            /\ \A b \in fn.succ[b0] \ Added : OnWorklist(b)'
        BY <1>a, <4>1, <4>2, AddedOnWorklist
      <4>4. ASSUME NEW b \in Added PROVE OnWorklist(b)'
        BY <3>1, <4>2, <4>3 DEF OnWorklist
      <4> QED
        BY <4>3, <4>4
    <3>3. CASE CurState # "EXITS_DIRTY"
      BY <1>6, <3>1, <3>3 DEF ScanBlockEnd, OnWorklist
    <3> QED
      BY <3>2, <3>3
  <2>4. ExitState' = [ExitState EXCEPT ![b0] = CurState] /\ CurState' = "PASS_THROUGH"
    BY <1>6 DEF ScanBlockEnd
  <2>5. \/ at' = <<b0 + 1, 1>> /\ phase' = "scan" /\ b0 # NumBlocks
        \/ at' = <<1, 1>> /\ phase' = "seed" /\ b0 = NumBlocks
    BY <1>6, <2>1 DEF ScanBlockEnd, NextBlock
  <2>6. AtInv' /\ ScanInv'
    <3>1. at'[1] \in Block /\ at' = <<at'[1], 1>>
      BY <1>a, <2>5 DEF Block
    <3>2. \A b : at'[1] = b => at'[2] <= End(b)'
      BY <1>c, <1>d, <3>1
    <3>3. AtInv'
      BY <3>2 DEF AtInv
    <3>4. ScanInv'
      BY <1>c, <1>d, <2>4, <3>1 DEF ScanInv
    <3> QED
      BY <3>3, <3>4
  <2>7. TransferInv'
    <3> SUFFICES ASSUME NEW b \in Block, NEW i \in 1..Len(Code(b)), NeedsGuard(Code(b)[i]),
                        Scanned(b, i)'
                 PROVE  /\ DirtyAt(b, i) => <<b, i>> \in guards
                        /\ UntouchedAt(b, i) => FirstUnguardedCall[b] = i
      BY <1>6, <1>c DEF ScanBlockEnd, TransferInv
    <3>0. b \in Nat /\ b <= NumBlocks /\ i \in Nat /\ i <= Len(Code(b)) /\ at[1] \in Nat
      BY <1>a, <1>d
    <3>1. b <= at[1]
      BY <1>a, <2>5, <3>0 DEF Scanned
    <3>2. Scanned(b, i)
      BY <1>a, <1>d, <2>1, <3>0, <3>1 DEF Scanned
    <3> QED
      BY <3>2 DEF IInv, TransferInv
  <2>8. BlockInv'
    <3> SUFFICES ASSUME NEW b \in Block, BlockDone(b)'
                 PROVE  /\ DirtyAt(b, End(b)) => fn.succ[b] \subseteq Added'
                        /\ UntouchedAt(b, End(b)) => ExitState'[b] = "PASS_THROUGH"
      BY <1>b, <1>c DEF BlockInv
    <3>0. b \in Nat /\ b <= NumBlocks /\ at[1] \in Nat
      BY <1>a
    <3>1. b <= b0
      BY <1>a, <2>5, <3>0 DEF BlockDone
    <3>2. CASE b = b0
      BY <1>a, <2>2, <2>3, <2>4, <3>2 DEF TypeOK
    <3>3. CASE b # b0
      <4>1. BlockDone(b)
        BY <2>1, <3>0, <3>1, <3>3 DEF BlockDone
      <4>2. /\ DirtyAt(b, End(b)) => fn.succ[b] \subseteq Added
            /\ UntouchedAt(b, End(b)) => ExitState[b] = "PASS_THROUGH"
        BY <4>1 DEF IInv, BlockInv
      <4> QED
        BY <1>a, <2>3, <2>4, <3>3, <4>2 DEF TypeOK
    <3> QED
      BY <3>2, <3>3
  <2>9. WorkInv'
    BY <2>3, <2>5 DEF WorkInv
  <2>10. RunInv'
    BY <1>6, <1>b, <1>c, <2>1, <2>5 DEF ScanBlockEnd, IInv, RunInv
  <2> QED
    BY <2>6, <2>7, <2>8, <2>9, <2>10 DEF IInv
<1>7. CASE SeedEntry
  <2>1. phase = "seed" /\ phase' = "drain" /\ at' = at /\ at = <<1, 1>>
    BY <1>7 DEF SeedEntry, IInv, RunInv
  <2>2. /\ Added \subseteq Added'
        /\ fn.liveIn => 1 \in Added'
        /\ \A b \in Added' : OnWorklist(b)'
    <3>1. \A b \in Added : OnWorklist(b)
      BY <2>1 DEF IInv, WorkInv
    <3>2. CASE fn.liveIn
      <4>1. addDirtySuccessors(DirtySuccessors, {1})
        BY <1>7, <3>2 DEF SeedEntry
      <4>2. DirtySuccessors \in Seq(Block) /\ {1} \in SUBSET Block
        BY <1>a DEF TypeOK
      <4>3. /\ DirtySuccessors' \in Seq(Block)
            /\ Added' = Added \cup {1}
            /\ Len(DirtySuccessors) <= Len(DirtySuccessors')
            /\ \A k \in 1..Len(DirtySuccessors) : DirtySuccessors'[k] = DirtySuccessors[k]
            /\ \A b \in {1} \ Added : OnWorklist(b)'
        BY <1>a, <4>1, <4>2, AddedOnWorklist
      <4>4. ASSUME NEW b \in Added PROVE OnWorklist(b)'
        BY <3>1, <4>2, <4>3 DEF OnWorklist
      <4> QED
        BY <4>3, <4>4
    <3>3. CASE ~fn.liveIn
      BY <1>7, <3>1, <3>3 DEF SeedEntry, OnWorklist
    <3> QED
      BY <3>2, <3>3
  <2>3. AtInv' /\ ScanInv'
    BY <1>c, <2>1 DEF IInv, AtInv, ScanInv
  <2>4. TransferInv' /\ BlockInv'
    BY <1>7, <1>b, <1>c, <2>1, <2>2 DEF SeedEntry, IInv, TransferInv, BlockInv, Scanned, BlockDone
  <2>5. WorkInv'
    BY <1>b, <2>1, <2>2 DEF WorkInv
  <2>6. RunInv'
    BY <1>7, <1>b, <1>c, <2>1 DEF SeedEntry, IInv, RunInv
  <2> QED
    BY <2>3, <2>4, <2>5, <2>6 DEF IInv
<1>8. CASE Drain
  <2>1. phase = "drain" /\ phase' = "drain" /\ at' = at
    BY <1>8 DEF Drain
  <2>2. /\ DirtySuccessors \in Seq(Block) /\ DirtySuccessors # <<>>
        /\ Back \in Block /\ Popped \in Seq(Block)
        /\ \A b : OnWorklist(b) => b = Back \/ \E k \in 1..Len(Popped) : Popped[k] = b
    <3>1. DirtySuccessors \in Seq(Block) /\ DirtySuccessors # <<>>
      BY <1>8, <1>a DEF Drain, TypeOK
    <3>2. /\ Len(DirtySuccessors) \in Nat \ {0}
          /\ Len(Popped) = Len(DirtySuccessors) - 1
          /\ \A k \in 1..(Len(DirtySuccessors) - 1) : Popped[k] = DirtySuccessors[k]
      BY <3>1 DEF Popped
    <3>3. Back \in Block /\ Popped \in Seq(Block)
      BY <3>1 DEF Back, Popped
    <3>4. ASSUME NEW b, OnWorklist(b)
          PROVE  b = Back \/ \E k \in 1..Len(Popped) : Popped[k] = b
      BY <3>1, <3>2, <3>4 DEF OnWorklist, Back
    <3> QED
      BY <3>1, <3>3, <3>4
  <2>3. /\ Added \subseteq Added'
        /\ ExitState[Back] = "PASS_THROUGH" => fn.succ[Back] \subseteq Added'
        /\ \A b \in Added' \ Added : OnWorklist(b)'
        /\ \A b : (\E k \in 1..Len(Popped) : Popped[k] = b) => OnWorklist(b)'
    <3>1. CASE PassesDirtOn(Back)
      <4>1. addDirtySuccessors(Popped, fn.succ[Back])
        BY <1>8, <3>1 DEF Drain
      <4>2. fn.succ[Back] \in SUBSET Block
        BY <1>a, <2>2, CodeType
      <4>3. /\ DirtySuccessors' \in Seq(Block)
            /\ Added' = Added \cup fn.succ[Back]
            /\ Len(Popped) <= Len(DirtySuccessors')
            /\ \A k \in 1..Len(Popped) : DirtySuccessors'[k] = Popped[k]
            /\ \A b \in fn.succ[Back] \ Added : OnWorklist(b)'
        BY <1>a, <2>2, <4>1, <4>2, AddedOnWorklist
      <4>4. ASSUME NEW b, NEW k \in 1..Len(Popped), Popped[k] = b
            PROVE  OnWorklist(b)'
        <5>1. k \in 1..Len(DirtySuccessors') /\ DirtySuccessors'[k] = b
          BY <2>2, <4>3, <4>4
        <5> QED
          BY <5>1 DEF OnWorklist
      <4> QED
        BY <4>3, <4>4
    <3>2. CASE ~PassesDirtOn(Back)
      BY <1>8, <3>2 DEF Drain, PassesDirtOn, OnWorklist
    <3> QED
      BY <3>1, <3>2
  <2>4. /\ guards \subseteq guards'
        /\ FirstUnguardedCall[Back] # 0 => <<Back, FirstUnguardedCall[Back]>> \in guards'
    BY <1>8, Zenon DEF Drain, insertVZeroUpper
  <2>5. UNCHANGED <<FirstUnguardedCall, ExitState>>
    BY <1>8 DEF Drain
  <2>6. \A b : b = Back \/ Visited(b) => Visited(b)'
    <3>1. \A b : b = Back => Visited(b)'
      BY <1>b, <2>3, <2>4, <2>5 DEF Visited
    <3>2. \A b : Visited(b) => Visited(b)'
      BY <1>b, <2>3, <2>4, <2>5 DEF Visited
    <3> QED
      BY <3>1, <3>2
  <2>7. AtInv' /\ ScanInv'
    BY <1>c, <2>1 DEF IInv, AtInv, ScanInv
  <2>8. TransferInv' /\ BlockInv'
    BY <1>b, <1>c, <2>1, <2>3, <2>4, <2>5
       DEF IInv, TransferInv, BlockInv, Scanned, BlockDone
  <2>9. WorkInv'
    <3>1. \A b \in Added : OnWorklist(b) \/ Visited(b)
      BY <2>1 DEF IInv, WorkInv
    <3>2. \A b \in Added' : OnWorklist(b)' \/ Visited(b)'
      BY <2>2, <2>3, <2>6, <3>1
    <3> QED
      BY <1>b, <2>1, <2>3, <3>2 DEF IInv, WorkInv
  <2>10. RunInv'
    BY <1>8, <1>b, <1>c, <2>1 DEF Drain, IInv, RunInv
  <2> QED
    BY <2>7, <2>8, <2>9, <2>10 DEF IInv
<1>9. CASE Drained
  <2>1. /\ phase = "drain" /\ phase' = "run" /\ UNCHANGED <<at, upper>> /\ UNCHANGED passVars
        /\ DirtySuccessors = <<>>
    BY <1>9 DEF Drained
  <2>2. YmmOrZmmUsed /\ at = <<1, 1>> /\ (upper = "dirty" => fn.liveIn)
    BY <2>1 DEF IInv, RunInv
  <2>3. \A b \in Added : Visited(b)
    BY <2>1 DEF IInv, WorkInv, OnWorklist
  <2>4. fn.liveIn => 1 \in Added
    BY <2>1 DEF IInv, WorkInv
  <2>5. AtInv' /\ ScanInv'
    BY <1>c, <2>1 DEF IInv, AtInv, ScanInv
  <2>6. TransferInv' /\ BlockInv'
    BY <1>b, <1>c, <2>1, <2>2 DEF IInv, TransferInv, BlockInv, Scanned, BlockDone
  <2>7. WorkInv'
    BY <1>b, <2>1, <2>3, <2>4 DEF WorkInv, Visited
  <2>8. RunInv'
    BY <1>a, <1>b, <1>c, <1>d, <2>1, <2>2, <2>4 DEF RunInv
  <2> QED
    BY <2>5, <2>6, <2>7, <2>8 DEF IInv
<1>10. CASE Execute
  <2> DEFINE b0 == at[1]
             i0 == at[2]
  <2>1. /\ phase = "run" /\ phase' \in {"run", "done"} /\ UNCHANGED passVars
        /\ i0 \in 1..Len(Code(b0)) /\ MI = Code(b0)[i0]
        /\ at' = at \/ (at' = <<b0, i0 + 1>> /\ phase' = "run")
        /\ phase' = "run" => at' = <<b0, i0 + 1>> /\ ~MI.isReturn
    BY <1>10, Zenon DEF Execute, Running, InBlock, NextInstr, MI
  <2>2. AtInv'
    <3>1. at'[1] = b0 /\ at'[2] <= i0 + 1
      BY <1>a, <2>1
    <3>2. i0 + 1 <= End(b0) /\ i0 <= End(b0)
      BY <1>a, <1>d, <2>1
    <3>3. \A b : b = at'[1] => at'[2] <= End(b)'
      BY <1>a, <1>c, <1>d, <2>1, <3>1, <3>2
    <3> QED
      BY <3>3 DEF AtInv
  <2>3. ScanInv'
    BY <2>1 DEF ScanInv
  <2>4. TransferInv' /\ BlockInv'
    BY <1>b, <1>c, <2>1 DEF IInv, TransferInv, BlockInv, Scanned, BlockDone
  <2>5. WorkInv'
    BY <1>b, <1>c, <2>1 DEF IInv, WorkInv, Visited
  <2>6. RunInv'
    <3>1. CASE ~YmmOrZmmUsed
      <4>1. ~MI.ymm /\ upper = "clean"
        BY <1>a, <2>1, <3>1 DEF IInv, RunInv, YmmOrZmmUsed
      <4>2. upper' = "clean"
        BY <1>10, <4>1 DEF Execute, UpperAfter, UpperBefore
      <4> QED
        BY <1>c, <2>1, <3>1, <4>2 DEF RunInv
    <3>2. CASE YmmOrZmmUsed
      <4> SUFFICES ASSUME phase' = "run", upper' = "dirty"
                   PROVE  DirtyAt(b0, i0 + 1) \/ (UntouchedAt(b0, i0 + 1) /\ b0 \in Added)
        <5>1. \A b \in Block, i \in Nat \ {0} : at' = <<b, i>> /\ phase' = "run" => b = b0 /\ i = i0 + 1
          BY <2>1
        <5> QED
          BY <1>c, <2>1, <3>2, <5>1 DEF RunInv
      <4>1. ~MI.isVZero
        BY <1>10 DEF Execute, UpperAfter
      <4>2. ~SkippedReturn(MI)
        BY <2>1 DEF SkippedReturn
      <4>3. CASE Dirties(MI)
        BY <1>a, <2>1, <4>3, DirtyStep
      <4>4. CASE ~Dirties(MI)
        <5>1. ~MI.ymm
          BY <4>1, <4>2, <4>4 DEF Dirties, hasYmmOrZmmReg
        <5>2. at \notin guards /\ upper = "dirty"
          BY <1>10, <4>1, <5>1 DEF Execute, UpperAfter, UpperBefore
        <5>3. DirtyAt(b0, i0) \/ (UntouchedAt(b0, i0) /\ b0 \in Added)
          BY <1>a, <2>1, <3>2, <5>2 DEF IInv, RunInv
        <5>4. ~NeedsGuard(MI)
          <6>1. Scanned(b0, i0)
            BY <2>1, <3>2 DEF Scanned
          <6>2. NeedsGuard(MI) => /\ DirtyAt(b0, i0) => at \in guards
                                  /\ UntouchedAt(b0, i0) => FirstUnguardedCall[b0] = i0
            BY <1>a, <2>1, <6>1 DEF IInv, TransferInv
          <6>3. b0 \in Added /\ FirstUnguardedCall[b0] = i0 => at \in guards
            BY <1>a, <2>1, <3>2 DEF IInv, WorkInv, Visited
          <6> QED
            BY <5>2, <5>3, <6>2, <6>3
        <5>5. ~Cleans(MI)
          BY <4>1, <5>4 DEF Cleans
        <5> QED
          BY <1>a, <2>1, <4>4, <5>3, <5>5, DirtyStep
      <4> QED
        BY <4>3, <4>4
    <3> QED
      BY <3>1, <3>2
  <2> QED
    BY <2>2, <2>3, <2>4, <2>5, <2>6 DEF IInv
<1>11. CASE Branch
  <2>1. /\ phase = "run" /\ phase' = "run" /\ UNCHANGED upper /\ UNCHANGED passVars
        /\ at[2] = End(at[1])
    BY <1>11 DEF Branch, AtBlockEnd, End
  <2>2. PICK b1 \in fn.succ[at[1]] : at' = <<b1, 1>>
    BY <1>11 DEF Branch
  <2>3. b1 \in Block
    BY <1>a, <2>2, CodeType
  <2>4. AtInv'
    <3>1. \A b : b = at'[1] => at'[2] <= End(b)'
      BY <1>c, <1>d, <2>2, <2>3
    <3> QED
      BY <3>1 DEF AtInv
  <2>5. ScanInv'
    BY <2>1 DEF ScanInv
  <2>6. TransferInv' /\ BlockInv'
    BY <1>b, <1>c, <2>1 DEF IInv, TransferInv, BlockInv, Scanned, BlockDone
  <2>7. WorkInv'
    BY <1>b, <1>c, <2>1 DEF IInv, WorkInv, Visited
  <2>8. RunInv'
    <3>1. YmmOrZmmUsed /\ upper = "dirty" => b1 \in Added
      <4> SUFFICES ASSUME YmmOrZmmUsed, upper = "dirty" PROVE b1 \in Added
        OBVIOUS
      <4>1. DirtyAt(at[1], End(at[1])) \/ (UntouchedAt(at[1], End(at[1])) /\ at[1] \in Added)
        BY <1>a, <2>1 DEF IInv, RunInv
      <4>2. /\ DirtyAt(at[1], End(at[1])) => fn.succ[at[1]] \subseteq Added
            /\ UntouchedAt(at[1], End(at[1])) => ExitState[at[1]] = "PASS_THROUGH"
        BY <1>a, <2>1 DEF IInv, BlockInv, BlockDone
      <4>3. at[1] \in Added /\ ExitState[at[1]] = "PASS_THROUGH" => fn.succ[at[1]] \subseteq Added
        BY <2>1 DEF IInv, WorkInv, Visited
      <4> QED
        BY <2>2, <4>1, <4>2, <4>3
    <3>2. YmmOrZmmUsed => \A b \in Block, i \in Nat \ {0} : at' = <<b, i>> /\ upper = "dirty" =>
                              UntouchedAt(b, i) /\ b \in Added
      BY <1>d, <2>2, <2>3, <3>1
    <3> QED
      BY <1>b, <1>c, <2>1, <3>2 DEF IInv, RunInv
  <2> QED
    BY <2>4, <2>5, <2>6, <2>7, <2>8 DEF IInv
<1>12. CASE UNCHANGED vars
  BY <1>c, <1>12 DEF vars, IInv, AtInv, ScanInv, TransferInv, BlockInv, WorkInv, RunInv,
     Scanned, BlockDone, Visited, OnWorklist
<1> QED
  BY <1>1, <1>2, <1>3, <1>4, <1>5, <1>6, <1>7, <1>8, <1>9, <1>10, <1>11, <1>12 DEF Next, Pass

\* The invariant holds of every execution.
THEOREM Invariance == Spec => []IInv
<1>1. Spec => []TypeOK
  BY TypeCorrect
<1>2. Init => IInv
  BY IInvInit
<1>3. IInv /\ [Next]_vars /\ TypeOK' => IInv'
  BY IInvStep
<1> QED
  BY <1>1, <1>2, <1>3, PTL DEF Spec

\* No call or return that may execute SSE code starts with dirty upper halves
\* (X86VZeroUpper.cpp:246-252), whatever the function and its graph.
THEOREM GuardedTransfers == Spec => []NoDirtyTransfer
<1>1. IInv => NoDirtyTransfer
  <2> SUFFICES ASSUME IInv, Running, MayReachSSE(MI), UpperBefore(at) # "clean"
               PROVE  FALSE
    BY DEF NoDirtyTransfer
  <2> DEFINE b0 == at[1]
             i0 == at[2]
  <2>1. /\ phase = "run" /\ i0 \in 1..Len(Code(b0)) /\ MI = Code(b0)[i0]
        /\ b0 \in Block /\ i0 \in Nat \ {0} /\ at = <<b0, i0>>
    BY DEF IInv, TypeOK, Place, Running, InBlock, MI
  <2>2. at \notin guards /\ upper = "dirty"
    BY DEF UpperBefore, IInv, TypeOK, UpperState
  <2>3. YmmOrZmmUsed
    BY <2>1, <2>2 DEF IInv, RunInv
  <2>4. NeedsGuard(MI)
    BY DEF MayReachSSE, NeedsGuard, SkippedReturn, hasYmmOrZmmReg, IsControlFlow, callHasRegMask
  <2>5. /\ DirtyAt(b0, i0) => at \in guards
        /\ UntouchedAt(b0, i0) => FirstUnguardedCall[b0] = i0
    BY <2>1, <2>3, <2>4 DEF IInv, TransferInv, Scanned
  <2>6. DirtyAt(b0, i0) \/ (UntouchedAt(b0, i0) /\ b0 \in Added)
    BY <2>1, <2>2, <2>3 DEF IInv, RunInv
  <2>7. b0 \in Added /\ FirstUnguardedCall[b0] = i0 => at \in guards
    BY <2>1, <2>3 DEF IInv, WorkInv, Visited
  <2> QED
    BY <2>2, <2>5, <2>6, <2>7
<1> QED
  BY <1>1, Invariance, PTL
-----------------------------------------------------------------------------
(* The VZEROUPPERs inserted: where, and how often.                          *)

\* The worklist has added blocks only, each at most once.
ListInv ==
    /\ \A k \in 1..Len(DirtySuccessors) : DirtySuccessors[k] \in Added
    /\ \A j, k \in 1..Len(DirtySuccessors) : DirtySuccessors[j] = DirtySuccessors[k] => j = k

\* The first unguarded call of a block is a transfer with nothing before it.
FirstInv ==
    \A b \in Block : FirstUnguardedCall[b] # 0 =>
        /\ FirstUnguardedCall[b] \in 1..Len(Code(b))
        /\ NeedsGuard(Code(b)[FirstUnguardedCall[b]])
        /\ UntouchedAt(b, FirstUnguardedCall[b])

\* A guarded place is a transfer that the scan has passed, and has nothing before
\* it only if it was guarded when its block left the worklist, for good.
GuardedPlace(p) ==
    /\ p[2] \in 1..Len(Code(p[1])) /\ NeedsGuard(Code(p[1])[p[2]])
    /\ UntouchedAt(p[1], p[2]) => p[1] \in Added /\ ~OnWorklist(p[1])
    /\ phase = "scan" => p[1] < at[1] \/ (p[1] = at[1] /\ p[2] < at[2])

GuardInv ==
    /\ IsFiniteSet(guards) /\ NumVZU = Cardinality(guards)
    /\ \A p \in guards : GuardedPlace(p)
    /\ phase = "check" => guards = {}

OnceInv == ListInv /\ FirstInv /\ GuardInv

\* pop_back leaves the other blocks of the worklist in their places.
LEMMA PoppedList ==
    ASSUME DirtySuccessors \in Seq(Block), DirtySuccessors # <<>>
    PROVE  /\ Popped \in Seq(Block) /\ Len(Popped) = Len(DirtySuccessors) - 1
           /\ \A k \in 1..Len(Popped) : Popped[k] = DirtySuccessors[k]
<1>. DEFINE n == Len(DirtySuccessors) - 1
<1>1. n \in Nat /\ n <= Len(DirtySuccessors)
  OBVIOUS
<1>2. Popped = SubSeq(DirtySuccessors, 1, n)
  BY DEF Popped
<1>. HIDE DEF n
<1>3. Popped \in Seq(Block) /\ Len(Popped) = n
  BY <1>1, <1>2
<1>4. \A k \in 1..n : Popped[k] = DirtySuccessors[k]
  BY <1>1, <1>2
<1>. QED
  BY <1>3, <1>4 DEF n

\* Blocks pushed on a list of distinct added blocks leave it one.
LEMMA PushedOnce ==
    ASSUME TypeOK, NEW stack \in Seq(Block), NEW S \in SUBSET Block,
           addDirtySuccessors(stack, S),
           \A k \in 1..Len(stack) : stack[k] \in Added,
           \A j, k \in 1..Len(stack) : stack[j] = stack[k] => j = k
    PROVE  /\ ListInv'
           /\ Added' = Added \cup S
           /\ \A b \in Added : OnWorklist(b)' => \E k \in 1..Len(stack) : stack[k] = b
<1>. DEFINE T == S \ Added
            n == Cardinality(T)
<1>1. PICK q \in Listings(T) : DirtySuccessors' = stack \o q /\ Added' = Added \cup S
  BY DEF addDirtySuccessors
<1>2. IsFiniteSet(T) /\ n \in Nat
  <2>1. IsFiniteSet(Block)
    BY FS_Interval, NumBlocksAssumption DEF Block
  <2>. QED
    BY <2>1, FS_Subset, FS_CardinalityType
<1>3. q \in [1..n -> T] /\ \A x \in T : \E i \in DOMAIN q : q[i] = x
  BY <1>1 DEF Listings
<1>4. \A i, j \in 1..n : q[i] = q[j] => i = j
  <2>1. IsFiniteSet(1..n) /\ Cardinality(1..n) = Cardinality(T)
    <3>. HIDE DEF n
    <3>1. Cardinality(1..n) = n /\ IsFiniteSet(1..n)
      BY <1>2, FS_Interval
    <3>. QED
      BY <3>1 DEF n
  <2>2. q \in Surjection(1..n, T)
    BY <1>3 DEF Surjection
  <2>3. q \in Injection(1..n, T)
    BY <2>1, <2>2, FS_SurjSameCardinalityImpliesInj
  <2>. QED
    BY <1>3, <2>3 DEF Injection, IsInjective
<1>. HIDE DEF n
<1>5. q \in Seq(Block) /\ Len(q) = n /\ \A i \in 1..n : q[i] \in T
  <2>. HIDE DEF T
  <2>1. T \subseteq Block
    BY DEF T
  <2>. QED
    BY <1>2, <1>3, <2>1
<1>. DEFINE m == Len(stack)
<1>6. DirtySuccessors' = stack \o q /\ m \in Nat
  BY <1>1
<1>7. /\ Len(DirtySuccessors') = m + n
      /\ \A k \in 1..m : DirtySuccessors'[k] = stack[k]
      /\ \A k \in 1..(m + n) : k > m => k - m \in 1..n /\ DirtySuccessors'[k] = q[k - m]
  <2>0. q \in Seq(Block)
    BY <1>5
  <2>1. /\ Len(stack \o q) = m + Len(q)
        /\ \A k \in 1..m : (stack \o q)[k] = stack[k]
    BY <2>0
  <2>3. \A k \in 1..(m + Len(q)) : k > m => (stack \o q)[k] = q[k - m]
    BY <2>0
  <2>. HIDE DEF m
  <2>2. \A k \in 1..(m + n) : k > m => k - m \in 1..n
    BY <1>2, <1>6
  <2>. QED
    BY <1>5, <1>6, <2>1, <2>2, <2>3
<1>8. \A k \in 1..(m + n) : k \notin 1..m => k > m
  BY <1>2, <1>6
<1>. HIDE DEF m
<1>9. \A k \in 1..(m + n) : DirtySuccessors'[k] \in Added'
  BY <1>1, <1>5, <1>7, <1>8 DEF m
<1>10. \A j, k \in 1..(m + n) : DirtySuccessors'[j] = DirtySuccessors'[k] => j = k
  <2>. SUFFICES ASSUME NEW j \in 1..(m + n), NEW k \in 1..(m + n),
                       DirtySuccessors'[j] = DirtySuccessors'[k]
                PROVE  j = k
    OBVIOUS
  <2>1. CASE j \in 1..m /\ k \in 1..m
    BY <1>7, <2>1 DEF m
  <2>2. CASE j \in 1..m /\ k > m
    BY <1>5, <1>7, <2>2 DEF m
  <2>3. CASE j > m /\ k \in 1..m
    BY <1>5, <1>7, <2>3 DEF m
  <2>4. CASE j > m /\ k > m
    <3>1. j - m \in 1..n /\ k - m \in 1..n /\ q[j - m] = q[k - m]
      BY <1>7, <2>4
    <3>2. j - m = k - m
      BY <1>4, <3>1
    <3>. QED
      BY <1>2, <1>6, <3>2 DEF m
  <2>. QED
    BY <1>8, <2>1, <2>2, <2>3, <2>4
<1>11. \A b \in Added : OnWorklist(b)' => \E k \in 1..m : stack[k] = b
  <2>. SUFFICES ASSUME NEW b \in Added, NEW k \in 1..(m + n), DirtySuccessors'[k] = b
                PROVE  \E l \in 1..m : stack[l] = b
    BY <1>7 DEF OnWorklist
  <2>1. k \in 1..m
    BY <1>5, <1>7, <1>8
  <2>. QED
    BY <1>7, <2>1
<1>. QED
  BY <1>1, <1>7, <1>9, <1>10, <1>11 DEF ListInv, m

\* NumVZU counts a guard inserted before a place that had none.
LEMMA Inserted ==
    ASSUME NEW p, IsFiniteSet(guards), NumVZU = Cardinality(guards), p \notin guards,
           insertVZeroUpper(p)
    PROVE  IsFiniteSet(guards') /\ NumVZU' = Cardinality(guards')
BY FS_AddElement DEF insertVZeroUpper

\* Steps that leave the worklist and the guards alone.
LEMMA NothingInserted ==
    ASSUME OnceInv, fn' = fn, UNCHANGED <<FirstUnguardedCall, Added, DirtySuccessors, guards, NumVZU>>,
           phase' # "check",
           phase' = "scan" => \A p \in guards : GuardedPlace(p) =>
                p[1] < at'[1] \/ (p[1] = at'[1] /\ p[2] < at'[2])
    PROVE  OnceInv'
<1>1. /\ \A b : Code(b)' = Code(b)
      /\ \A b, i : UntouchedAt(b, i)' <=> UntouchedAt(b, i)
      /\ \A mi : NeedsGuard(mi)' <=> NeedsGuard(mi)
  BY FnFixed
<1>2. \A b : OnWorklist(b)' <=> OnWorklist(b)
  BY DEF OnWorklist
<1>3. ASSUME NEW p \in guards PROVE GuardedPlace(p)'
  <2>1. GuardedPlace(p)
    BY DEF OnceInv, GuardInv
  <2>. QED
    BY <1>1, <1>2, <2>1 DEF GuardedPlace
<1>. QED
  BY <1>1, <1>3 DEF OnceInv, ListInv, FirstInv, GuardInv

LEMMA OnceInvStep == IInv /\ TypeOK' /\ OnceInv /\ [Next]_vars => OnceInv'
<1> SUFFICES ASSUME IInv, TypeOK', OnceInv, [Next]_vars PROVE OnceInv'
  OBVIOUS
<1> USE DEF passVars
<1>a. /\ at[1] \in Block /\ at[2] \in Nat \ {0} /\ at = <<at[1], at[2]>>
      /\ TypeOK /\ fn \in Functions
      /\ Block \subseteq Nat /\ NumBlocks \in Nat
  <2>1. NumBlocks \in Nat \ {0} /\ TypeOK
    BY NumBlocksAssumption DEF IInv
  <2>2. at \in Block \X (Nat \ {0}) /\ fn \in Functions
    BY <2>1 DEF TypeOK, Place
  <2>3. at[1] \in Block /\ at[2] \in Nat \ {0} /\ at = <<at[1], at[2]>>
    BY <2>2
  <2>4. Block \subseteq Nat
    BY DEF Block
  <2> QED
    BY <2>1, <2>2, <2>3, <2>4
<1>b. fn' = fn
  BY DEF Next, Pass, FastCheck, ScanSkips, ScanVZero, ScanYmm, ScanTransfer, ScanBlockEnd,
         SeedEntry, Drain, Drained, Execute, Branch, vars
<1>c. /\ \A b : Code(b)' = Code(b)
      /\ \A b, i : UntouchedAt(b, i)' <=> UntouchedAt(b, i)
      /\ \A mi : NeedsGuard(mi)' <=> NeedsGuard(mi)
  BY <1>b, FnFixed
<1>d. \A p \in guards : p = <<p[1], p[2]>> /\ p[1] \in Block /\ p[2] \in Nat
  BY <1>a DEF TypeOK, Place
<1>e. \A p \in guards : GuardedPlace(p)
  BY DEF OnceInv, GuardInv
<1>1. CASE FastCheck
  <2>1. guards = {}
    BY <1>1 DEF FastCheck, OnceInv, GuardInv
  <2>. QED
    BY <1>1, <1>b, <2>1, NothingInserted DEF FastCheck
<1>2. CASE ScanSkips \/ ScanVZero \/ ScanYmm
  <2>1. \A p \in guards : p[1] < at[1] \/ (p[1] = at[1] /\ p[2] < at[2])
    BY <1>2, <1>e DEF ScanSkips, ScanVZero, ScanYmm, Scanning, GuardedPlace
  <2>2. at' = <<at[1], at[2] + 1>>
    BY <1>2 DEF ScanSkips, ScanVZero, ScanYmm, NextInstr
  <2>3. \A p \in guards : p[1] < at'[1] \/ (p[1] = at'[1] /\ p[2] < at'[2])
    BY <1>a, <1>d, <2>1, <2>2
  <2>. QED
    BY <1>2, <1>b, <2>3, NothingInserted DEF ScanSkips, ScanVZero, ScanYmm, Scanning
<1>3. CASE ScanTransfer
  <2> DEFINE b0 == at[1]
             i0 == at[2]
  <2>1. /\ phase = "scan" /\ phase' = "scan" /\ at' = <<b0, i0 + 1>> /\ NeedsGuard(MI)
        /\ i0 \in 1..Len(Code(b0)) /\ MI = Code(b0)[i0]
        /\ UNCHANGED <<Added, DirtySuccessors>>
    BY <1>3 DEF ScanTransfer, Scanning, InBlock, NextInstr, MI
  <2>2. CurState = "PASS_THROUGH" <=> UntouchedAt(b0, i0)
    BY <1>a, <2>1 DEF IInv, ScanInv
  <2>3. \A p \in guards : p # at /\ (p[1] < b0 \/ (p[1] = b0 /\ p[2] < i0))
    BY <1>a, <1>e, <2>1 DEF GuardedPlace
  <2>4. \/ insertVZeroUpper(at) /\ ~UntouchedAt(b0, i0)
        \/ guards' = guards /\ NumVZU' = NumVZU
    BY <1>3, <2>2 DEF ScanTransfer, FirstTransfer
  <2>5. IsFiniteSet(guards') /\ NumVZU' = Cardinality(guards')
    BY <2>3, <2>4, Inserted DEF OnceInv, GuardInv
  <2>6. \A b : OnWorklist(b)' <=> OnWorklist(b)
    BY <2>1 DEF OnWorklist
  <2>7. ASSUME NEW p \in guards' PROVE GuardedPlace(p)'
    <3>1. CASE p \in guards
      <4>1. p[1] < at'[1] \/ (p[1] = at'[1] /\ p[2] < at'[2])
        BY <1>a, <1>d, <2>1, <2>3, <3>1
      <4>2. GuardedPlace(p)
        BY <1>e, <3>1
      <4>. QED
        BY <1>c, <2>1, <2>6, <4>1, <4>2 DEF GuardedPlace
    <3>2. CASE p \notin guards
      <4>1. p[1] = b0 /\ p[2] = i0 /\ ~UntouchedAt(b0, i0)
        BY <1>a, <2>4, <2>7, <3>2 DEF insertVZeroUpper
      <4>2. p[1] = at'[1] /\ p[2] < at'[2]
        BY <1>a, <2>1, <4>1
      <4>. QED
        BY <1>c, <2>1, <4>1, <4>2 DEF GuardedPlace
    <3>. QED
      BY <3>1, <3>2
  <2>8. FirstInv'
    <3>1. \/ FirstUnguardedCall' = FirstUnguardedCall
          \/ UntouchedAt(b0, i0) /\ FirstUnguardedCall' = [FirstUnguardedCall EXCEPT ![b0] = i0]
      BY <1>3, <2>2 DEF ScanTransfer, FirstTransfer
    <3>2. \A b \in Block : FirstUnguardedCall'[b] # FirstUnguardedCall[b] =>
             b = b0 /\ FirstUnguardedCall'[b] = i0 /\ UntouchedAt(b0, i0)
      BY <1>a, <3>1 DEF TypeOK
    <3>. QED
      BY <1>c, <2>1, <3>2 DEF OnceInv, FirstInv
  <2>. QED
    BY <2>1, <2>5, <2>7, <2>8 DEF OnceInv, ListInv, GuardInv
<1>4. CASE ScanBlockEnd \/ SeedEntry
  <2>1. /\ UNCHANGED <<FirstUnguardedCall, guards, NumVZU>>
        /\ \/ phase' = "scan" /\ at' = <<at[1] + 1, 1>> /\ phase = "scan"
           \/ phase' \in {"seed", "drain"}
    BY <1>4 DEF ScanBlockEnd, NextBlock, SeedEntry
  <2>2. \/ \E S \in SUBSET Block : addDirtySuccessors(DirtySuccessors, S)
        \/ UNCHANGED <<Added, DirtySuccessors>>
    <3>1. fn.succ[at[1]] \in SUBSET Block /\ {1} \in SUBSET Block
      BY <1>a, CodeType, NumBlocksAssumption DEF Block
    <3>. QED
      BY <1>4, <3>1 DEF ScanBlockEnd, SeedEntry
  <2>3. /\ ListInv' /\ Added \subseteq Added'
        /\ \A b \in Added : OnWorklist(b)' => OnWorklist(b)
    <3>1. CASE UNCHANGED <<Added, DirtySuccessors>>
      BY <3>1 DEF OnceInv, ListInv, OnWorklist
    <3>2. ASSUME NEW S \in SUBSET Block, addDirtySuccessors(DirtySuccessors, S)
          PROVE  /\ ListInv' /\ Added \subseteq Added'
                 /\ \A b \in Added : OnWorklist(b)' => OnWorklist(b)
      <4>1. DirtySuccessors \in Seq(Block)
        BY <1>a DEF TypeOK
      <4>. QED
        BY <1>a, <3>2, <4>1, PushedOnce DEF OnceInv, ListInv, OnWorklist
    <3>. QED
      BY <2>2, <3>1, <3>2
  <2>4. ASSUME NEW p \in guards PROVE GuardedPlace(p)'
    <3>1. GuardedPlace(p) /\ p[1] \in Block /\ p[2] \in Nat
      BY <1>d, <1>e
    <3>2. phase' = "scan" => p[1] < at'[1]
      BY <1>a, <2>1, <3>1 DEF GuardedPlace
    <3>. QED
      BY <1>c, <2>3, <3>1, <3>2 DEF GuardedPlace
  <2>. QED
    BY <1>c, <2>1, <2>3, <2>4 DEF OnceInv, FirstInv, GuardInv
<1>5. CASE Drain
  <2> DEFINE first == FirstUnguardedCall[Back]
             p0 == <<Back, first>>
  <2>1. /\ phase = "drain" /\ phase' = "drain" /\ UNCHANGED FirstUnguardedCall
        /\ \/ first # 0 /\ insertVZeroUpper(p0)
           \/ guards' = guards /\ NumVZU' = NumVZU
    BY <1>5, Zenon DEF Drain
  <2>2. /\ DirtySuccessors \in Seq(Block) /\ Len(DirtySuccessors) \in Nat \ {0}
        /\ Back \in Block /\ Back \in Added /\ OnWorklist(Back)
        /\ Popped \in Seq(Block) /\ Len(Popped) = Len(DirtySuccessors) - 1
        /\ \A k \in 1..Len(Popped) : Popped[k] = DirtySuccessors[k]
    <3>1. DirtySuccessors \in Seq(Block) /\ DirtySuccessors # <<>>
      BY <1>5, <1>a DEF Drain, TypeOK
    <3>2. Len(DirtySuccessors) \in Nat \ {0} /\ Len(DirtySuccessors) \in 1..Len(DirtySuccessors)
      BY <3>1
    <3>3. /\ Popped \in Seq(Block) /\ Len(Popped) = Len(DirtySuccessors) - 1
          /\ \A k \in 1..Len(Popped) : Popped[k] = DirtySuccessors[k]
      BY <3>1, PoppedList
    <3>4. Back \in Block /\ Back \in Added /\ OnWorklist(Back)
      BY <3>1, <3>2 DEF Back, OnWorklist, OnceInv, ListInv
    <3>. QED
      BY <3>1, <3>2, <3>3, <3>4
  <2>3. /\ \A k \in 1..Len(Popped) : Popped[k] \in Added /\ Popped[k] # Back
        /\ \A j, k \in 1..Len(Popped) : Popped[j] = Popped[k] => j = k
        /\ \A k \in 1..Len(Popped) : OnWorklist(Popped[k])
    <3>1. \A k \in 1..Len(Popped) : k \in 1..Len(DirtySuccessors) /\ k # Len(DirtySuccessors)
      BY <2>2
    <3>2. /\ \A k \in 1..Len(DirtySuccessors) : DirtySuccessors[k] \in Added
          /\ \A j, k \in 1..Len(DirtySuccessors) : DirtySuccessors[j] = DirtySuccessors[k] => j = k
      BY DEF OnceInv, ListInv
    <3>3. Len(DirtySuccessors) \in 1..Len(DirtySuccessors)
      BY <2>2
    <3>4. \A k \in 1..Len(Popped) : Popped[k] \in Added /\ OnWorklist(Popped[k])
      BY <2>2, <3>1, <3>2 DEF OnWorklist
    <3>5. \A k \in 1..Len(Popped) : Popped[k] # Back
      BY <2>2, <3>1, <3>2, <3>3 DEF Back
    <3>6. \A j, k \in 1..Len(Popped) : Popped[j] = Popped[k] => j = k
      BY <2>2, <3>1, <3>2
    <3>. QED
      BY <3>4, <3>5, <3>6
  <2>4. /\ ListInv' /\ Added \subseteq Added'
        /\ \A b \in Added : OnWorklist(b)' => OnWorklist(b) /\ b # Back
    <3>1. CASE PassesDirtOn(Back)
      <4>1. addDirtySuccessors(Popped, fn.succ[Back]) /\ fn.succ[Back] \in SUBSET Block
        BY <1>5, <1>a, <2>2, <3>1, CodeType DEF Drain
      <4>2. /\ ListInv' /\ Added' = Added \cup fn.succ[Back]
            /\ \A b \in Added : OnWorklist(b)' => \E k \in 1..Len(Popped) : Popped[k] = b
        BY <1>a, <2>2, <2>3, <4>1, PushedOnce
      <4>3. \A k \in 1..Len(Popped) : OnWorklist(Popped[k]) /\ Popped[k] # Back
        BY <2>3
      <4>4. \A b \in Added : OnWorklist(b)' => OnWorklist(b) /\ b # Back
        BY <4>2, <4>3
      <4>. QED
        BY <4>2, <4>4
    <3>2. CASE ~PassesDirtOn(Back)
      <4>1. DirtySuccessors' = Popped /\ Added' = Added
        BY <1>5, <3>2 DEF Drain
      <4>. QED
        BY <2>3, <4>1 DEF ListInv, OnWorklist
    <3>. QED
      BY <3>1, <3>2
  <2>5. first # 0 => /\ first \in 1..Len(Code(Back)) /\ NeedsGuard(Code(Back)[first])
                     /\ UntouchedAt(Back, first)
    BY <2>2 DEF OnceInv, FirstInv
  <2>6. first # 0 => p0 \notin guards
    <3>1. GuardedPlace(p0) /\ first # 0 => FALSE
      BY <2>2, <2>5 DEF GuardedPlace
    <3>. QED
      BY <1>e, <3>1
  <2>7. IsFiniteSet(guards') /\ NumVZU' = Cardinality(guards')
    BY <2>1, <2>6, Inserted DEF OnceInv, GuardInv
  <2>8. ASSUME NEW p \in guards' PROVE GuardedPlace(p)'
    <3>1. CASE p \in guards
      <4>1. GuardedPlace(p)
        BY <1>e, <3>1
      <4>. QED
        BY <1>c, <2>1, <2>4, <4>1 DEF GuardedPlace
    <3>2. CASE p \notin guards
      <4>1. p = p0 /\ first # 0
        BY <2>1, <2>8, <3>2 DEF insertVZeroUpper
      <4>2. p[1] = Back /\ p[2] = first
        BY <4>1
      <4>3. p[1] \in Added' /\ ~OnWorklist(p[1])'
        BY <2>2, <2>4, <4>2
      <4>4. p[2] \in 1..Len(Code(p[1])) /\ NeedsGuard(Code(p[1])[p[2]])
        BY <2>5, <4>1, <4>2
      <4>. QED
        BY <1>c, <2>1, <4>3, <4>4 DEF GuardedPlace
    <3>. QED
      BY <3>1, <3>2
  <2>9. FirstInv'
    BY <1>c, <2>1 DEF OnceInv, FirstInv
  <2>. QED
    BY <2>1, <2>4, <2>7, <2>8, <2>9 DEF OnceInv, GuardInv
<1>6. CASE Drained \/ Execute \/ Branch
  BY <1>6, <1>b, NothingInserted DEF Drained, Execute, Branch, Running
<1>7. CASE UNCHANGED vars
  <2>1. \A b : OnWorklist(b)' <=> OnWorklist(b)
    BY <1>7 DEF vars, OnWorklist
  <2>. QED
    BY <1>7, <1>c, <2>1 DEF vars, OnceInv, ListInv, FirstInv, GuardInv, GuardedPlace
<1> QED
  BY <1>1, <1>2, <1>3, <1>4, <1>5, <1>6, <1>7 DEF Next, Pass

LEMMA OnceInvariance == Spec => [](TypeOK /\ OnceInv)
<1>1. Init => OnceInv
  BY FS_EmptySet DEF Init, OnceInv, ListInv, FirstInv, GuardInv
<1>2. IInv /\ TypeOK' /\ OnceInv /\ [Next]_vars => OnceInv'
  BY OnceInvStep
<1>. QED
  BY <1>1, <1>2, TypeCorrect, Invariance, PTL DEF Spec

\* AddedToDirtySuccessors keeps a block from being visited twice: no instruction
\* of any function gets two VZEROUPPERs, from the scan or from the worklist.
THEOREM GuardedOnce == Spec => []OneGuardPerPlace
<1>1. OnceInv => OneGuardPerPlace
  BY DEF OnceInv, GuardInv, OneGuardPerPlace
<1>. QED
  BY <1>1, OnceInvariance, PTL

\* No VZEROUPPER destroys a YMM/ZMM value that the instruction after it passes
\* on, or that a callee preserves.
THEOREM GuardsAreHarmless == Spec => []GuardDestroysNothing
<1>1. TypeOK /\ OnceInv => GuardDestroysNothing
  <2>. SUFFICES ASSUME TypeOK, OnceInv, NEW p \in guards
                PROVE  LET mi == Code(p[1])[p[2]]
                       IN  /\ ~mi.ymm /\ (mi.isCall \/ mi.isReturn)
                           /\ mi.isCall => mi.regMask = "all"
    BY DEF GuardDestroysNothing
  <2>. DEFINE mi == Code(p[1])[p[2]]
  <2>1. p[2] \in 1..Len(Code(p[1])) /\ NeedsGuard(mi) /\ p[1] \in Block
    BY DEF OnceInv, GuardInv, GuardedPlace, TypeOK, Place
  <2>2. mi \in MachineInstr
    BY <2>1, CodeType DEF TypeOK
  <2>. HIDE DEF mi
  <2>3. ~mi.ymm /\ (mi.isCall \/ mi.isReturn) /\ (mi.isCall => mi.regMask = "all")
    BY <2>1, <2>2 DEF NeedsGuard, hasYmmOrZmmReg, IsControlFlow, callHasRegMask, MachineInstr
  <2>. QED
    BY <2>3 DEF mi
<1>. QED
  BY <1>1, OnceInvariance, PTL

-----------------------------------------------------------------------------
(* No VZEROUPPER is there for nothing.                                      *)

\* While the scan is dirty so is its place, a pass-through block touches nothing,
\* and only blocks that can be entered dirty are added.
NeedInv ==
    /\ phase = "scan" /\ CurState = "EXITS_DIRTY" => DirtyAt(at[1], at[2])
    /\ \A b \in Block : BlockDone(b) /\ ExitState[b] = "PASS_THROUGH" => UntouchedAt(b, End(b))
    /\ \A b \in Added : DirtyOnEntry(b)
    /\ NoNeedlessGuard

\* The blocks added are ones that can be entered dirty, if the new ones are.
LEMMA AddedNeeded ==
    ASSUME fn' = fn, NEW S, Added' = Added \cup S,
           \A b \in Added : DirtyOnEntry(b), \A b \in S : DirtyOnEntry(b)
    PROVE  \A b \in Added' : DirtyOnEntry(b)'
<1>1. \A b : DirtyOnEntry(b)' <=> DirtyOnEntry(b)
  BY FnFixed DEF DirtyOnEntry, SpreadsDirt
<1>. QED
  BY <1>1

LEMMA NeedInvStep == IInv /\ TypeOK' /\ OnceInv /\ NeedInv /\ [Next]_vars => NeedInv'
<1> SUFFICES ASSUME IInv, TypeOK', OnceInv, NeedInv, [Next]_vars PROVE NeedInv'
  OBVIOUS
<1> USE DEF passVars
<1>a. /\ at \in Block \X (Nat \ {0}) /\ TypeOK /\ fn \in Functions
      /\ Block \subseteq Nat /\ NumBlocks \in Nat \ {0} /\ 1 \in Block
  <2>1. TypeOK
    BY DEF IInv
  <2>2. NumBlocks \in Nat \ {0}
    BY NumBlocksAssumption
  <2>3. Block \subseteq Nat /\ 1 \in Block
    BY <2>2 DEF Block
  <2>4. at \in Block \X (Nat \ {0}) /\ fn \in Functions
    BY <2>1 DEF TypeOK, Place
  <2>. QED
    BY <2>1, <2>2, <2>3, <2>4
<1>b. fn' = fn
  BY DEF Next, Pass, FastCheck, ScanSkips, ScanVZero, ScanYmm, ScanTransfer, ScanBlockEnd,
         SeedEntry, Drain, Drained, Execute, Branch, vars
<1>c. /\ \A b : Code(b)' = Code(b) /\ End(b)' = End(b) /\ fn'.succ[b] = fn.succ[b]
      /\ \A b, i : UntouchedAt(b, i)' <=> UntouchedAt(b, i)
      /\ \A b, i : DirtyAt(b, i)' <=> DirtyAt(b, i)
      /\ \A mi : NeedsGuard(mi)' <=> NeedsGuard(mi)
      /\ YmmOrZmmUsed' <=> YmmOrZmmUsed
  BY <1>b, FnFixed
<1>d. \A b : DirtyOnEntry(b)' <=> DirtyOnEntry(b)
  BY <1>b, FnFixed DEF DirtyOnEntry, SpreadsDirt
<1>e. at[1] \in Block /\ at[2] \in Nat \ {0} /\ at = <<at[1], at[2]>>
  BY <1>a
\* What a step must show of a guard, and what a guard that is left has.
<1> DEFINE Needed(p) == \/ DirtyAt(p[1], p[2])
                        \/ UntouchedAt(p[1], p[2]) /\ DirtyOnEntry(p[1])
<1>f. \A p \in guards : Needed(p)
  BY DEF NeedInv, NoNeedlessGuard
<1>g. (\A p \in guards' : Needed(p)) => NoNeedlessGuard'
  BY <1>c, <1>d DEF NoNeedlessGuard
<1> HIDE DEF Needed
<1>1. CASE FastCheck
  <2>1. at = <<1, 1>> /\ CurState = "PASS_THROUGH" /\ phase = "check"
    BY <1>1 DEF FastCheck, IInv, RunInv
  <2>2. /\ UNCHANGED <<at, guards, Added, CurState>>
        /\ phase' = "scan" \/ (phase' = "run" /\ ~YmmOrZmmUsed)
    BY <1>1 DEF FastCheck
  <2>3. \A b \in Block : ~BlockDone(b)'
    BY <1>a, <1>c, <2>1, <2>2 DEF BlockDone, Block
  <2>. QED
    BY <1>d, <1>f, <1>g, <2>1, <2>2, <2>3 DEF NeedInv
<1>2. CASE ScanSkips \/ ScanVZero \/ ScanYmm \/ ScanTransfer
  <2> DEFINE b0 == at[1]
             i0 == at[2]
  <2>1. /\ phase = "scan" /\ phase' = "scan" /\ at' = <<b0, i0 + 1>>
        /\ i0 \in 1..Len(Code(b0)) /\ MI = Code(b0)[i0]
        /\ UNCHANGED <<Added, ExitState>>
    BY <1>2 DEF ScanSkips, ScanVZero, ScanYmm, ScanTransfer, Scanning, InBlock, NextInstr, MI
  <2>2. CurState' = "EXITS_DIRTY" => Dirties(MI) \/ (CurState = "EXITS_DIRTY" /\ ~Cleans(MI))
    <3>1. CASE ScanSkips
      <4>1. ~Cleans(MI)
        BY <3>1 DEF ScanSkips, Cleans, NeedsGuard, hasYmmOrZmmReg
      <4>. QED
        BY <3>1, <4>1 DEF ScanSkips
    <3>2. CASE ScanVZero \/ ScanTransfer
      BY <3>2 DEF ScanVZero, ScanTransfer
    <3>3. CASE ScanYmm
      BY <3>3 DEF ScanYmm, Dirties
    <3>. QED
      BY <1>2, <3>1, <3>2, <3>3
  <2>3. CurState' = "EXITS_DIRTY" => DirtyAt(b0, i0 + 1)
    <3>1. CurState = "EXITS_DIRTY" => DirtyAt(b0, i0)
      BY <2>1 DEF NeedInv
    <3>. QED
      BY <1>e, <2>1, <2>2, <3>1, DirtyStep
  <2>4. \A p \in guards' : Needed(p)
    <3>1. \/ guards' = guards
          \/ CurState = "EXITS_DIRTY" /\ guards' = guards \cup {at}
      BY <1>2 DEF ScanSkips, ScanVZero, ScanYmm, ScanTransfer, insertVZeroUpper
    <3>2. CurState = "EXITS_DIRTY" => Needed(at)
      BY <2>1 DEF NeedInv, Needed
    <3>. QED
      BY <1>f, <3>1, <3>2
  <2>5. \A b \in Block : BlockDone(b)' <=> BlockDone(b)
    BY <2>1 DEF BlockDone
  <2>6. phase' = "scan" /\ CurState' = "EXITS_DIRTY" => DirtyAt(at[1], at[2])'
    <3>1. at'[1] = b0 /\ at'[2] = i0 + 1
      BY <2>1
    <3>. QED
      BY <1>b, <2>3, <3>1 DEF DirtyAt, Dirties, Cleans, Code, SkippedReturn, NeedsGuard
  <2>7. \A b \in Block : BlockDone(b)' /\ ExitState'[b] = "PASS_THROUGH" => UntouchedAt(b, End(b))'
    BY <1>c, <2>1, <2>5 DEF NeedInv
  <2>8. \A b \in Added' : DirtyOnEntry(b)'
    BY <1>d, <2>1 DEF NeedInv
  <2>. QED
    BY <1>g, <2>4, <2>6, <2>7, <2>8 DEF NeedInv
<1>3. CASE ScanBlockEnd
  <2> DEFINE b0 == at[1]
  <2>1. /\ phase = "scan" /\ at[2] = End(b0) /\ b0 \in Block
        /\ ExitState' = [ExitState EXCEPT ![b0] = CurState] /\ CurState' = "PASS_THROUGH"
        /\ guards' = guards
    BY <1>3, <1>e DEF ScanBlockEnd, AtBlockEnd, End
  <2>2. CurState = "PASS_THROUGH" => UntouchedAt(b0, End(b0))
    BY <1>e, <2>1 DEF IInv, ScanInv
  <2>3. \A b \in Block : BlockDone(b)' => BlockDone(b) \/ b = b0
    BY <1>3, <1>a, <1>e DEF ScanBlockEnd, NextBlock, BlockDone, Block
  <2>4. \A b \in Block : BlockDone(b)' /\ ExitState'[b] = "PASS_THROUGH" => UntouchedAt(b, End(b))'
    <3>1. \A b \in Block : ExitState'[b] = IF b = b0 THEN CurState ELSE ExitState[b]
      BY <1>a, <2>1 DEF TypeOK
    <3>. QED
      BY <1>c, <2>2, <2>3, <3>1 DEF NeedInv
  <2>5. \A b \in Added' : DirtyOnEntry(b)'
    <3>1. CASE CurState = "EXITS_DIRTY"
      <4>1. DirtyAt(b0, End(b0)) /\ fn.succ[b0] \in SUBSET Block
        BY <1>a, <2>1, <3>1, CodeType DEF NeedInv
      <4>2. \A b \in fn.succ[b0] : DirtyOnEntry(b)
        BY <2>1, <4>1 DEF DirtyOnEntry, SpreadsDirt
      <4>3. Added' = Added \cup fn.succ[b0]
        BY <1>3, <3>1 DEF ScanBlockEnd, addDirtySuccessors
      <4>. QED
        BY <1>b, <4>2, <4>3, AddedNeeded DEF NeedInv
    <3>2. CASE CurState # "EXITS_DIRTY"
      BY <1>3, <1>d, <3>2 DEF ScanBlockEnd, NeedInv
    <3>. QED
      BY <3>1, <3>2
  <2>. QED
    BY <1>f, <1>g, <2>1, <2>4, <2>5 DEF NeedInv
<1>4. CASE SeedEntry
  <2>1. phase = "seed" /\ phase' = "drain" /\ UNCHANGED <<guards, ExitState>>
    BY <1>4 DEF SeedEntry
  <2>2. \A b \in Block : BlockDone(b)
    BY <2>1 DEF BlockDone
  <2>3. \A b \in Added' : DirtyOnEntry(b)'
    <3>1. CASE fn.liveIn
      <4>1. \A b \in {1} : DirtyOnEntry(b)
        BY <3>1 DEF DirtyOnEntry, SpreadsDirt
      <4>2. Added' = Added \cup {1}
        BY <1>4, <3>1 DEF SeedEntry, addDirtySuccessors
      <4>. QED
        BY <1>b, <4>1, <4>2, AddedNeeded DEF NeedInv
    <3>2. CASE ~fn.liveIn
      BY <1>4, <1>d, <3>2 DEF SeedEntry, NeedInv
    <3>. QED
      BY <3>1, <3>2
  <2>. QED
    BY <1>c, <1>f, <1>g, <2>1, <2>2, <2>3 DEF NeedInv
<1>5. CASE Drain
  <2> DEFINE first == FirstUnguardedCall[Back]
  <2>1. /\ phase = "drain" /\ phase' = "drain" /\ UNCHANGED ExitState
        /\ DirtySuccessors \in Seq(Block) /\ DirtySuccessors # <<>>
    BY <1>5, <1>a DEF Drain, TypeOK
  <2>2. Back \in Block /\ DirtyOnEntry(Back)
    <3>1. Len(DirtySuccessors) \in 1..Len(DirtySuccessors) /\ Back \in Block
      BY <2>1 DEF Back
    <3>2. Back \in Added
      BY <3>1 DEF Back, OnceInv, ListInv
    <3>. QED
      BY <3>1, <3>2 DEF NeedInv
  <2>3. \A p \in guards' : Needed(p)
    <3>1. \A p \in guards' : p \in guards \/ (first # 0 /\ p[1] = Back /\ p[2] = first)
      BY <1>5 DEF Drain, insertVZeroUpper
    <3>2. first # 0 => UntouchedAt(Back, first)
      BY <2>2 DEF OnceInv, FirstInv
    <3>. QED
      BY <1>f, <2>2, <3>1, <3>2 DEF Needed
  <2>4. \A b \in Block : BlockDone(b)
    BY <2>1 DEF BlockDone
  <2>5. \A b \in Added' : DirtyOnEntry(b)'
    <3>1. CASE PassesDirtOn(Back)
      <4>1. UntouchedAt(Back, End(Back)) /\ fn.succ[Back] \in SUBSET Block
        BY <1>a, <2>2, <2>4, <3>1, CodeType DEF NeedInv, PassesDirtOn
      <4>2. \A b \in fn.succ[Back] : DirtyOnEntry(b)
        BY <2>2, <4>1 DEF DirtyOnEntry, SpreadsDirt
      <4>3. Added' = Added \cup fn.succ[Back]
        BY <1>5, <3>1 DEF Drain, addDirtySuccessors
      <4>. QED
        BY <1>b, <4>2, <4>3, AddedNeeded DEF NeedInv
    <3>2. CASE ~PassesDirtOn(Back)
      BY <1>5, <1>d, <3>2 DEF Drain, NeedInv
    <3>. QED
      BY <3>1, <3>2
  <2>. QED
    BY <1>c, <1>g, <2>1, <2>3, <2>4, <2>5 DEF NeedInv
<1>6. CASE Drained \/ Execute \/ Branch
  <2>1. /\ phase \in {"drain", "run"} /\ phase' \in {"run", "done"}
        /\ UNCHANGED <<guards, Added, ExitState>>
    BY <1>6 DEF Drained, Execute, Branch, Running
  <2>2. \A b \in Block : BlockDone(b)' => BlockDone(b)
    BY <1>6, <1>c, <2>1 DEF BlockDone, Drained, Execute, Branch, Running
  <2>. QED
    BY <1>c, <1>d, <1>f, <1>g, <2>1, <2>2 DEF NeedInv
<1>7. CASE UNCHANGED vars
  <2>1. \A b : BlockDone(b)' <=> BlockDone(b)
    BY <1>7, <1>c DEF vars, BlockDone
  <2>2. DirtyAt(at[1], at[2])' <=> DirtyAt(at[1], at[2])
    BY <1>7, <1>c DEF vars
  <2>3. UNCHANGED <<phase, CurState, ExitState, Added, guards>>
    BY <1>7 DEF vars
  <2>. QED
    BY <1>c, <1>d, <1>f, <1>g, <2>1, <2>2, <2>3 DEF NeedInv
<1> QED
  BY <1>1, <1>2, <1>3, <1>4, <1>5, <1>6, <1>7 DEF Next, Pass

\* A VZEROUPPER is only inserted where some path arrives with YMM/ZMM touched and
\* not cleaned since: pass-through blocks pass dirtiness on, and nothing else does.
THEOREM GuardsAreNeeded == Spec => []NoNeedlessGuard
<1>1. Init => NeedInv
  BY DEF Init, NeedInv, NoNeedlessGuard, BlockDone
<1>2. IInv /\ TypeOK' /\ OnceInv /\ NeedInv /\ [Next]_vars => NeedInv'
  BY NeedInvStep
<1>3. NeedInv => NoNeedlessGuard
  BY DEF NeedInv
<1>. QED
  BY <1>1, <1>2, <1>3, OnceInvariance, Invariance, TypeCorrect, PTL DEF Spec
=============================================================================
