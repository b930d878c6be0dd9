------------------------- MODULE RISCVInsertVSETVLI -------------------------
(***************************************************************************)
(* The pass of RISCVInsertVSETVLI.cpp, which gives VL and VTYPE, by vset   *)
(* instructions, the values that the vector instructions of a function ask *)
(* for, and as few of them as it can; then a hart that runs the code it    *)
(* produced, beside the values the function computes by its own meaning.   *)
(***************************************************************************)
EXTENDS VSETVLIInfo, FiniteSetsExt, SequencesExt

CONSTANTS
    Registers,     \* scalar registers
    Inputs,        \* values a scalar definition may give
    Foreign,       \* VL and VTYPE as the caller or a callee may leave them
    Functions      \* the functions the pass may be given

ASSUME InputsAssumption == Inputs \subseteq Nat
ASSUME ForeignAssumption == Foreign \subseteq [vl: Nat, vt: VType]

VectorOps == {"arith", "mem", "mask", "insert", "extract", "slide", "splat", "ff"}

Value == [reg: Registers \cup {"none"}, def: Nat \X Nat, nonZero: BOOLEAN, copy: BOOLEAN]

AVL == [kind: {"imm", "reg", "vlmax", "undef", "keep", "none"}, n: Nat, vn: Value]

\* avl: the AVL asked for; vt: the type asked for; dst: the scalar register
\* defined; undefMerge: inactive elements are undefined; store: no vector is
\* defined; float: a floating-point scalar is moved; usesMaskPolicy: of
\* TSFlags; readsVL: VL is an operand; n: the value of a load immediate.
Instruction ==
    [kind: VectorOps \cup {"vset", "def", "li", "use", "call", "none"}, avl: AVL,
     vt: VType, dst: Value, undefMerge: BOOLEAN, store: BOOLEAN, float: BOOLEAN,
     usesMaskPolicy: BOOLEAN, readsVL: BOOLEAN, n: Nat]

NoInstruction ==
    [kind |-> "none", avl |-> NoAVL, vt |-> NoVType, dst |-> NoValue, undefMerge |-> FALSE,
     store |-> FALSE, float |-> FALSE, usesMaskPolicy |-> FALSE, readsVL |-> FALSE, n |-> 0]

Places(code) == UNION {{<<b, k>> : k \in 1..Len(code[b])} : b \in DOMAIN code}

\* The places of the vsets of a function, and of the immediates that are not zero.
VsetsOf(f) == {p \in Places(f.code) : f.code[p[1]][p[2]].kind = "vset"}
NonZerosOf(f) ==
    {p \in Places(f.code) : LET I == f.code[p[1]][p[2]] IN I.kind = "li" /\ I.n > 0}

defines(I) == I.kind \in {"vset", "ff", "def", "li"} /\ I.dst.reg # "none"

\* The register and the place of each definition, those of the joins among
\* them.  Block 1 has no predecessors and no joins.
DefinitionsOf(f) ==
    {<<f.code[p[1]][p[2]].dst.reg, p>> :
        p \in {q \in Places(f.code) : defines(f.code[q[1]][q[2]])}} \cup
    {<<r, <<b, 0>>>> : r \in Registers, b \in 2..Len(f.code)}

\* An AVL of the function: a value is that of a definition.
AVLOf(f, avl) ==
    /\ avl.kind = "reg" =>
          /\ avl = AVLReg(avl.vn) /\ <<avl.vn.reg, avl.vn.def>> \in DefinitionsOf(f)
          /\ ~avl.vn.copy /\ (avl.vn.nonZero <=> avl.vn.def \in NonZerosOf(f))
    /\ avl.kind # "reg" => avl.vn = NoValue /\ (avl.kind # "imm" => avl.n = 0)

\* vlen: the exponent of VLEN; exactVLen: it is known; LIS: LiveIntervals are
\* there, with out, the place of the definition that reaches the end of a
\* block; F64: vectors of 64-bit floating point; roundDown: how the hart
\* chooses VL where the ISA leaves it open.  Block 1 alone has no predecessor,
\* and every block is reached from it.  Each type has a VLMAX of at least
\* one; no instruction keeps VL before the pass; and a value is defined before
\* it is read, so that no vsets ask for the output VLs of one another in a
\* circle.
WellFormed(f) ==
    /\ f.vlen \in 6..16 /\ {f.exactVLen, f.LIS, f.F64, f.roundDown} \subseteq BOOLEAN
    /\ f.code \in Seq(Seq(Instruction)) /\ f.code # <<>>
    /\ f.succ \in [1..Len(f.code) -> SUBSET (2..Len(f.code))]
    /\ f.out \in [1..Len(f.code) -> [Registers -> Nat \X Nat]]
    /\ \A b \in 1..Len(f.code) : \A k \in 1..Len(f.code[b]) :
          LET I == f.code[b][k] IN
          /\ I.avl.kind # "keep" /\ AVLOf(f, I.avl) /\ getSEWLMULRatio(I.vt) <= f.vlen
          /\ I.kind = "ff" => /\ I.dst.reg # "none"
                              /\ I.dst = [NoValue EXCEPT !.reg = I.dst.reg, !.def = <<b, k>>]
    /\ \A S \in SUBSET VsetsOf(f) \ {{}} :
          \E p \in S : LET a == f.code[p[1]][p[2]].avl IN a.kind = "reg" => a.vn.def \notin S

ASSUME FunctionsAssumption == \A f \in Functions : WellFormed(f)

VARIABLES
    fn,          \* the function, never changed
    phase,       \* of runOnMachineFunction, and then the hart
    Code,        \* the blocks as they are: was, what the function says there,
                 \* and now, the instruction that is there
    Pred, Exit,  \* BlockInfo
    WorkList,
    blk,         \* the next block of a loop over the blocks
    pc, vl, vtype, regs, vals,  \* the hart; vals: of each definition
    want         \* the registers by the meaning of the function

passVars == <<Code, Pred, Exit, WorkList, blk>>
hartVars == <<pc, vl, vtype, regs, vals, want>>
vars == <<fn, phase, passVars, hartVars>>

Blocks == 1..Len(fn.code)
predecessors(b) == {p \in Blocks : b \in fn.succ[p]}

-----------------------------------------------------------------------------
isVectorConfigInstr(I) == I.kind = "vset"
isVLPreservingConfig(I) == I.kind = "vset" /\ I.avl.kind = "keep"
hasSEWOp(I) == I.kind \in VectorOps
hasVLOp(I) == hasSEWOp(I) /\ I.kind # "extract"

\* Calls, inline assembly and fault-first loads write VL or VTYPE.
clobbersVL(I) == I.kind \in {"call", "ff"}

\* What an instruction depends on; explicit says that VL and VTYPE are among
\* its operands already.
getDemanded(I, explicit) ==
    LET vlAsked == hasVLOp(I) /\ (explicit \/ I.avl.kind # "undef")
        one == hasVLOp(I) /\ I.avl.kind = "imm" /\ I.avl.n = 1 /\ I.undefMerge
        wider == IF I.float /\ ~fn.F64 THEN SEWGreaterThanOrEqualAndLessThan64
                 ELSE SEWGreaterThanOrEqual
        start == [(IF vlAsked THEN All ELSE demandVTYPE(NothingDemanded)) EXCEPT
                     !.TailPolicy = ~I.store, !.MaskPolicy = I.usesMaskPolicy /\ ~I.store]
    IN  CASE I.kind = "call" -> All
          [] I.kind = "vset" /\ I.readsVL -> demandVL(NothingDemanded)
          [] I.kind \in {"arith", "ff"} \/ (I.kind \in {"slide", "splat"} /\ ~one) -> start
          [] I.kind \in {"mem", "mask"} -> [start EXCEPT !.SEW = SEWNone, !.LMUL = LMULNone]
          [] I.kind = "insert" ->
                [start EXCEPT !.LMUL = LMULNone, !.SEWLMULRatio = FALSE, !.VLAny = FALSE,
                              !.SEW = IF I.undefMerge THEN wider ELSE @,
                              !.TailPolicy = ~I.undefMerge]
          [] I.kind = "extract" ->
                [start EXCEPT !.LMUL = LMULNone, !.SEWLMULRatio = FALSE,
                              !.TailPolicy = FALSE, !.MaskPolicy = FALSE]
          [] I.kind = "slide" /\ one ->
                [start EXCEPT !.VLAny = FALSE, !.VLZeroness = TRUE,
                              !.LMUL = LMULLessThanOrEqualToM1, !.TailPolicy = FALSE]
          [] I.kind = "splat" /\ one ->
                [start EXCEPT !.LMUL = LMULLessThanOrEqualToM1, !.SEWLMULRatio = FALSE,
                              !.VLAny = FALSE, !.SEW = wider, !.TailPolicy = FALSE]
          [] I.kind \in {"def", "li", "use", "none"} \/ (I.kind = "vset" /\ ~I.readsVL) ->
                NothingDemanded

-----------------------------------------------------------------------------
\* The value as the pass knows it: without LiveIntervals, no definition.
Known(vn) == IF fn.LIS THEN vn ELSE [vn EXCEPT !.def = NoPlace, !.nonZero = FALSE]

\* An undefined AVL is taken as 1, as is that of an instruction without one.
operandAVL(avl) ==
    CASE avl.kind = "reg" -> AVLReg(Known(avl.vn))
      [] avl.kind \in {"imm", "vlmax"} -> avl
      [] avl.kind \in {"undef", "none"} -> AVLImm(1)

\* The instruction that defines an AVL, when it is neither a join nor a copy.
hasAVLDefMI(avl) ==
    avl.kind = "reg" /\ avl.vn.def # NoPlace /\ avl.vn.def[2] > 0 /\ ~avl.vn.copy
getAVLDefMI(avl) == fn.code[avl.vn.def[1]][avl.vn.def[2]]

\* An AVL is the output VL of a vset with the VLMAX of vt.
isOutputVL(avl, vt) ==
    /\ hasAVLDefMI(avl) /\ avl.vn.def \in VsetsOf(fn)
    /\ getSEWLMULRatio(getAVLDefMI(avl).vt) = getSEWLMULRatio(vt)

\* It is replaced by the AVL of that vset, over and over.
forwardVSETVLIAVL(avl, vt) ==
    LET source[p \in VsetsOf(fn)] ==
            LET a == operandAVL(fn.code[p[1]][p[2]].avl)
            IN  IF isOutputVL(a, vt) THEN source[a.vn.def] ELSE a
    IN  IF isOutputVL(avl, vt) THEN source[avl.vn.def] ELSE avl

getInfoForVSETVLI(I) == Info(forwardVSETVLIAVL(operandAVL(I.avl), I.vt), I.vt)

computeVLMAX(vt) == 2^(fn.vlen - getSEWLMULRatio(vt))

\* The policies are agnostic where inactive elements are undefined.
computeInfoForInstr(I) ==
    LET vt == [I.vt EXCEPT !.ta = @ \/ I.undefMerge,
                           !.ma = @ \/ I.undefMerge \/ ~I.usesMaskPolicy]
        avl == IF I.avl.kind = "vlmax" /\ fn.exactVLen /\ computeVLMAX(vt) <= 31
               THEN AVLImm(computeVLMAX(vt)) ELSE operandAVL(I.avl)
    IN  Info(forwardVSETVLIAVL(avl, vt), vt)

needVSETVLI(Used, Require, CurInfo) == ~isCompatible(CurInfo, Used, Require)

transferBefore(A, I) ==
    IF hasSEWOp(I) /\ needVSETVLI(getDemanded(I, FALSE), computeInfoForInstr(I), A)
    THEN changedFor(A, computeInfoForInstr(I), getDemanded(I, FALSE))
    ELSE A

transferAfter(A, I) ==
    CASE isVectorConfigInstr(I) -> getInfoForVSETVLI(I)
      [] I.kind = "ff" -> [A EXCEPT !.avl = AVLReg(Known(I.dst))]
      [] I.kind = "call" -> Unknown
      [] ~isVectorConfigInstr(I) /\ I.kind \notin {"ff", "call"} -> A

\* computeVLVTYPEChanges: the state at the end of code entered with A.
computeVLVTYPEChanges(code, A) ==
    FoldLeft(LAMBDA S, item : transferAfter(transferBefore(S, item.now), item.now), A, code)

HadVectorOp ==
    \E b \in Blocks : \E k \in 1..Len(Code[b]) :
        isVectorConfigInstr(Code[b][k].now) \/ hasSEWOp(Code[b][k].now)

-----------------------------------------------------------------------------
Vset(avl, vt) ==
    [NoInstruction EXCEPT !.kind = "vset", !.avl = avl, !.vt = vt, !.readsVL = (avl.kind = "keep")]

Inserted(I) == [was |-> NoInstruction, now |-> I]

Keep == [NoAVL EXCEPT !.kind = "keep"]

\* Mutant: the form that keeps VL is used whenever the AVL is the same.
insertVSETVLI_AnyRatio(A, Prev) ==
    Vset(IF hasSameAVL(A, Prev) THEN Keep ELSE A.avl, A.vt)

\* The instruction inserted for the state A where Prev holds.  Where the value
\* of the AVL is no longer in its register, a copy of it is read.
insertVSETVLI(A, Prev) ==
    LET same == hasSameAVL(A, Prev) /\ hasSameVLMAX(A, Prev)
        sameAsOutput ==
            /\ isKnown(Prev) /\ hasSameVLMAX(A, Prev)
            /\ hasAVLDefMI(A.avl) /\ isVectorConfigInstr(getAVLDefMI(A.avl))
            /\ LET Def == getInfoForVSETVLI(getAVLDefMI(A.avl))
               IN  hasSameAVL(Def, Prev) /\ hasSameVLMAX(Def, Prev)
    IN  Vset(IF same \/ sameAsOutput THEN Keep ELSE A.avl, A.vt)

\* The instruction whose value of register r reaches the end of block p.
reachingDef(p, r) ==
    IF fn.out[p][r][2] = 0 THEN NoInstruction ELSE fn.code[fn.out[p][r][1]][fn.out[p][r][2]]

\* A vset is needed unless the AVL is a join of block b of the output VLs of
\* the vsets that the predecessors end with.
needVSETVLIPHI(Require, b) ==
    \/ Require.avl.kind # "reg" \/ ~fn.LIS \/ Require.avl.vn.def # <<b, 0>>
    \/ \E p \in predecessors(b) :
          LET DefMI == reachingDef(p, Require.avl.vn.reg)
          IN  \/ ~isVectorConfigInstr(DefMI)
              \/ ~SameInfo(getInfoForVSETVLI(DefMI), Exit[p])
              \/ isUnknown(Exit[p]) \/ Exit[p].vt # Require.vt

\* The AVL register of an instruction is erased; the VL it reads is there now.
erased(item) ==
    IF hasSEWOp(item.now) /\ item.now.avl.kind = "reg" THEN [item EXCEPT !.now.avl = NoAVL]
    ELSE item

\* emitVSETVLIs for the code of block b.
emitted(b) ==
    LET step(S, item) ==
            LET I == item.now
                before == transferBefore(S.cur, I)
                changes == hasSEWOp(I) /\ ~isCompatible(S.cur, All, before)
                inserts == changes /\ (~S.prefix \/ needVSETVLIPHI(before, b))
            IN  [cur |-> transferAfter(before, I),
                 prefix |-> S.prefix /\ ~changes /\ ~isVectorConfigInstr(I) /\ ~clobbersVL(I),
                 code |-> S.code \o (IF inserts THEN <<Inserted(insertVSETVLI(before, S.cur))>>
                                     ELSE <<>>) \o <<erased(item)>>]
    IN  FoldLeft(step, [cur |-> Pred[b], prefix |-> TRUE, code |-> <<>>], Code[b]).code

-----------------------------------------------------------------------------
\* doPRE.  The predecessor of b at the end of which nothing is known, and what
\* is known at the end of the others.
unavailable(b) == {p \in predecessors(b) : isUnknown(Exit[p])}
availableInfo(b) ==
    LET others == predecessors(b) \ unavailable(b)
    IN  IF others = {} THEN Uninitialized ELSE Exit[Min(others)]

\* How the transitions in the code of b change when it is entered with A: until
\* the states are the same again.
preTransitions(b, A) ==
    LET step(S, item) ==
            IF S.done THEN S
            ELSE LET cur == transferBefore(S.cur, item.now)
                     old == transferBefore(S.old, item.now)
                     cur2 == transferAfter(cur, item.now)
                     old2 == transferAfter(old, item.now)
                 IN  [cur |-> cur2, old |-> old2,
                      removed |-> S.removed + (IF SameInfo(cur, S.cur) THEN 1 ELSE 0)
                                            - (IF SameInfo(old, S.old) THEN 1 ELSE 0),
                      done |-> SameInfo(cur2, old2)]
    IN  FoldLeft(step, [cur |-> A, old |-> Pred[b], removed |-> 0, done |-> FALSE], Code[b])

\* The AVL for a vset at the end of block p: where the register holds another
\* value by then, a copy of it.
availableAVL(p, avl) ==
    IF avl.kind = "reg" /\ fn.out[p][avl.vn.reg] # avl.vn.def
    THEN [avl EXCEPT !.vn.copy = TRUE, !.vn.nonZero = FALSE] ELSE avl

\* Mutant: the state at the end of the block is not asked about.
canPRE_AnyExit(b) ==
    LET A == availableInfo(b) IN
    /\ isUnknown(Pred[b]) /\ Cardinality(unavailable(b)) = 1 /\ isValid(A)
    /\ \A p \in predecessors(b) \ unavailable(b) : SameInfo(A, Exit[p])
    /\ fn.LIS /\ ~A.SEWLMULRatioOnly
    /\ \A p \in unavailable(b) :
          /\ fn.succ[p] = {b}
          /\ A.avl.kind = "reg" => A.avl.vn.def[1] = p
    /\ preTransitions(b, A).removed > 0

\* A vset at the end of the predecessor serves all that reaches b: it may be
\* inserted if b ends with the same state, and it saves one in b.
canPRE(b) ==
    LET A == availableInfo(b) IN
    /\ isUnknown(Pred[b]) /\ Cardinality(unavailable(b)) = 1 /\ isValid(A)
    /\ \A p \in predecessors(b) \ unavailable(b) : SameInfo(A, Exit[p])
    /\ fn.LIS /\ ~A.SEWLMULRatioOnly
    /\ \A p \in unavailable(b) :
          /\ fn.succ[p] = {b}
          /\ A.avl.kind = "reg" => A.avl.vn.def[1] = p
    /\ LET T == preTransitions(b, A) IN SameInfo(T.cur, T.old) /\ T.removed > 0

-----------------------------------------------------------------------------
Reads(I) ==
    IF I.kind = "use" THEN {I.dst.reg} ELSE IF I.avl.kind = "reg" THEN {I.avl.vn.reg} ELSE {}

ReadIn(code) == UNION {Reads(code[p[1]][p[2]].now) : p \in Places(code)}

\* A load immediate goes with the last of its uses.  Only its one instruction
\* defines its register.
withoutDeadImmediates(old, new) ==
    LET unused == ReadIn(old) \ ReadIn(new)
        live(item) == IF item.now.kind = "li" /\ item.now.dst.reg \in unused
                      THEN [item EXCEPT !.now = NoInstruction] ELSE item
    IN  [b \in Blocks |-> [k \in 1..Len(new[b]) |-> live(new[b][k])]]

\* Mutant: no output VL is ever read.
isDead_Always(dst, code) == TRUE

\* The output VL of a vset is not read, as the flag on it says: without
\* LiveIntervals nobody updates the flag.  A register whose value is read
\* somewhere is taken to be read after each vset that outputs it.
isDead(dst, code) ==
    dst.reg \notin IF fn.LIS THEN ReadIn(code)
                   ELSE UNION {Reads(fn.code[p[1]][p[2]]) : p \in Places(fn.code)}

hasOneDef(r, code) ==
    Cardinality({p \in Places(code) : LET I == code[p[1]][p[2]].now
                                      IN  I.kind # "use" /\ I.dst.reg = r}) = 1

\* Mutant: the types are not compared.
canMutatePriorConfig_AnyType(Prev, MI, Used, code) ==
    isVLPreservingConfig(MI) \/
    /\ ~Used.VLAny
    /\ Used.VLZeroness => /\ ~isVLPreservingConfig(Prev)
                          /\ hasEquallyZeroAVL(getInfoForVSETVLI(Prev), getInfoForVSETVLI(MI))
    /\ MI.avl.kind = "reg" => /\ hasOneDef(MI.avl.vn.reg, code)
                              /\ Prev.avl.kind = "reg" /\ Prev.avl.vn.reg = MI.avl.vn.reg

\* Prev may become MI, where what is between them depends on Used.
canMutatePriorConfig(Prev, MI, Used, code) ==
    /\ ~isVLPreservingConfig(MI) =>
          /\ ~Used.VLAny
          /\ Used.VLZeroness => /\ ~isVLPreservingConfig(Prev)
                                /\ hasEquallyZeroAVL(getInfoForVSETVLI(Prev), getInfoForVSETVLI(MI))
          /\ MI.avl.kind = "reg" => /\ hasOneDef(MI.avl.vn.reg, code)
                                    /\ Prev.avl.kind = "reg" /\ Prev.avl.vn.reg = MI.avl.vn.reg
    /\ areCompatibleVTYPEs(Prev.vt, MI.vt, Used)

mutated(Prev, MI) ==
    IF isVLPreservingConfig(MI) THEN [Prev EXCEPT !.vt = MI.vt]
    ELSE [Prev EXCEPT !.vt = MI.vt, !.avl = MI.avl, !.dst = MI.dst]

\* coalesceVSETVLIs for block b, from its end: a vset whose effect nobody sees
\* before the next one goes, or becomes the next one, which goes instead.
coalesced(b) ==
    LET step(k, S) ==
            LET I == S.code[k].now
                Whole == [Code EXCEPT ![b] = S.code]
                Used == IF isDead(I.dst, Whole) THEN S.Used ELSE demandVL(S.Used)
                Next == S.code[S.next].now
                M == mutated(I, Next)
            IN  IF ~isVectorConfigInstr(I)
                THEN [S EXCEPT !.Used = doUnion(@, getDemanded(I, TRUE)),
                               !.next = IF clobbersVL(I) THEN 0 ELSE @]
                ELSE IF S.next # 0 /\ Used = NothingDemanded
                THEN [S EXCEPT !.ToDelete = @ \cup {k}]
                ELSE IF S.next # 0 /\ canMutatePriorConfig(I, Next, Used, Whole)
                THEN [next |-> k, Used |-> getDemanded(M, TRUE),
                      code |-> [S.code EXCEPT ![k].now = M],
                      ToDelete |-> S.ToDelete \cup {S.next}]
                ELSE [S EXCEPT !.next = k, !.Used = getDemanded(I, TRUE)]
        n == Len(Code[b])
        End == FoldRight(step, [k \in 1..n |-> k],
                         [next |-> 0, Used |-> All, code |-> Code[b], ToDelete |-> {}])
    IN  [k \in 1..n |-> IF k \in End.ToDelete THEN [End.code[k] EXCEPT !.now = NoInstruction]
                        ELSE End.code[k]]

-----------------------------------------------------------------------------
(* runOnMachineFunction, in phases.                                         *)

\* Phase 1: how each block changes VL and VTYPE, whatever it is entered with.
CollectBlocks ==
    /\ phase = "collect"
    /\ Exit' = [b \in Blocks |-> computeVLVTYPEChanges(Code[b], Uninitialized)]
    /\ phase' = IF HadVectorOp THEN "incoming" ELSE "run"
    /\ WorkList' = IF HadVectorOp THEN [b \in Blocks |-> b] ELSE <<>>
    /\ UNCHANGED <<fn, Code, Pred, blk, hartVars>>

\* Mutant: a successor is pushed that is in the queue already.
enqueued_Always(queue, b) == queue \o SetToSeq(fn.succ[b])

\* The successors of b are pushed, but for those in the queue, in some order.
enqueued(queue, b) ==
    queue \o SetToSeq({s \in fn.succ[b] : \A i \in 1..Len(queue) : queue[i] # s})

\* What is known at the start of block b.
incomingInfo(b) ==
    IF predecessors(b) = {} THEN Unknown
    ELSE FoldSet(LAMBDA p, A : intersect(A, Exit[p]), Pred[b], predecessors(b))

\* Phase 2: the block at the front of the queue.
ComputeIncomingVLVTYPE ==
    /\ phase = "incoming" /\ WorkList # <<>>
    /\ LET b == Head(WorkList)
           InInfo == incomingInfo(b)
           changes == isValid(InInfo) /\ ~SameInfo(InInfo, Pred[b])
           TmpStatus == computeVLVTYPEChanges(Code[b], InInfo)
           propagates == changes /\ ~SameInfo(Exit[b], TmpStatus)
       IN  /\ Pred' = IF changes THEN [Pred EXCEPT ![b] = InInfo] ELSE Pred
           /\ Exit' = IF propagates THEN [Exit EXCEPT ![b] = TmpStatus] ELSE Exit
           /\ WorkList' = IF propagates THEN enqueued(Tail(WorkList), b) ELSE Tail(WorkList)
    /\ UNCHANGED <<fn, phase, Code, blk, hartVars>>

StartPRE ==
    /\ phase = "incoming" /\ WorkList = <<>> /\ phase' = "pre"
    /\ UNCHANGED <<fn, passVars, hartVars>>

\* The next block of a loop over the blocks, and the phase after the last.
NextBlock(this, next) ==
    IF blk = Len(fn.code) THEN blk' = 1 /\ phase' = next ELSE blk' = blk + 1 /\ phase' = this

DoPRE ==
    /\ phase = "pre" /\ NextBlock("pre", "emit")
    /\ IF canPRE(blk)
       THEN LET p == CHOOSE q \in unavailable(blk) : TRUE
                A == availableInfo(blk)
                I == Vset(availableAVL(p, A.avl), A.vt)
            IN  /\ Code' = [Code EXCEPT ![p] = Append(@, Inserted(I))]
                /\ Exit' = [Exit EXCEPT ![p] = A]
                /\ Pred' = [Pred EXCEPT ![blk] = A]
       ELSE UNCHANGED <<Code, Exit, Pred>>
    /\ UNCHANGED <<fn, WorkList, hartVars>>

\* Phase 3.
EmitVSETVLIs ==
    /\ phase = "emit" /\ NextBlock("emit", "coalesce")
    /\ LET New == [Code EXCEPT ![blk] = emitted(blk)]
       IN  Code' = IF fn.LIS THEN withoutDeadImmediates(Code, New) ELSE New
    /\ UNCHANGED <<fn, Pred, Exit, WorkList, hartVars>>

CoalesceVSETVLIs ==
    /\ phase = "coalesce" /\ NextBlock("coalesce", "run")
    /\ Code' = withoutDeadImmediates(Code, [Code EXCEPT ![blk] = coalesced(blk)])
    /\ UNCHANGED <<fn, Pred, Exit, WorkList, hartVars>>

-----------------------------------------------------------------------------
(* The hart.                                                                *)

\* VL for an AVL: the ISA leaves a choice between VLMAX and twice VLMAX.
vlOf(n, vt) ==
    LET VLMAX == computeVLMAX(vt)
    IN  IF n <= VLMAX THEN n
        ELSE IF n < 2 * VLMAX /\ fn.roundDown THEN (n + 1) \div 2 ELSE VLMAX

\* The value of an AVL: of the definition it names, or of its register.
avlValue(avl, vt) ==
    CASE avl.kind = "imm" -> avl.n
      [] avl.kind \in {"undef", "none"} -> 1
      [] avl.kind = "vlmax" -> computeVLMAX(vt)
      [] avl.kind = "reg" -> IF fn.LIS THEN vals[<<avl.vn.reg, avl.vn.def>>] ELSE regs[avl.vn.reg]

\* The VL an instruction of the function asks for, by the function's meaning.
wantedVL(I) ==
    vlOf(IF I.avl.kind = "reg" THEN want[I.avl.vn.reg] ELSE avlValue(I.avl, I.vt), I.vt)

At == Code[pc[1]][pc[2]]
InBlock == phase = "run" /\ pc[1] > 0 /\ pc[2] <= Len(Code[pc[1]])

EnterBlock(b) ==
    /\ pc' = <<b, 1>>
    /\ vals' = [d \in DOMAIN vals |-> IF d[2] = <<b, 0>> THEN regs[d[1]] ELSE vals[d]]

StartHart ==
    /\ phase = "run" /\ pc = <<0, 0>>
    /\ \E s \in Foreign : vl' = s.vl /\ vtype' = s.vt
    /\ EnterBlock(1)
    /\ UNCHANGED <<fn, phase, passVars, regs, want>>

\* One instruction of the function and what is there instead; v is the value it
\* defines where the model leaves that open.  The output of a fault-first load
\* is VL as the load leaves it, which insertReadVL has read right after it.
Execute ==
    /\ InBlock
    /\ \E v \in CASE At.was.kind = "def" -> Inputs
                  [] At.now.kind = "ff" -> IF vl = 0 THEN {0} ELSE {1, vl}
                  [] OTHER -> {0},
          s \in IF At.now.kind = "call" THEN Foreign ELSE {[vl |-> vl, vt |-> vtype]} :
          LET I == At.now
              keeps == I.kind = "vset" /\ I.avl.kind = "keep"
              newVL == CASE I.kind = "vset" /\ ~keeps -> vlOf(avlValue(I.avl, I.vt), I.vt)
                         [] I.kind = "ff" -> v
                         [] OTHER -> s.vl
              gives(J, vset) == CASE J.kind = "vset" -> vset [] J.kind = "li" -> J.n [] OTHER -> v
              d == I.dst
          IN  /\ vl' = newVL
              /\ vtype' = IF I.kind = "vset" THEN I.vt ELSE s.vt
              /\ regs' = IF defines(I) THEN [regs EXCEPT ![d.reg] = gives(I, newVL)] ELSE regs
              /\ vals' = IF defines(I) THEN [vals EXCEPT ![<<d.reg, d.def>>] = gives(I, newVL)]
                         ELSE vals
              /\ want' = IF defines(At.was)
                         THEN [want EXCEPT ![At.was.dst.reg] = gives(At.was, wantedVL(At.was))]
                         ELSE want
    /\ pc' = <<pc[1], pc[2] + 1>>
    /\ UNCHANGED <<fn, phase, passVars>>

Branch ==
    /\ phase = "run" /\ pc[1] > 0 /\ pc[2] > Len(Code[pc[1]])
    /\ IF fn.succ[pc[1]] = {} THEN phase' = "ended" /\ UNCHANGED <<pc, vals>>
       ELSE phase' = phase /\ \E b \in fn.succ[pc[1]] : EnterBlock(b)
    /\ UNCHANGED <<fn, passVars, vl, vtype, regs, want>>

Ended == phase = "ended" /\ UNCHANGED vars

Init ==
    /\ fn \in Functions /\ phase = "collect"
    /\ Code = [b \in Blocks |-> [k \in 1..Len(fn.code[b]) |->
                  [was |-> fn.code[b][k], now |-> fn.code[b][k]]]]
    /\ Pred = [b \in Blocks |-> Uninitialized] /\ Exit = Pred
    /\ WorkList = <<>> /\ blk = 1 /\ pc = <<0, 0>>
    /\ vl = 0 /\ vtype = NoVType
    /\ regs = [r \in Registers |-> 0] /\ want = regs
    /\ vals = [d \in DefinitionsOf(fn) |-> 0]

Pass ==
    \/ CollectBlocks \/ ComputeIncomingVLVTYPE \/ StartPRE
    \/ DoPRE \/ EmitVSETVLIs \/ CoalesceVSETVLIs
Next == Pass \/ StartHart \/ Execute \/ Branch \/ Ended

Spec == Init /\ [][Next]_vars
\* Weak fairness of the pass: it is a program, and takes its steps, the only
\* ones there are while InPass, where it always has one (nothing deadlocks).
InPass == phase \notin {"run", "ended"}
FairSpec == Spec /\ ([]<>~InPass \/ []<><<InPass>>_vars)
-----------------------------------------------------------------------------
(* Properties.                                                              *)

\* Types of the state.
TypeOK ==
    /\ phase \in {"collect", "incoming", "pre", "emit", "coalesce", "run", "ended"}
    /\ \A b \in Blocks : \A i \in {Pred[b], Exit[b]} :
          /\ i.State \in {"Uninitialized", "Unknown", "AVL"} /\ i.vt \in VType /\ i.avl \in AVL
          /\ i.State = "AVL" => i.avl.kind \in {"imm", "reg", "vlmax"}
    /\ \A i \in 1..Len(WorkList) : WorkList[i] \in Blocks
    /\ \A i, j \in 1..Len(WorkList) : i # j => WorkList[i] # WorkList[j]
    /\ vl \in Nat /\ vtype \in VType
    /\ regs \in [Registers -> Nat] /\ want \in [Registers -> Nat]

\* What asks for the AVL 1 and leaves inactive elements undefined needs less.
single(I) == I.kind \in {"splat", "slide"} /\ I.avl = AVLImm(1) /\ I.undefMerge

\* The type t is what a vector instruction asked for, or its result cannot tell t
\* from that.
typeServes(I, t) ==
    LET sameRatio == getSEWLMULRatio(t) = getSEWLMULRatio(I.vt)
        small == t.lmul <= 0 \/ t.lmul <= I.vt.lmul
        undisturbed ==
            ~I.undefMerge /\ ~I.store => /\ ~I.vt.ta => ~t.ta
                                         /\ I.usesMaskPolicy /\ ~I.vt.ma => ~t.ma
    IN  CASE I.kind \in {"mem", "mask"} -> sameRatio /\ undisturbed
          [] I.kind = "extract" -> t.sew = I.vt.sew
          [] I.kind = "insert" -> IF I.undefMerge THEN t.sew >= I.vt.sew
                                  ELSE t.sew = I.vt.sew /\ undisturbed
          [] I.kind = "splat" /\ single(I) -> t.sew >= I.vt.sew /\ small
          [] I.kind = "slide" /\ single(I) -> t.sew = I.vt.sew /\ sameRatio /\ small
          [] I.kind \in {"arith", "splat", "slide", "ff"} /\ ~single(I) ->
                undisturbed /\ t.sew = I.vt.sew /\ t.lmul = I.vt.lmul

\* Every vector instruction finds in VTYPE what it asked for, or as good.
TypesMeet == InBlock /\ hasSEWOp(At.was) => typeServes(At.was, vtype)

\* A floating-point scalar of less than 64 bits is not moved under SEW 64 where
\* the target has no vectors of 64-bit floating point (the comment on
\* SEWGreaterThanOrEqualAndLessThan64).
FloatsBelow64 ==
    InBlock /\ hasSEWOp(At.was) /\ At.was.float /\ At.was.vt.sew < 6 /\ ~fn.F64 => vtype.sew < 6

\* Every vector instruction finds in VL what it asked for, or as good.
LengthsMeet ==
    InBlock /\ hasVLOp(At.was) /\ At.was.avl.kind # "undef" =>
    LET I == At.was
    IN  CASE single(I) -> vl > 0
          [] I.kind = "insert" -> /\ wantedVL(I) > 0 => vl > 0
                                  /\ ~I.undefMerge /\ wantedVL(I) = 0 => vl = 0
          [] I.kind # "insert" /\ ~single(I) -> vl = wantedVL(I)

\* Every vector instruction finds what it needs beside its type.
OpsMeet == FloatsBelow64 /\ LengthsMeet

\* A scalar instruction reads what it would read without the pass, output VLs
\* among it.
ValuesAgree ==
    InBlock => \A r \in Reads([At.was EXCEPT !.avl = NoAVL]) : regs[r] = want[r]

\* The form of vset that keeps VL is only used where VLMAX stays, as the ISA
\* reserves any other use of it.
KeepsVL ==
    InBlock /\ isVLPreservingConfig(At.now) =>
        getSEWLMULRatio(At.now.vt) = getSEWLMULRatio(vtype)

\* What the dataflow says of VTYPE at the start of a block holds whenever the
\* block is entered.
IncomingTypesHold ==
    InBlock /\ pc[2] = 1 /\ HadVectorOp =>
    LET A == Pred[pc[1]] IN
    /\ isValid(A)
    /\ isKnown(A) => IF A.SEWLMULRatioOnly THEN getSEWLMULRatio(vtype) = getSEWLMULRatio(A.vt)
                     ELSE vtype = A.vt

\* And what it says of VL.
IncomingHolds ==
    /\ IncomingTypesHold
    /\ InBlock /\ pc[2] = 1 /\ HadVectorOp =>
       LET A == Pred[pc[1]] IN
       isKnown(A) /\ (A.avl.kind = "reg" => fn.LIS) => vl = vlOf(avlValue(A.avl, A.vt), A.vt)

\* A block that is emitted ends with the state that its successors were told
\* of (the assertion at the end of emitVSETVLIs).
DataflowAgrees ==
    phase = "emit" => \A b \in blk..Len(fn.code) :
                          SameInfo(computeVLVTYPEChanges(Code[b], Pred[b]), Exit[b])

\* The worklist drains and the pass ends.
PassTerminates == <>~InPass
=============================================================================
