---------------------- MODULE RISCVExpandAtomicPseudo -----------------------
(***************************************************************************)
(* The LR/SC loops of RISCVExpandAtomicPseudoInsts.cpp, executed by harts  *)
(* that share a word, with the operands RISCVISelLowering.cpp prepares for *)
(* the masked (8- and 16-bit) operations.  One action is one basic block   *)
(* of an expansion, cut where the block holds both an LR and an SC.        *)
(*                                                                         *)
(* RV32 and the .d forms are XLen = WordBits; the .w forms on RV64 are     *)
(* WordBits < XLen.                                                        *)
(***************************************************************************)
EXTENDS LLSC

MinMaxOps == {"Max", "Min", "UMax", "UMin"}
MaskedBinOps == {"Xchg", "Add", "Sub", "Nand"}

Num_(width) == 0..(2^width - 1)

\* The operations expandMI expands: the others have instructions of their own.
\* const: the operand of an xchg is a constant; junk: what an any-extended i32
\* operand holds above the word; folded: a branch on the result of the cmpxchg
\* follows it.
Expandable ==
    [op: {"Xchg"}, masked: {TRUE}, shift: ShiftAmts, val: Num_(ValWidth), const: BOOLEAN]
    \cup [op: (MaskedBinOps \ {"Xchg"}) \cup MinMaxOps, masked: {TRUE},
          shift: ShiftAmts, val: Num_(ValWidth)]
    \cup [op: {"Nand"}, masked: {FALSE}, shift: {0}, val: Num_(WordBits), junk: BOOLEAN]
    \cup [op: {"CmpXchg"}, masked: {TRUE}, shift: ShiftAmts,
          val: Num_(ValWidth), cmp: Num_(ValWidth), folded: BOOLEAN]
    \cup [op: {"CmpXchg"}, masked: {FALSE}, shift: {0},
          val: Num_(WordBits), cmp: Num_(WordBits), folded: BOOLEAN, junk: BOOLEAN]

ASSUME CallsAssumption == Calls \subseteq Expandable
ASSUME StoresAssumption == \A w \in Word : Stores(w) \subseteq Word
-----------------------------------------------------------------------------
(* emitMaskedAtomicRMWIntrinsic and emitMaskedAtomicCmpXchgIntrinsic.       *)

\* An xchg with constant 0 or -1 becomes an amoand or amoor of the word.
IsAMO(c) == c.op = "Xchg" /\ c.const /\ c.val \in {0, 2^ValWidth - 1}

\* Mutant: the or is of the whole register.
AMOValue_Register(c, w) ==
    IF c.val = 0 THEN w \ Mask_(c) ELSE w \cup SExt(Mask_(c))

\* amoand.w with the inverted mask, or amoor.w with the mask.
AMOValue(c, w) == IF c.val = 0 THEN w \ Mask_(c) ELSE w \cup Mask_(c)

IncrReg(c) ==
    IF ~c.masked THEN AnyExt(c, c.val)
    ELSE IF c.op \in {"Min", "Max"} THEN SExt(SExtShifted(c, c.val))
    ELSE SExt(ZExtShifted(c, c.val))

MaskReg(c) == SExt(Mask_(c))

\* Mutant: the shift amount is that of the part, not of its top bit.
SextShamt_Low(c) == c.shift

SextShamt(c) == (XLen - ValWidth) - c.shift

\* cmp is sign-extended (getExtendForAtomicCmpSwapArg), as LR.W's result is.
CmpValReg(c) == IF c.masked THEN SExt(ZExtShifted(c, c.cmp)) ELSE SExt(Num(c.cmp))

NewValReg(c) == IF c.masked THEN SExt(ZExtShifted(c, c.val)) ELSE AnyExt(c, c.val)
-----------------------------------------------------------------------------
(* The expansions.                                                          *)

\* Mutant: the merge forgets to restrict the difference to the mask.
insertMaskedMerge_NoMask(old, new, mask) == Xor(old, Xor(old, new))

insertMaskedMerge(old, new, mask) == Xor(old, And(Xor(old, new), mask))

insertSext(r, shamt) == Sra(Sll(r, shamt), shamt)

\* The binop of the loop on the loaded value.
BinOp(op, dest, incr) ==
    CASE op = "Xchg" -> incr
      [] op = "Add"  -> Add(dest, incr)
      [] op = "Sub"  -> Sub(dest, incr)
      [] op = "Nand" -> Not(And(dest, incr))

\* What the loop of a binop stores; the only unmasked one is a nand.
BinOpValue(c, dest) ==
    IF c.masked THEN insertMaskedMerge(dest, BinOp(c.op, dest, IncrReg(c)), MaskReg(c))
                ELSE Not(And(dest, IncrReg(c)))

\* What the body of a min/max loop stores when the part has to change.
MinMaxValue(c, dest) == insertMaskedMerge(dest, IncrReg(c), MaskReg(c))

\* The branch of a min/max loop head: the loaded part needs no change.
NoChangeNeeded(c, dest) ==
    LET scratch2 == And(dest, MaskReg(c))
        signed == insertSext(scratch2, SextShamt(c))
    IN CASE c.op = "Max"  -> Sgn(signed) >= Sgn(IncrReg(c))
         [] c.op = "Min"  -> Sgn(IncrReg(c)) >= Sgn(signed)
         [] c.op = "UMax" -> Uns[scratch2] >= Uns[IncrReg(c)]
         [] c.op = "UMin" -> Uns[IncrReg(c)] >= Uns[scratch2]

\* The branch of a cmpxchg loop head.
Matches(c, dest) ==
    IF c.masked THEN And(dest, MaskReg(c)) = CmpValReg(c) ELSE dest = CmpValReg(c)

CmpXchgValue(c, dest) ==
    IF c.masked THEN insertMaskedMerge(dest, NewValReg(c), MaskReg(c)) ELSE NewValReg(c)

\* Mutant: the folded branch keeps the loop's own target.
LoopHeadBNETarget_Done(c) == "done"

\* Mutant: the loop head's branch on a mismatch goes back to the loop head.
LoopHeadBNETarget_Loop(c) == "cmpxchg.loophead"

\* tryToFoldBNEOnCmpXchgResult: the loop head's branch takes the target of a
\* branch on the result that follows the cmpxchg.  That branch is deleted, or,
\* when yet another instruction follows it, left where it is never taken.
LoopHeadBNETarget(c) == IF c.folded THEN "bnetarget" ELSE "done"

\* The block a call starts in.
Entry(c) ==
    IF IsAMO(c) THEN "amo"
    ELSE IF c.op \in MinMaxOps THEN "minmax.loophead"
    ELSE IF c.op = "CmpXchg" THEN "cmpxchg.loophead"
    ELSE "binop.loop"
-----------------------------------------------------------------------------
Invoke(h) ==
    /\ pc[h] = "idle"
    /\ \E c \in Calls : /\ call' = [call EXCEPT ![h] = c]
                        /\ Goto(h, Entry(c))
    /\ UNCHANGED <<mem, resv, Dest, Scratch>>

AMO(h) ==
    /\ pc[h] = "amo"
    /\ Dest' = [Dest EXCEPT ![h] = SExt(mem)]
    /\ mem' = AMOValue(call[h], mem)
    /\ resv' = {}
    /\ Goto(h, "done")
    /\ UNCHANGED <<call, Scratch>>

\* LoopMBB up to the SC: lr; binop; masked merge.
BinOpLoad(h) ==
    /\ pc[h] = "binop.loop"
    /\ LoadLinked(h)
    /\ SetScratch(h, BinOpValue(call[h], SExt(mem)))
    /\ Goto(h, "binop.sc")

\* LoopHeadMBB: lr; and; mv; [sext]; bge looptail.
MinMaxHead(h) ==
    /\ pc[h] = "minmax.loophead"
    /\ LoadLinked(h)
    /\ SetScratch(h, SExt(mem))
    /\ Goto(h, IF NoChangeNeeded(call[h], SExt(mem)) THEN "minmax.looptail"
                                                     ELSE "minmax.loopifbody")

\* LoopIfBodyMBB: the masked merge.
MinMaxIfBody(h) ==
    /\ pc[h] = "minmax.loopifbody"
    /\ SetScratch(h, MinMaxValue(call[h], Dest[h]))
    /\ Goto(h, "minmax.looptail")
    /\ UNCHANGED <<mem, resv, call, Dest>>

\* LoopHeadMBB: lr; [and]; bne done, or the target of the folded branch.
CmpXchgHead(h) ==
    /\ pc[h] = "cmpxchg.loophead"
    /\ LoadLinked(h)
    /\ Goto(h, IF Matches(call[h], SExt(mem)) THEN "cmpxchg.looptail"
                                               ELSE LoopHeadBNETarget(call[h]))
    /\ UNCHANGED Scratch

\* The register the SC of each loop stores.
StoredReg(h) ==
    IF pc[h] = "cmpxchg.looptail" THEN CmpXchgValue(call[h], Dest[h]) ELSE Scratch[h]

\* Where the bnez after the SC of each loop branches back to.
LoopStart(block) ==
    IF block = "binop.sc" THEN "binop.loop"
    ELSE IF block = "minmax.looptail" THEN "minmax.loophead"
    ELSE "cmpxchg.loophead"

Tails == {"binop.sc", "minmax.looptail", "cmpxchg.looptail"}

\* The blocks between a load-linked and its store-conditional.
Loaded == Tails \cup {"minmax.loopifbody"}

\* Mutant: the branch back after a failed SC is missing.
StoreFails_FallsThrough(h) ==
    /\ pc[h] \in Tails
    /\ SCFails(h, "done")
    /\ SetScratch(h, {0})

StoreSucceeds(h) ==
    /\ pc[h] \in Tails
    /\ SCSucceeds(h, StoredReg(h), "done")
    /\ SetScratch(h, {})

StoreFails(h) ==
    /\ pc[h] \in Tails
    /\ SCFails(h, LoopStart(pc[h]))
    /\ SetScratch(h, {0})

Step(h) == AMO(h) \/ BinOpLoad(h) \/ MinMaxHead(h) \/ MinMaxIfBody(h)
           \/ CmpXchgHead(h) \/ StoreSucceeds(h) \/ StoreFails(h) \/ Return(h)

Init == InitLLSC

Next == Environment \/ \E h \in Hart : Invoke(h) \/ Step(h)

Spec == Init /\ [][Next]_vars

\* The other agents do not store to the word for ever.
StoresEnd == <>[][~ForeignStore]_vars

\* A hart keeps executing, and, unless others store for ever, when harts hold a
\* reservation at their SC, or on the way to it, again and again, some SC succeeds
\* again and again: the forward progress the ISA grants constrained LR/SC loops.
Fairness ==
    /\ \A h \in Hart : WF_vars(Step(h))
    /\ []<>(\E h \in resv : pc[h] \in Loaded) /\ StoresEnd
          => []<><<\E h \in Hart : StoreSucceeds(h)>>_vars

FairSpec == Spec /\ Fairness
-----------------------------------------------------------------------------
TypeOK ==
    /\ mem \in Word
    /\ resv \subseteq Hart
    /\ pc \in [Hart -> Returned \cup {"idle", "amo", "binop.loop", "minmax.loophead",
                        "minmax.loopifbody", "cmpxchg.loophead"} \cup Tails]
    /\ call \in [Hart -> Calls \cup {NoCall}]
    /\ Dest \in [Hart -> Reg]
    /\ Scratch \in [Hart -> Reg]

\* What the program learns of the call: the value in DestReg and, of a cmpxchg,
\* whether it exchanged, from the block a folded branch led to or by comparing.
ReplyIn(c, block, dest) ==
    LET old == Extracted(c, dest)
    IN [old |-> old,
        success |-> /\ c.op = "CmpXchg"
                    /\ IF c.folded THEN block # "bnetarget" ELSE old = c.cmp]

Status == [h \in Hart |-> IF pc[h] = "idle" THEN "idle"
                          ELSE IF pc[h] \in Returned THEN "done" ELSE "pending"]
Replies == [h \in Hart |-> IF pc[h] \in Returned THEN ReplyIn(call[h], pc[h], Dest[h])
                                                 ELSE NoReply]

\* Every expansion is an atomic operation of the IR on the part of the word it
\* names: no update of another hart, and no store to a neighbouring part, is
\* ever lost, and the value returned is the one replaced.
IR == INSTANCE AtomicObject WITH
    word <- mem, status <- Status, reply <- Replies,
    Effect <- IREffect, Reply <- IRReply
ImplementsIR == IR!Spec

\* A hart's masked operation never changes the rest of the word, whatever other
\* agents store there while it runs.
NeighboursKept ==
    [][\A h \in Hart :
          Step(h) => mem' \ MaskBits(call[h]) = mem \ MaskBits(call[h])]_vars

\* Some call completes, once others have stopped storing to the word: no hart's
\* retries keep every hart retrying.
SomeCallCompletes ==
    StoresEnd => ((\E h \in Hart : pc[h] # "idle") ~> (\E h \in Hart : pc[h] \in Returned))
-----------------------------------------------------------------------------
(* What a pass over an expansion that nobody disturbs makes of the word, and *)
(* the result it leaves.                                                     *)

ExpansionEffect(c, w) ==
    IF IsAMO(c) THEN AMOValue(c, w)
    ELSE IF c.op \in MinMaxOps
      THEN IF NoChangeNeeded(c, SExt(w)) THEN w ELSE Trunc(MinMaxValue(c, SExt(w)))
    ELSE IF c.op = "CmpXchg"
      THEN IF Matches(c, SExt(w)) THEN Trunc(CmpXchgValue(c, SExt(w))) ELSE w
    ELSE Trunc(BinOpValue(c, SExt(w)))

ExpansionReply(c, w) ==
    LET old == Extracted(c, SExt(w))
    IN [old |-> old,
        success |-> /\ c.op = "CmpXchg"
                    /\ IF c.folded THEN Matches(c, SExt(w)) ELSE old = c.cmp]

Computes(c, w) ==
    ExpansionEffect(c, w) = IREffect(c, w) /\ ExpansionReply(c, w) = IRReply(c, w)

\* Undisturbed, every expansion computes what the IR says of the operation.
ComputesIR == \A c \in Calls : \A w \in Word : Computes(c, w)

\* The same of the calls the harts are in and the word they find: run from here
\* without disturbance, the expansion computes the IR operation.
PendingCallsComputeIR == \A h \in Hart : pc[h] # "idle" => Computes(call[h], mem)
=============================================================================
