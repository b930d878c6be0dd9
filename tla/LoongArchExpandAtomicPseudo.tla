--------------------- MODULE LoongArchExpandAtomicPseudo ---------------------
(***************************************************************************)
(* The LL/SC loops of LoongArchExpandAtomicPseudoInsts.cpp, executed by    *)
(* harts that share a word, with the operands LoongArchISelLowering.cpp    *)
(* prepares for the masked operations.  One action is one basic block of   *)
(* an expansion, cut where the block holds both an LL and an SC.           *)
(*                                                                         *)
(* LA32 and the .d forms of LA64 are GRLen = WordBits; the .w forms of     *)
(* LA64 are WordBits < GRLen.                                              *)
(***************************************************************************)
EXTENDS LLSC

CONSTANTS IsLA64   \* the subtarget feature

GRLen == XLen

ASSUME SubtargetAssumption ==
    /\ IsLA64 \in BOOLEAN
    /\ GRLen % WordBits = 0
    /\ ~IsLA64 => GRLen = WordBits

MinMaxOps == {"Max", "Min", "UMax", "UMin"}
MaskedBinOps == {"Xchg", "Add", "Sub", "Nand"}
LA32BinOps == {"Xchg", "Nand", "Add", "Sub", "And", "Or", "Xor"}

Num_(width) == 0..(2^width - 1)

\* The masked operations, on words: int_loongarch_masked_*; LA32 has neither the
\* min/max nor the cmpxchg.
MaskedCalls ==
    [op: {"Xchg"}, masked: {TRUE}, shift: ShiftAmts, val: Num_(ValWidth), const: BOOLEAN]
    \cup [op: (MaskedBinOps \ {"Xchg"}) \cup IF IsLA64 THEN MinMaxOps ELSE {},
          masked: {TRUE}, shift: ShiftAmts, val: Num_(ValWidth)]
    \cup [op: IF IsLA64 THEN {"CmpXchg"} ELSE {}, masked: {TRUE}, shift: ShiftAmts,
          val: Num_(ValWidth), cmp: Num_(ValWidth)]

\* The unmasked ones: LA64 has am*.[w|d] instructions for the other binops.
UnmaskedCalls ==
    [op: IF IsLA64 THEN {"Nand"} ELSE LA32BinOps, masked: {FALSE}, shift: {0},
     val: Num_(WordBits), junk: BOOLEAN]
    \cup [op: IF IsLA64 THEN {"CmpXchg"} ELSE {}, masked: {FALSE}, shift: {0},
          val: Num_(WordBits), cmp: Num_(WordBits), junk: BOOLEAN]

Expandable == UnmaskedCalls \cup IF IsLA64 /\ GRLen = WordBits THEN {} ELSE MaskedCalls

ASSUME CallsAssumption == Calls \subseteq Expandable
ASSUME StoresAssumption == \A w \in Word : Stores(w) \subseteq Word
-----------------------------------------------------------------------------
(* emitMaskedAtomicRMWIntrinsic and emitMaskedAtomicCmpXchgIntrinsic.       *)

\* An xchg with constant 0 or -1 becomes an and or an or of the word: amand.w or
\* amor.w on LA64, one more LL/SC loop on LA32.
IsConstXchg(c) ==
    c.op = "Xchg" /\ c.masked /\ c.const /\ c.val \in {0, 2^ValWidth - 1}
IsAMO(c) == IsLA64 /\ IsConstXchg(c)

\* Mutant: the or is of the whole register.
AMOValue_Register(c, w) ==
    IF c.val = 0 THEN w \ Mask_(c) ELSE w \cup SExt(Mask_(c))

AMOValue(c, w) == IF c.val = 0 THEN w \ Mask_(c) ELSE w \cup Mask_(c)

MaskReg(c) == SExt(Mask_(c))

\* Mutant: the and takes the mask itself.
IncrReg_MaskKept(c) ==
    IF ~c.masked THEN AnyExt(c, c.val)
    ELSE IF IsConstXchg(c) THEN MaskReg(c)
    ELSE IF c.op \in {"Min", "Max"} THEN SExt(SExtShifted(c, c.val))
    ELSE SExt(ZExtShifted(c, c.val))

IncrReg(c) ==
    IF ~c.masked THEN AnyExt(c, c.val)
    ELSE IF IsConstXchg(c) THEN IF c.val = 0 THEN Not(MaskReg(c)) ELSE MaskReg(c)
    ELSE IF c.op \in {"Min", "Max"} THEN SExt(SExtShifted(c, c.val))
    ELSE SExt(ZExtShifted(c, c.val))

SextShamt(c) == (GRLen - ValWidth) - c.shift

\* Mutant: the comparison operand is not sign-extended as LL.W's result is.
CmpValReg_ZExt(c) == IF c.masked THEN ZExtShifted(c, c.cmp) ELSE Num(c.cmp)

CmpValReg(c) == IF c.masked THEN SExt(ZExtShifted(c, c.cmp)) ELSE SExt(Num(c.cmp))

NewValReg(c) == IF c.masked THEN SExt(ZExtShifted(c, c.val)) ELSE AnyExt(c, c.val)
-----------------------------------------------------------------------------
(* The expansions.                                                          *)

insertMaskedMerge(old, new, mask) == Xor(old, And(Xor(old, new), mask))

\* sll.w and sra.w.
insertSext(r, shamt) == SraW(SllW(r, shamt), shamt)

\* The binop of an unmasked loop on the loaded value.
BinOp(op, dest, incr) ==
    CASE op = "Xchg" -> incr
      [] op = "Nand" -> Not(And(dest, incr))
      [] op = "Add"  -> WordOp(Add(dest, incr))
      [] op = "Sub"  -> WordOp(Sub(dest, incr))
      [] op = "And"  -> And(dest, incr)
      [] op = "Or"   -> Or(dest, incr)
      [] op = "Xor"  -> Xor(dest, incr)

\* Of a masked one: addi.w, add.w, sub.w, and nor.
MaskedBinOp(op, dest, incr) ==
    CASE op = "Xchg" -> WordOp(incr)
      [] op = "Add"  -> WordOp(Add(dest, incr))
      [] op = "Sub"  -> WordOp(Sub(dest, incr))
      [] op = "Nand" -> Not(And(dest, incr))

BinOpValue(c, dest) ==
    IF IsConstXchg(c) THEN BinOp(IF c.val = 0 THEN "And" ELSE "Or", dest, IncrReg(c))
    ELSE IF ~c.masked THEN BinOp(c.op, dest, IncrReg(c))
    ELSE insertMaskedMerge(dest, MaskedBinOp(c.op, dest, IncrReg(c)), MaskReg(c))

MinMaxValue(c, dest) == insertMaskedMerge(dest, IncrReg(c), MaskReg(c))

\* The branch of a min/max loop head: the loaded part needs no change.
NoChangeNeeded(c, dest) ==
    LET scratch2 == And(dest, MaskReg(c))
        signed == insertSext(scratch2, SextShamt(c))
    IN CASE c.op = "UMax" -> Uns[scratch2] >= Uns[IncrReg(c)]
         [] c.op = "UMin" -> Uns[IncrReg(c)] >= Uns[scratch2]
         [] c.op = "Max"  -> Sgn(signed) >= Sgn(IncrReg(c))
         [] c.op = "Min"  -> Sgn(IncrReg(c)) >= Sgn(signed)

Matches(c, dest) ==
    IF c.masked THEN And(dest, MaskReg(c)) = CmpValReg(c) ELSE dest = CmpValReg(c)

\* Mutant: the old bits of the part are not cleared.
CmpXchgValue_NoAndn(c, dest) ==
    IF c.masked THEN Or(dest, NewValReg(c)) ELSE NewValReg(c)

\* andn, or.
CmpXchgValue(c, dest) ==
    IF c.masked THEN Or(dest \ MaskReg(c), NewValReg(c)) ELSE NewValReg(c)

Entry(c) ==
    IF IsAMO(c) THEN "amo"
    ELSE IF c.op \in MinMaxOps THEN "minmax.loophead"
    ELSE IF c.op = "CmpXchg" THEN "cmpxchg.loophead"
    ELSE "binop.loop"
-----------------------------------------------------------------------------
Invoke(h) ==
    /\ pc[h] = "idle"
    /\ \E c \in Calls : /\ call' = [call EXCEPT ![h] = c]
                        /\ Goto(h, Entry(c))
    /\ UNCHANGED <<mem, resv, Dest, Scratch>>

\* amand.w with the inverted mask, or amor.w with the mask.
AMO(h) ==
    /\ pc[h] = "amo"
    /\ Dest' = [Dest EXCEPT ![h] = SExt(mem)]
    /\ mem' = AMOValue(call[h], mem)
    /\ resv' = {}
    /\ Goto(h, "done")
    /\ UNCHANGED <<call, Scratch>>

\* LoopMBB up to the SC: ll; binop; masked merge.
BinOpLoad(h) ==
    /\ pc[h] = "binop.loop"
    /\ LoadLinked(h)
    /\ SetScratch(h, BinOpValue(call[h], SExt(mem)))
    /\ Goto(h, "binop.sc")

\* LoopHeadMBB: ll; and; move; [sext]; bge looptail.
MinMaxHead(h) ==
    /\ pc[h] = "minmax.loophead"
    /\ LoadLinked(h)
    /\ SetScratch(h, SExt(mem))
    /\ Goto(h, IF NoChangeNeeded(call[h], SExt(mem)) THEN "minmax.looptail"
                                                     ELSE "minmax.loopifbody")

\* LoopIfBodyMBB: the masked merge.
MinMaxIfBody(h) ==
    /\ pc[h] = "minmax.loopifbody"
    /\ SetScratch(h, MinMaxValue(call[h], Dest[h]))
    /\ Goto(h, "minmax.looptail")
    /\ UNCHANGED <<mem, resv, call, Dest>>

\* LoopHeadMBB: ll; [and]; bne tail.
CmpXchgHead(h) ==
    /\ pc[h] = "cmpxchg.loophead"
    /\ LoadLinked(h)
    /\ Goto(h, IF Matches(call[h], SExt(mem)) THEN "cmpxchg.looptail" ELSE "cmpxchg.tail")
    /\ UNCHANGED Scratch

\* TailMBB: the barrier of a failed cmpxchg.
CmpXchgTail(h) ==
    /\ pc[h] = "cmpxchg.tail"
    /\ Goto(h, "done")
    /\ UNCHANGED <<mem, resv, call, Dest, Scratch>>

StoredReg(h) ==
    IF pc[h] = "cmpxchg.looptail" THEN CmpXchgValue(call[h], Dest[h]) ELSE Scratch[h]

\* Mutant: the beqz of a cmpxchg goes back to the looptail, without a new LL.
LoopStart_Tail(block) ==
    IF block = "binop.sc" THEN "binop.loop"
    ELSE IF block = "minmax.looptail" THEN "minmax.loophead"
    ELSE "cmpxchg.looptail"

\* Where the beqz after the SC of each loop branches back to.
LoopStart(block) ==
    IF block = "binop.sc" THEN "binop.loop"
    ELSE IF block = "minmax.looptail" THEN "minmax.loophead"
    ELSE "cmpxchg.loophead"

Tails == {"binop.sc", "minmax.looptail", "cmpxchg.looptail"}

\* The blocks between a load-linked and its store-conditional.
Loaded == Tails \cup {"minmax.loopifbody"}

\* SC writes 1 on success, 0 on failure.
StoreFails(h) ==
    /\ pc[h] \in Tails
    /\ SCFails(h, LoopStart(pc[h]))
    /\ SetScratch(h, {})

StoreSucceeds(h) ==
    /\ pc[h] \in Tails
    /\ SCSucceeds(h, StoredReg(h), "done")
    /\ SetScratch(h, {0})

Step(h) == AMO(h) \/ BinOpLoad(h) \/ MinMaxHead(h) \/ MinMaxIfBody(h) \/ CmpXchgHead(h)
           \/ CmpXchgTail(h) \/ StoreSucceeds(h) \/ StoreFails(h) \/ Return(h)

Init == InitLLSC

Next == Environment \/ \E h \in Hart : Invoke(h) \/ Step(h)

Spec == Init /\ [][Next]_vars

\* The other agents do not store to the word for ever.
StoresEnd == <>[][~ForeignStore]_vars

\* A hart keeps executing, and, unless others store for ever, when harts hold a
\* reservation at their SC, or on the way to it, again and again, some SC succeeds
\* again and again: the forward progress LL/SC loops are given.
Fairness ==
    /\ \A h \in Hart : WF_vars(Step(h))
    /\ []<>(\E h \in resv : pc[h] \in Loaded) /\ StoresEnd
          => []<><<\E h \in Hart : StoreSucceeds(h)>>_vars

FairSpec == Spec /\ Fairness
-----------------------------------------------------------------------------
TypeOK ==
    /\ mem \in Word
    /\ resv \subseteq Hart
    /\ pc \in [Hart -> Tails \cup {"idle", "done", "amo", "binop.loop", "minmax.loophead",
                        "minmax.loopifbody", "cmpxchg.loophead", "cmpxchg.tail"}]
    /\ call \in [Hart -> Calls \cup {NoCall}]
    /\ Dest \in [Hart -> Reg]
    /\ Scratch \in [Hart -> Reg]

\* What the program learns of the call: it compares the returned value itself.
ReplyIn(c, dest) ==
    LET old == Extracted(c, dest)
    IN [old |-> old, success |-> c.op = "CmpXchg" /\ old = c.cmp]

\* A cmpxchg that does not match has taken effect once its LL has read the word.
Status == [h \in Hart |-> IF pc[h] = "idle" THEN "idle"
                          ELSE IF pc[h] \in {"done", "cmpxchg.tail"} THEN "done"
                          ELSE "pending"]
Replies == [h \in Hart |-> IF Status[h] = "done" THEN ReplyIn(call[h], Dest[h]) ELSE NoReply]

\* Every expansion is an atomic operation of the IR on the part of the word it
\* names: no update of another hart, and no store to a neighbouring part, is
\* ever lost, and the value returned is the one replaced.
IR == INSTANCE AtomicObject WITH
    word <- mem, status <- Status, reply <- Replies,
    Effect <- IREffect, Reply <- IRReply
ImplementsIR == IR!Spec

\* Some call completes, once others have stopped storing to the word: no hart's
\* retries keep every hart retrying.
SomeCallCompletes ==
    StoresEnd => ((\E h \in Hart : pc[h] # "idle") ~> (\E h \in Hart : pc[h] = "done"))
-----------------------------------------------------------------------------
(* What a pass over an expansion that nobody disturbs makes of the word.     *)

ExpansionEffect(c, w) ==
    IF IsAMO(c) THEN AMOValue(c, w)
    ELSE IF c.op \in MinMaxOps
      THEN IF NoChangeNeeded(c, SExt(w)) THEN w ELSE Trunc(MinMaxValue(c, SExt(w)))
    ELSE IF c.op = "CmpXchg"
      THEN IF Matches(c, SExt(w)) THEN Trunc(CmpXchgValue(c, SExt(w))) ELSE w
    ELSE Trunc(BinOpValue(c, SExt(w)))

Computes(c, w) ==
    ExpansionEffect(c, w) = IREffect(c, w) /\ ReplyIn(c, SExt(w)) = IRReply(c, w)

\* Undisturbed, every expansion computes what the IR says of the operation.
ComputesIR == \A c \in Calls : \A w \in Word : Computes(c, w)

\* The same of the calls the harts are in and the word they find: run from here
\* without disturbance, the expansion computes the IR operation.
PendingCallsComputeIR == \A h \in Hart : pc[h] # "idle" => Computes(call[h], mem)
=============================================================================
