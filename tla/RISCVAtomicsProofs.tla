------------------------ MODULE RISCVAtomicsProofs -------------------------
(***************************************************************************)
(* For every number of harts, every width, every set of calls and every    *)
(* behaviour of the other agents: the loops of RISCVExpandAtomicPseudo are *)
(* type-correct, leave the neighbouring parts of the word alone, compute   *)
(* what the IR says when nobody disturbs them, and act as single atomic    *)
(* updates; so they implement the IR's operations.                         *)
(***************************************************************************)
EXTENDS RISCVExpandAtomicPseudo, AtomicWordProofs, TLAPS

LEMMA MaskRegInReg == ASSUME NEW c PROVE MaskReg(c) \in Reg
BY MaskInWord, SExtInReg DEF MaskReg

\* A masked merge of registers is a register, whatever the new value is.
LEMMA MergeInReg ==
    ASSUME NEW old \in Reg, NEW new, NEW mask \in Reg
    PROVE  insertMaskedMerge(old, new, mask) \in Reg
BY DEF insertMaskedMerge, Xor, And, Reg

\* The merge takes the masked bits from the new value and the rest from the old.
LEMMA MergeBits ==
    ASSUME NEW old, NEW new, NEW mask
    PROVE  insertMaskedMerge(old, new, mask) = (old \ mask) \cup (new \cap mask)
BY DEF insertMaskedMerge, Xor, And

\* What an SC may store is a register.
LEMMA BinOpValueInReg ==
    ASSUME NEW c, NEW dest \in Reg PROVE BinOpValue(c, dest) \in Reg
<1>1. CASE c.masked
  BY <1>1, MergeInReg, MaskRegInReg DEF BinOpValue
<1>2. CASE ~c.masked
  BY <1>2 DEF BinOpValue, Not, Reg
<1> QED BY <1>1, <1>2

LEMMA MinMaxValueInReg ==
    ASSUME NEW c, NEW dest \in Reg PROVE MinMaxValue(c, dest) \in Reg
BY MergeInReg, MaskRegInReg DEF MinMaxValue

LEMMA AMOValueInWord ==
    ASSUME NEW c, NEW w \in Word PROVE AMOValue(c, w) \in Word
BY MaskInWord DEF AMOValue, Word

\* A hart's step keeps the types.
LEMMA StepTypes ==
    ASSUME TypeOK, NEW h \in Hart, Step(h) PROVE TypeOK'
<1> USE DEF TypeOK, Goto, SetScratch, Returned, Tails
<1>0. SExt(mem) \in Reg /\ {} \in Reg /\ {0} \in Reg
  BY SExtInReg, WidthsAssumption DEF Reg
<1>1. CASE AMO(h)
  BY <1>1, <1>0, AMOValueInWord DEF AMO
<1>2. CASE BinOpLoad(h)
  BY <1>2, <1>0, BinOpValueInReg DEF BinOpLoad, LoadLinked
<1>3. CASE MinMaxHead(h)
  BY <1>3, <1>0 DEF MinMaxHead, LoadLinked
<1>4. CASE MinMaxIfBody(h)
  BY <1>4, MinMaxValueInReg DEF MinMaxIfBody
<1>5. CASE CmpXchgHead(h)
  BY <1>5, <1>0 DEF CmpXchgHead, LoadLinked, LoopHeadBNETarget
<1>6. CASE StoreSucceeds(h)
  BY <1>6, <1>0, TruncInWord DEF StoreSucceeds, SCSucceeds
<1>7. CASE StoreFails(h)
  BY <1>7, <1>0 DEF StoreFails, SCFails, LoopStart
<1>8. CASE Return(h)
  BY <1>8, <1>0 DEF Return
<1> QED BY <1>1, <1>2, <1>3, <1>4, <1>5, <1>6, <1>7, <1>8 DEF Step

LEMMA NextTypes == TypeOK /\ [Next]_vars => TypeOK'
<1> SUFFICES ASSUME TypeOK, [Next]_vars PROVE TypeOK'
  OBVIOUS
<1>1. CASE ForeignStore
  <2>1. mem' \in Word
    BY <1>1, StoresAssumption DEF ForeignStore, TypeOK
  <2> QED BY <1>1, <2>1 DEF ForeignStore, TypeOK
<1>2. ASSUME NEW h \in Hart, LoseReservation(h) PROVE TypeOK'
  BY <1>2 DEF LoseReservation, TypeOK
<1>3. ASSUME NEW h \in Hart, Invoke(h) PROVE TypeOK'
  BY <1>3 DEF Invoke, Goto, Entry, TypeOK
<1>4. ASSUME NEW h \in Hart, Step(h) PROVE TypeOK'
  BY <1>4, StepTypes
<1>5. CASE UNCHANGED vars
  BY <1>5 DEF vars, TypeOK
<1> QED BY <1>1, <1>2, <1>3, <1>4, <1>5 DEF Next, Environment

\* Type correctness: the word stays a word, registers stay registers, and every
\* block the expansions branch to is one of the blocks they create.
THEOREM TypeCorrect == Spec => []TypeOK
<1>1. Init => TypeOK
  BY DEF Init, InitLLSC, TypeOK, Returned, Reg
<1>2. TypeOK /\ [Next]_vars => TypeOK'
  BY NextTypes
<1> QED BY <1>1, <1>2, PTL DEF Spec
-----------------------------------------------------------------------------
(* The inductive invariant: where a call can be, and what it has computed.   *)

Blocks(c) ==
    IF IsAMO(c) THEN {"amo"}
    ELSE IF c.op \in MinMaxOps
      THEN {"minmax.loophead", "minmax.loopifbody", "minmax.looptail"}
    ELSE IF c.op = "CmpXchg" THEN {"cmpxchg.loophead", "cmpxchg.looptail"}
    ELSE {"binop.loop", "binop.sc"}

\* A call is in a block of its own expansion or has returned.
CallInv(h) ==
    IF pc[h] = "idle" THEN call[h] = NoCall
    ELSE call[h] \in Calls /\ pc[h] \in Returned \cup Blocks(call[h])

\* Between the LR and the SC, DestReg is the word as long as the reservation is
\* held: this is why the SC may store what was computed from DestReg.
ReservationInv(h) == h \in resv /\ pc[h] \in Loaded => Dest[h] = SExt(mem)

\* What the loop has computed from DestReg so far.
ValueInv(h) ==
    /\ pc[h] = "binop.sc" => Scratch[h] = BinOpValue(call[h], Dest[h])
    /\ pc[h] = "minmax.loopifbody" => ~NoChangeNeeded(call[h], Dest[h])
    /\ pc[h] = "minmax.looptail" =>
          Scratch[h] = IF NoChangeNeeded(call[h], Dest[h]) THEN Dest[h]
                       ELSE MinMaxValue(call[h], Dest[h])
    /\ pc[h] = "cmpxchg.looptail" => Matches(call[h], Dest[h])

LoopInv == \A h \in Hart : CallInv(h) /\ ReservationInv(h) /\ ValueInv(h)

LEMMA CallInvInit == Init => LoopInv
BY DEF Init, InitLLSC, LoopInv, CallInv, ReservationInv, ValueInv, Tails, Loaded

\* A step of one hart disturbs the invariant of no other: a store takes every
\* reservation away.
LEMMA OtherHart ==
    ASSUME TypeOK, NEW h \in Hart, NEW g \in Hart, g # h,
           Step(h) \/ Invoke(h) \/ LoseReservation(h),
           CallInv(g), ReservationInv(g), ValueInv(g)
    PROVE  CallInv(g)' /\ ReservationInv(g)' /\ ValueInv(g)'
<1>1. /\ pc'[g] = pc[g] /\ call'[g] = call[g]
      /\ Dest'[g] = Dest[g] /\ Scratch'[g] = Scratch[g]
  BY DEF Step, AMO, BinOpLoad, MinMaxHead, MinMaxIfBody, CmpXchgHead, StoreSucceeds,
         StoreFails, Return, Invoke, LoseReservation, LoadLinked, SCSucceeds, SCFails,
         Goto, SetScratch, TypeOK
<1>2. g \notin resv' \/ (mem' = mem /\ (g \in resv' => g \in resv))
  BY DEF Step, AMO, BinOpLoad, MinMaxHead, MinMaxIfBody, CmpXchgHead, StoreSucceeds,
         StoreFails, Return, Invoke, LoseReservation, LoadLinked, SCSucceeds, SCFails
<1>3. CallInv(g)'
  BY <1>1 DEF CallInv
<1>4. ReservationInv(g)'
  BY <1>1, <1>2 DEF ReservationInv
<1>5. ValueInv(g)'
  BY <1>1 DEF ValueInv
<1> QED BY <1>3, <1>4, <1>5

\* The hart that steps.
LEMMA SteppingHart ==
    ASSUME TypeOK, NEW h \in Hart, Step(h) \/ Invoke(h) \/ LoseReservation(h),
           CallInv(h), ReservationInv(h), ValueInv(h)
    PROVE  CallInv(h)' /\ ReservationInv(h)' /\ ValueInv(h)'
<1> USE DEF Goto, SetScratch, TypeOK, Returned, Tails, Loaded
<1>1. CASE AMO(h)
  BY <1>1 DEF AMO, CallInv, ReservationInv, ValueInv
<1>2. CASE BinOpLoad(h)
  BY <1>2 DEF BinOpLoad, LoadLinked, CallInv, ReservationInv, ValueInv, Blocks
<1>3. CASE MinMaxHead(h)
  BY <1>3 DEF MinMaxHead, LoadLinked, CallInv, ReservationInv, ValueInv, Blocks
<1>4. CASE MinMaxIfBody(h)
  BY <1>4 DEF MinMaxIfBody, CallInv, ReservationInv, ValueInv, Blocks
<1>5. CASE CmpXchgHead(h)
  BY <1>5 DEF CmpXchgHead, LoadLinked, LoopHeadBNETarget, CallInv, ReservationInv,
              ValueInv, Blocks
<1>6. CASE StoreSucceeds(h)
  BY <1>6 DEF StoreSucceeds, SCSucceeds, CallInv, ReservationInv, ValueInv
<1>7. CASE StoreFails(h)
  BY <1>7 DEF StoreFails, SCFails, LoopStart, CallInv, ReservationInv, ValueInv, Blocks
<1>8. CASE Return(h)
  BY <1>8 DEF Return, CallInv, ReservationInv, ValueInv
<1>9. CASE Invoke(h)
  BY <1>9 DEF Invoke, Entry, CallInv, ReservationInv, ValueInv, Blocks
<1>10. CASE LoseReservation(h)
  BY <1>10 DEF LoseReservation, CallInv, ReservationInv, ValueInv
<1> QED BY <1>1, <1>2, <1>3, <1>4, <1>5, <1>6, <1>7, <1>8, <1>9, <1>10 DEF Step

LEMMA NextLoopInv == TypeOK /\ LoopInv /\ [Next]_vars => LoopInv'
<1> SUFFICES ASSUME TypeOK, LoopInv, [Next]_vars, NEW g \in Hart
             PROVE  CallInv(g)' /\ ReservationInv(g)' /\ ValueInv(g)'
  BY DEF LoopInv
<1>0. CallInv(g) /\ ReservationInv(g) /\ ValueInv(g)
  BY DEF LoopInv
<1>1. ASSUME NEW h \in Hart, Step(h) \/ Invoke(h) \/ LoseReservation(h)
      PROVE  CallInv(g)' /\ ReservationInv(g)' /\ ValueInv(g)'
  BY <1>0, <1>1, OtherHart, SteppingHart
<1>2. CASE ForeignStore
  BY <1>0, <1>2 DEF ForeignStore, CallInv, ReservationInv, ValueInv
<1>3. CASE UNCHANGED vars
  BY <1>0, <1>3 DEF vars, CallInv, ReservationInv, ValueInv
<1> QED BY <1>1, <1>2, <1>3 DEF Next, Environment

\* The types and the invariant of the loops hold throughout.
THEOREM Invariance == Spec => [](TypeOK /\ LoopInv)
<1>1. Init => LoopInv
  BY CallInvInit
<1>2. TypeOK /\ LoopInv /\ [Next]_vars => LoopInv'
  BY NextLoopInv
<1> QED BY <1>1, <1>2, TypeCorrect, PTL DEF Spec
-----------------------------------------------------------------------------
(* The neighbouring parts.                                                   *)

\* The parts of a word lie inside it.
LEMMA PartOfWord ==
    ASSUME NEW c \in Calls
    PROVE  /\ c.masked => MaskBits(c) = Mask_(c)
           /\ ~c.masked => MaskBits(c) = 0..(WordBits - 1)
<1>1. c \in Expandable
  BY CallsAssumption
<1>2. c.masked => c.shift \in ShiftAmts
  BY <1>1 DEF Expandable
<1>3. ~c.masked => c.shift = 0
  BY <1>1 DEF Expandable
<1>4. c.masked => MaskBits(c) = Mask_(c)
  BY <1>2, WidthsAssumption DEF MaskBits, Width, Mask_, Trunc, Sll, ShiftAmts
<1>5. ~c.masked => MaskBits(c) = 0..(WordBits - 1)
  BY <1>3, WidthsAssumption DEF MaskBits, Width
<1> QED BY <1>4, <1>5

\* A masked merge into the loaded word, stored, changes the part only.
LEMMA MergeKeeps ==
    ASSUME NEW w \in Word, NEW new, NEW c
    PROVE  Trunc(insertMaskedMerge(SExt(w), new, MaskReg(c))) \ Mask_(c) = w \ Mask_(c)
<1> DEFINE low == 0..(WordBits - 1)
<1>1. w = SExt(w) \cap low /\ Mask_(c) = MaskReg(c) \cap low
  BY MaskInWord, TruncSExt DEF MaskReg
<1>2. insertMaskedMerge(SExt(w), new, MaskReg(c))
         = (SExt(w) \ MaskReg(c)) \cup (new \cap MaskReg(c))
  BY MergeBits
<1>3. Trunc(insertMaskedMerge(SExt(w), new, MaskReg(c)))
         = insertMaskedMerge(SExt(w), new, MaskReg(c)) \cap low
  BY DEF Trunc
<1> HIDE DEF low
<1> QED BY <1>1, <1>2, <1>3

\* So does an undisturbed pass over any expansion.
LEMMA EffectKeeps ==
    ASSUME NEW c \in Calls, NEW w \in Word
    PROVE  ExpansionEffect(c, w) \in Word
           /\ ExpansionEffect(c, w) \ MaskBits(c) = w \ MaskBits(c)
<1>1. ExpansionEffect(c, w) \in Word
  BY TruncInWord, AMOValueInWord DEF ExpansionEffect
<1>2. CASE ~c.masked
  BY <1>1, <1>2, PartOfWord DEF Word
<1>3. CASE c.masked
  <2>1. AMOValue(c, w) \ Mask_(c) = w \ Mask_(c)
    BY DEF AMOValue
  <2>2. Trunc(MinMaxValue(c, SExt(w))) \ Mask_(c) = w \ Mask_(c)
    BY MergeKeeps DEF MinMaxValue
  <2>3. Trunc(CmpXchgValue(c, SExt(w))) \ Mask_(c) = w \ Mask_(c)
    BY <1>3, MergeKeeps DEF CmpXchgValue
  <2>4. Trunc(BinOpValue(c, SExt(w))) \ Mask_(c) = w \ Mask_(c)
    BY <1>3, MergeKeeps DEF BinOpValue
  <2> QED BY <1>1, <1>3, <2>1, <2>2, <2>3, <2>4, PartOfWord DEF ExpansionEffect
<1> QED BY <1>1, <1>2, <1>3
-----------------------------------------------------------------------------
(* Each step of a hart either leaves the word alone or is its call's update. *)

\* The register an SC stores holds the effect of the call on the current word.
LEMMA StoredIsEffect ==
    ASSUME TypeOK, NEW h \in Hart, StoreSucceeds(h),
           CallInv(h), ReservationInv(h), ValueInv(h)
    PROVE  mem' = ExpansionEffect(call[h], mem) /\ Dest[h] = SExt(mem)
<1> DEFINE c == call[h]
<1>1. /\ h \in resv
      /\ pc[h] \in Tails
      /\ mem' = Trunc(StoredReg(h))
  BY DEF StoreSucceeds, SCSucceeds
<1>2. Dest[h] = SExt(mem)
  BY <1>1 DEF ReservationInv, Loaded
<1>3. pc[h] \in Blocks(c)
  BY <1>1 DEF CallInv, Tails, Returned
<1>4. CASE pc[h] = "binop.sc"
  <2>1. ~IsAMO(c) /\ c.op \notin MinMaxOps /\ c.op # "CmpXchg"
    BY <1>3, <1>4 DEF Blocks
  <2>2. StoredReg(h) = BinOpValue(c, SExt(mem))
    BY <1>2, <1>4 DEF ValueInv, StoredReg
  <2> QED BY <1>1, <1>2, <2>1, <2>2 DEF ExpansionEffect
<1>5. CASE pc[h] = "minmax.looptail"
  <2>1. ~IsAMO(c) /\ c.op \in MinMaxOps
    BY <1>3, <1>5 DEF Blocks
  <2>2. StoredReg(h) = IF NoChangeNeeded(c, SExt(mem)) THEN SExt(mem)
                       ELSE MinMaxValue(c, SExt(mem))
    BY <1>2, <1>5 DEF ValueInv, StoredReg
  <2>3. Trunc(SExt(mem)) = mem
    BY TruncSExt DEF TypeOK, Trunc
  <2> QED BY <1>1, <1>2, <2>1, <2>2, <2>3 DEF ExpansionEffect
<1>6. CASE pc[h] = "cmpxchg.looptail"
  <2>1. ~IsAMO(c) /\ c.op \notin MinMaxOps /\ c.op = "CmpXchg"
    BY <1>3, <1>6 DEF Blocks
  <2>2. StoredReg(h) = CmpXchgValue(c, SExt(mem)) /\ Matches(c, SExt(mem))
    BY <1>2, <1>6 DEF ValueInv, StoredReg
  <2> QED BY <1>1, <1>2, <2>1, <2>2 DEF ExpansionEffect
<1> QED BY <1>1, <1>4, <1>5, <1>6 DEF Tails

\* A masked operation never changes the rest of the word: what another agent
\* stored there between the LR and the SC is not overwritten.
THEOREM NeighboursAreKept == Spec => NeighboursKept
<1> DEFINE Kept == \A h \in Hart :
                      Step(h) => mem' \ MaskBits(call[h]) = mem \ MaskBits(call[h])
<1>1. ASSUME TypeOK, LoopInv, NEW h \in Hart, Step(h)
      PROVE  mem' \ MaskBits(call[h]) = mem \ MaskBits(call[h])
  <2>0. CallInv(h) /\ ReservationInv(h) /\ ValueInv(h)
    BY <1>1 DEF LoopInv
  <2>1. CASE AMO(h)
    <3>1. call[h] \in Calls /\ IsAMO(call[h])
      BY <2>0, <2>1 DEF AMO, CallInv, Returned, Blocks
    <3>2. mem' = ExpansionEffect(call[h], mem)
      BY <2>1, <3>1 DEF AMO, ExpansionEffect
    <3> QED BY <1>1, <3>1, <3>2, EffectKeeps DEF TypeOK
  <2>2. CASE StoreSucceeds(h)
    <3>1. call[h] \in Calls
      BY <2>0, <2>2 DEF StoreSucceeds, CallInv, Tails
    <3> QED BY <1>1, <2>0, <2>2, <3>1, StoredIsEffect, EffectKeeps DEF TypeOK
  <2>3. CASE ~AMO(h) /\ ~StoreSucceeds(h)
    BY <1>1, <2>3 DEF Step, BinOpLoad, MinMaxHead, MinMaxIfBody, CmpXchgHead,
                      StoreFails, Return, LoadLinked, SCFails
  <2> QED BY <2>1, <2>2, <2>3
<1>2. TypeOK /\ LoopInv /\ [Next]_vars => [Kept]_vars
  BY <1>1
<1>3. Spec => [][Kept]_vars
  BY <1>2, Invariance, PTL DEF Spec
<1> QED BY <1>3 DEF NeighboursKept
-----------------------------------------------------------------------------
(* An undisturbed pass computes what the IR says.  Outside the part it keeps *)
(* the word (EffectKeeps), so it is enough to find the number it leaves in   *)
(* the part.                                                                 *)

LEMMA CallParts ==
    ASSUME NEW c \in Calls
    PROVE  /\ PartInside(c) /\ c.masked \in BOOLEAN
           /\ c.op \in MaskedBinOps \cup MinMaxOps \cup {"CmpXchg"}
           /\ c.val \in 0..(2^Width(c) - 1)
           /\ c.op = "CmpXchg" => c.cmp \in 0..(2^Width(c) - 1) /\ c.folded \in BOOLEAN
           /\ ~c.masked => c.op \in {"Nand", "CmpXchg"} /\ c.shift = 0
<1>1. c \in Expandable
  BY CallsAssumption
<1> USE DEF MaskedBinOps, MinMaxOps
<1>2. c.masked \in BOOLEAN
  BY <1>1 DEF Expandable
<1>3. c.op \in MaskedBinOps \cup MinMaxOps \cup {"CmpXchg"}
  BY <1>1 DEF Expandable
<1>4. c.masked => c.shift \in ShiftAmts /\ c.val \in Num_(ValWidth)
  BY <1>1 DEF Expandable
<1>5. ~c.masked => /\ c.shift = 0 /\ c.val \in Num_(WordBits)
                   /\ c.op \in {"Nand", "CmpXchg"}
  BY <1>1 DEF Expandable
<1>6. c.op = "CmpXchg" =>
         /\ c.masked => c.cmp \in Num_(ValWidth)
         /\ ~c.masked => c.cmp \in Num_(WordBits)
         /\ c.folded \in BOOLEAN
  BY <1>1 DEF Expandable
<1>7. PartInside(c)
  BY <1>4, <1>5, WidthsAssumption DEF PartInside, Width, ShiftAmts
<1> QED BY <1>2, <1>3, <1>4, <1>5, <1>6, <1>7 DEF Num_, Width

\* The part of a masked merge is that of the new value.
LEMMA MergePart ==
    ASSUME NEW c, PartInside(c), c.masked, NEW w \in Word, NEW new
    PROVE  PartOf(c, Trunc(insertMaskedMerge(SExt(w), new, MaskReg(c))))
             = Uns[Part(new, c.shift, ValWidth)]
<1> DEFINE M == c.shift..(c.shift + ValWidth - 1)
           low == 0..(WordBits - 1)
           r == insertMaskedMerge(SExt(w), new, MaskReg(c))
<1>1. MaskBits(c) = M /\ Mask_(c) = M /\ Width(c) = ValWidth
  BY MaskIs
<1>2. Mask_(c) = MaskReg(c) \cap low /\ M \subseteq low
  BY <1>1, MaskInWord, TruncSExt DEF MaskReg, Word
<1>3. r = (SExt(w) \ MaskReg(c)) \cup (new \cap MaskReg(c))
  BY MergeBits
<1>4. Trunc(r) = r \cap low
  BY DEF Trunc
<1> HIDE DEF M, low, r
<1>5. Trunc(r) \cap M = new \cap M
  BY <1>1, <1>2, <1>3, <1>4
<1>6. Part(Trunc(r), c.shift, ValWidth) = Part(new, c.shift, ValWidth)
  BY <1>5 DEF Part, M
<1> QED BY <1>1, <1>6, PartOfIs DEF r

\* What the loop of a binop leaves in the part.
LEMMA BinOpNumber ==
    ASSUME NEW c \in Calls, NEW w \in Word, c.op \in MaskedBinOps
    PROVE  PartOf(c, Trunc(BinOpValue(c, SExt(w))))
             = RMW(c.op, PartOf(c, w), c.val, Width(c))
<1> DEFINE k == c.shift
           n == Width(c)
           a == SExt(w)
           b == IncrReg(c)
           x == Part(w, k, n)
           y == Bits[c.val]
<1>0. /\ PartInside(c) /\ c.masked \in BOOLEAN /\ c.val \in 0..(2^n - 1)
      /\ ~c.masked => c.op = "Nand" /\ k = 0
      /\ k \in Nat /\ n \in Nat /\ n > 0 /\ k + n <= WordBits /\ k + n <= XLen
      /\ c.op \notin MinMaxOps
  BY CallParts, WidthsAssumption DEF PartInside, MaskedBinOps, MinMaxOps
<1>1. a \in Reg /\ Part(a, k, n) = x
  BY <1>0, SExtInReg, PartInWord
<1>2. /\ b \in Reg /\ Part(b, k, n) = y /\ Uns[y] = c.val
      /\ b \cap 0..(k - 1) = {}
  <2>1. CASE c.masked
    <3>1. b = SExt(ZExtShifted(c, c.val)) /\ n = ValWidth
      BY <1>0, <2>1 DEF IncrReg, Width, MinMaxOps
    <3> QED BY <1>0, <2>1, <3>1, ShiftedOperand, OperandPlaced
  <2>2. CASE ~c.masked
    <3>1. b = AnyExt(c, c.val) /\ n = WordBits /\ k = 0 /\ 0..(k - 1) = {}
      BY <1>0, <2>2 DEF IncrReg, Width
    <3> QED BY <1>0, <3>1, AnyExtPart
  <2> QED BY <1>0, <2>1, <2>2
<1>3. PartOf(c, w) = Uns[x] /\ Bits[Uns[x]] = x
  <2>1. x \in Reg
    BY <1>0, WordInReg, PartInReg
  <2> HIDE DEF x
  <2>2. Bits[Uns[x]] = x
    BY <2>1, BitsOfUns
  <2> QED BY <2>2, PartOfIs DEF x
<1>4. PartOf(c, Trunc(BinOpValue(c, a))) = Uns[Part(BinOp(c.op, a, b), k, n)]
  <2>1. CASE c.masked
    <3>1. BinOpValue(c, a) = insertMaskedMerge(SExt(w), BinOp(c.op, a, b), MaskReg(c))
      BY <2>1 DEF BinOpValue
    <3>2. n = ValWidth
      BY <2>1 DEF Width
    <3> QED BY <1>0, <2>1, <3>1, <3>2, MergePart
  <2>2. CASE ~c.masked
    <3>1. BinOpValue(c, a) = BinOp(c.op, a, b)
      BY <1>0, <2>2 DEF BinOpValue, BinOp
    <3> QED BY <1>0, <3>1, PartOfIs, PartInWord
  <2> QED BY <1>0, <2>1, <2>2
<1> HIDE DEF a, b, x, y, k, n
<1>5. CASE c.op = "Xchg"
  <2>1. BinOp(c.op, a, b) = b
    BY <1>5 DEF BinOp
  <2>2. RMW(c.op, PartOf(c, w), c.val, n) = c.val
    BY <1>5 DEF RMW
  <2> QED BY <1>2, <1>4, <2>1, <2>2 DEF a, n
<1>6. CASE c.op = "Add"
  <2>1. BinOp(c.op, a, b) = Add(a, b)
    BY <1>6 DEF BinOp
  <2>2. RMW(c.op, PartOf(c, w), c.val, n) = (Uns[x] + Uns[y]) % 2^n
    BY <1>2, <1>3, <1>6 DEF RMW
  <2>3. Uns[Part(Add(a, b), k, n)] = (Uns[x] + Uns[y]) % 2^n
    BY <1>0, <1>1, <1>2, AddPart
  <2> QED BY <1>4, <2>1, <2>2, <2>3 DEF a, n
<1>7. CASE c.op = "Sub"
  <2>1. BinOp(c.op, a, b) = Sub(a, b)
    BY <1>7 DEF BinOp
  <2>2. RMW(c.op, PartOf(c, w), c.val, n) = (Uns[x] - Uns[y]) % 2^n
    BY <1>2, <1>3, <1>7 DEF RMW
  <2>3. Uns[Part(Sub(a, b), k, n)] = (Uns[x] - Uns[y]) % 2^n
    BY <1>0, <1>1, <1>2, AddPart
  <2> QED BY <1>4, <2>1, <2>2, <2>3 DEF a, n
<1>8. CASE c.op = "Nand"
  <2>1. BinOp(c.op, a, b) = Not(And(a, b))
    BY <1>8 DEF BinOp
  <2>2. RMW(c.op, PartOf(c, w), c.val, n) = 2^n - 1 - Uns[x \cap y]
    BY <1>2, <1>3, <1>8 DEF RMW, y
  <2>3. Uns[Part(Not(And(a, b)), k, n)] = 2^n - 1 - Uns[x \cap y]
    <3>1. Uns[Part(Not(And(a, b)), k, n)]
            = 2^n - 1 - Uns[Part(a, k, n) \cap Part(b, k, n)]
      <4>1. /\ a \in Reg /\ b \in Reg /\ k \in Nat /\ n \in Nat
            /\ k + n <= XLen
        BY <1>0, <1>1, <1>2
      <4> QED BY <4>1, NandPart
    <3> QED BY <1>1, <1>2, <3>1
  <2> QED BY <1>4, <2>1, <2>2, <2>3 DEF a, n
<1> QED BY <1>5, <1>6, <1>7, <1>8 DEF MaskedBinOps

\* The part of the loaded word, as the loop heads of the masked operations see it.
LEMMA MaskedPart ==
    ASSUME NEW c, PartInside(c), c.masked, NEW w \in Word
    PROVE  And(SExt(w), MaskReg(c)) = SExt(Placed(Part(w, c.shift, ValWidth), c.shift))
<1>1. Mask_(c) = c.shift..(c.shift + ValWidth - 1) /\ Mask_(c) \in Word
  BY MaskIs, MaskInWord
<1>2. c.shift \in Nat /\ ValWidth \in Nat
  BY WidthsAssumption DEF PartInside
<1>3. w \cap Mask_(c) = Placed(Part(w, c.shift, ValWidth), c.shift)
  BY <1>1, <1>2, PlacedPart
<1>4. And(SExt(w), SExt(Mask_(c))) = SExt(w \cap Mask_(c))
  BY <1>1, AndSExt
<1> QED BY <1>3, <1>4 DEF MaskReg

\* The sign extension of a masked part.
LEMMA SextOfPart ==
    ASSUME NEW c, PartInside(c), c.masked, NEW x, x \subseteq 0..(ValWidth - 1)
    PROVE  insertSext(SExt(Placed(x, c.shift)), SextShamt(c))
             = SignedPlaced(x, c.shift, ValWidth)
<1>1. /\ c.shift \in Nat /\ ValWidth \in Nat /\ ValWidth > 0
      /\ c.shift + ValWidth <= WordBits /\ c.shift + ValWidth \in 1..XLen
      /\ SextShamt(c) = XLen - (c.shift + ValWidth)
  BY WidthsAssumption DEF PartInside, Width, SextShamt
<1>2. insertSext(SExt(Placed(x, c.shift)), SextShamt(c))
        = Extended(SExt(Placed(x, c.shift)), c.shift + ValWidth)
  BY <1>1, SextSra DEF insertSext
<1>3. Extended(SExt(Placed(x, c.shift)), c.shift + ValWidth)
        = SignedPlaced(x, c.shift, ValWidth)
  BY <1>1, ExtendedPlaced
<1> QED BY <1>2, <1>3

\* The loop head of a minimum or maximum decides as the operation does.
LEMMA NoChangeIs ==
    ASSUME NEW c \in Calls, NEW w \in Word, c.op \in MinMaxOps
    PROVE  /\ RMW(c.op, PartOf(c, w), c.val, Width(c))
                = IF NoChangeNeeded(c, SExt(w)) THEN PartOf(c, w) ELSE c.val
           /\ Uns[Part(IncrReg(c), c.shift, ValWidth)] = c.val
           /\ c.masked
<1> DEFINE k == c.shift
           n == ValWidth
           x == Part(w, k, n)
           y == Bits[c.val]
           d == And(SExt(w), MaskReg(c))
           s == insertSext(d, SextShamt(c))
           b == IncrReg(c)
<1>0. /\ PartInside(c) /\ c.masked /\ Width(c) = n /\ c.val \in 0..(2^n - 1)
      /\ k \in Nat /\ n \in Nat /\ n > 0 /\ k + n <= WordBits
  <2>1. c.masked
    BY CallParts DEF MinMaxOps
  <2> QED BY <2>1, CallParts DEF PartInside, Width
<1>1. x \in Reg /\ x \subseteq 0..(n - 1) /\ PartOf(c, w) = Uns[x]
  BY <1>0, WordInReg, PartInReg, PartOfIs
<1>2. y \in Reg /\ y \subseteq 0..(n - 1) /\ Uns[y] = c.val
  BY <1>0, OperandPlaced
<1>3. d = SExt(Placed(x, k))
  BY <1>0, MaskedPart
<1>4. s = SignedPlaced(x, k, n)
  <2> HIDE DEF x, d
  <2> QED BY <1>0, <1>1, <1>3, SextOfPart
<1>5. NoChangeNeeded(c, SExt(w)) =
         CASE c.op = "Max"  -> Sgn(s) >= Sgn(b)
           [] c.op = "Min"  -> Sgn(b) >= Sgn(s)
           [] c.op = "UMax" -> Uns[d] >= Uns[b]
           [] c.op = "UMin" -> Uns[b] >= Uns[d]
  BY DEF NoChangeNeeded
<1>6. CASE c.op \in {"Min", "Max"}
  <2>1. b = SExt(SExtShifted(c, c.val))
    BY <1>0, <1>6 DEF IncrReg
  <2>2. b = SignedPlaced(y, k, n)
    BY <1>0, <2>1, SignedOperand
  <2> HIDE DEF x, y, s, b, k, n
  <2>3. /\ Sgn(s) >= Sgn(b) <=> Signed(Uns[x], n) >= Signed(Uns[y], n)
        /\ Sgn(b) >= Sgn(s) <=> Signed(Uns[y], n) >= Signed(Uns[x], n)
    BY <1>0, <1>1, <1>2, <1>4, <2>2, CompareSigned
  <2>4. Signed(Uns[x], n) \in Int /\ Signed(Uns[y], n) \in Int
    BY <1>0, <1>1, <1>2, SgnSignedPlaced
  <2>5. Signed(Uns[x], n) <= Signed(Uns[y], n) <=> Signed(Uns[y], n) >= Signed(Uns[x], n)
    BY <2>4
  <2>6. RMW(c.op, PartOf(c, w), c.val, Width(c))
          = IF NoChangeNeeded(c, SExt(w)) THEN PartOf(c, w) ELSE c.val
    BY <1>0, <1>1, <1>2, <1>5, <1>6, <2>3, <2>5 DEF RMW
  <2>7. Part(b, k, n) = y
    <3>1. Part(SignedPlaced(y, k, n), k, n) = y
      BY <1>0, <1>2, PartSignedPlaced, Zenon
    <3> QED BY <2>2, <3>1
  <2> QED BY <1>0, <1>2, <2>6, <2>7 DEF b, k, n
<1>7. CASE c.op \in {"UMin", "UMax"}
  <2>1. b = SExt(ZExtShifted(c, c.val))
    BY <1>0, <1>7 DEF IncrReg
  <2>2. b = SExt(Placed(y, k)) /\ Part(b, k, n) = y
    BY <1>0, <2>1, OperandPlaced, ShiftedOperand
  <2> HIDE DEF x, y, d, b, k, n
  <2>3. /\ Uns[d] >= Uns[b] <=> Uns[x] >= Uns[y]
        /\ Uns[b] >= Uns[d] <=> Uns[y] >= Uns[x]
    BY <1>0, <1>1, <1>2, <1>3, <2>2, CompareUnsigned
  <2>4. Uns[x] \in Nat /\ Uns[y] \in Nat
    BY <1>1, <1>2, UnsNat
  <2>5. Uns[x] <= Uns[y] <=> Uns[y] >= Uns[x]
    BY <2>4
  <2>6. RMW(c.op, PartOf(c, w), c.val, Width(c))
          = IF NoChangeNeeded(c, SExt(w)) THEN PartOf(c, w) ELSE c.val
    BY <1>0, <1>1, <1>2, <1>5, <1>7, <2>3, <2>5 DEF RMW
  <2> QED BY <1>0, <1>2, <2>2, <2>6 DEF b, k, n
<1> QED BY <1>6, <1>7 DEF MinMaxOps

\* A cmpxchg's loop head matches when the part is the expected number; and what
\* it stores then has the new number in the part.
LEMMA CmpXchgNumber ==
    ASSUME NEW c \in Calls, NEW w \in Word, c.op = "CmpXchg"
    PROVE  /\ Matches(c, SExt(w)) <=> PartOf(c, w) = c.cmp
           /\ PartOf(c, Trunc(CmpXchgValue(c, SExt(w)))) = c.val
<1> DEFINE k == c.shift
           n == Width(c)
           x == Part(w, k, n)
           y == Bits[c.cmp]
<1>0. /\ PartInside(c) /\ c.masked \in BOOLEAN /\ c.val \in 0..(2^n - 1)
      /\ c.cmp \in 0..(2^n - 1)
      /\ ~c.masked => k = 0
      /\ k \in Nat /\ n \in Nat /\ n > 0 /\ k + n <= WordBits
  BY CallParts DEF PartInside
<1>1. x \in Reg /\ x \subseteq 0..(n - 1) /\ PartOf(c, w) = Uns[x] /\ Bits[Uns[x]] = x
  <2>1. x \in Reg /\ x \subseteq 0..(n - 1)
    BY <1>0, WordInReg, PartInReg
  <2> HIDE DEF x
  <2>2. Bits[Uns[x]] = x
    BY <2>1, BitsOfUns
  <2> QED BY <2>1, <2>2, PartOfIs DEF x
<1>2. CASE c.masked
  <2>1. n = ValWidth
    BY <1>2 DEF Width
  <2>a. c.cmp \in 0..(2^ValWidth - 1)
    BY <1>0, <2>1
  <2>b. y \subseteq 0..(n - 1)
    BY <1>0, <1>2, <2>a, <2>1, OperandPlaced
  <2>c. Uns[y] = c.cmp
    BY <1>0, <1>2, <2>a, OperandPlaced
  <2>d. ZExtShifted(c, c.cmp) = Placed(y, k)
    BY <1>0, <1>2, <2>a, OperandPlaced, Zenon
  <2>2. /\ y \subseteq 0..(n - 1) /\ Uns[y] = c.cmp
        /\ ZExtShifted(c, c.cmp) = Placed(y, k)
    BY <2>b, <2>c, <2>d
  <2>3. Matches(c, SExt(w)) <=> SExt(Placed(x, k)) = SExt(Placed(y, k))
    BY <1>0, <1>2, <2>1, <2>2, MaskedPart DEF Matches, CmpValReg
  <2>4. Placed(x, k) \in Word /\ Placed(y, k) \in Word
    <3> HIDE DEF x, y, k, n
    <3> QED BY <1>0, <1>1, <2>2, PlacedInWord
  <2>5. Placed(x, k) = Placed(y, k) => x = y
    <3> HIDE DEF x, y, k, n
    <3> QED BY <1>0, <1>1, <2>2, PlacedInjective
  <2>6. SExt(Placed(x, k)) = SExt(Placed(y, k)) <=> x = y
    <3> HIDE DEF x, y, k, n
    <3> QED BY <2>4, <2>5, SExtInjective
  <2>7. x = y <=> Uns[x] = c.cmp
    BY <1>1, <2>2
  <2>8. PartOf(c, Trunc(CmpXchgValue(c, SExt(w)))) = c.val
    <3>1. CmpXchgValue(c, SExt(w))
            = insertMaskedMerge(SExt(w), SExt(ZExtShifted(c, c.val)), MaskReg(c))
      BY <1>2 DEF CmpXchgValue, NewValReg
    <3>2. Uns[Part(SExt(ZExtShifted(c, c.val)), c.shift, ValWidth)] = c.val
      BY <1>0, <1>2, <2>1, ShiftedOperand, OperandPlaced
    <3> QED BY <1>0, <1>2, <3>1, <3>2, MergePart
  <2> QED BY <1>1, <2>3, <2>6, <2>7, <2>8
<1>3. CASE ~c.masked
  <2>1. n = WordBits /\ k = 0
    BY <1>0, <1>3 DEF Width
  <2>a. c.cmp \in 0..(2^WordBits - 1)
    BY <1>0, <2>1
  <2>b. WordBits \in 0..XLen
    BY WidthsAssumption
  <2>2. y \in Word /\ Uns[y] = c.cmp
    BY <2>a, <2>b, UnsOfBits DEF Word
  <2>3. x = w
    <3>1. WordBits \in Nat /\ w \subseteq 0..(WordBits - 1)
      BY WidthsAssumption DEF Word
    <3> QED BY <2>1, <3>1, PartAtZero
  <2>4. Matches(c, SExt(w)) <=> SExt(w) = SExt(y)
    BY <1>3 DEF Matches, CmpValReg, Num
  <2>5. SExt(w) = SExt(y) <=> w = y
    <3> HIDE DEF y
    <3> QED BY <2>2, SExtInjective
  <2>6. w = y <=> Uns[x] = c.cmp
    BY <1>1, <2>2, <2>3
  <2>7. PartOf(c, Trunc(CmpXchgValue(c, SExt(w)))) = c.val
    <3>1. CmpXchgValue(c, SExt(w)) = AnyExt(c, c.val)
      BY <1>3 DEF CmpXchgValue, NewValReg
    <3>2. Uns[Part(AnyExt(c, c.val), 0, WordBits)] = c.val
      BY <1>0, <2>1, AnyExtPart
    <3>3. Part(Trunc(AnyExt(c, c.val)), k, n) = Part(AnyExt(c, c.val), k, n)
      BY <1>0, PartInWord
    <3> QED BY <2>1, <3>1, <3>2, <3>3, PartOfIs
  <2> QED BY <1>1, <2>4, <2>5, <2>6, <2>7
<1> QED BY <1>0, <1>2, <1>3

\* An amoand of the inverted mask leaves 0 in the part, an amoor of the mask all ones.
LEMMA AMONumber ==
    ASSUME NEW c \in Calls, NEW w \in Word, IsAMO(c)
    PROVE  PartOf(c, AMOValue(c, w)) = c.val
<1> DEFINE k == c.shift
           n == ValWidth
           M == k..(k + n - 1)
<1>0. /\ PartInside(c) /\ c.masked /\ Width(c) = n /\ Mask_(c) = M
      /\ k \in Nat /\ n \in Nat /\ n <= XLen
  <2>1. PartInside(c) /\ c.masked
    BY CallParts DEF IsAMO
  <2> QED BY <2>1, MaskIs, WidthsAssumption DEF PartInside, Width
<1>1. CASE c.val = 0
  <2>1. Part(w \ M, k, n) = {}
    BY DEF Part
  <2>2. AMOValue(c, w) = w \ M
    BY <1>0, <1>1 DEF AMOValue
  <2> QED BY <1>0, <1>1, <2>1, <2>2, PartOfIs, UnsEmpty
<1>2. CASE c.val # 0
  <2>1. Part(w \cup M, k, n) = 0..(n - 1)
    <3>1. (w \cup M) \cap M = M
      OBVIOUS
    <3>2. Placed(0..(n - 1), k) = M
      <4>1. ASSUME NEW j \in M PROVE j \in Placed(0..(n - 1), k)
        <5>1. j - k \in 0..(n - 1) /\ j = (j - k) + k
          BY <1>0
        <5> QED BY <5>1 DEF Placed
      <4>2. ASSUME NEW i \in 0..(n - 1) PROVE i + k \in M
        BY <1>0
      <4> QED BY <4>1, <4>2 DEF Placed
    <3>3. Part(w \cup M, k, n) = Part(M, k, n)
      BY <3>1 DEF Part
    <3> HIDE DEF M, n, k
    <3>4. Part(Placed(0..(n - 1), k), k, n) = 0..(n - 1)
      BY <1>0, PartPlaced
    <3> QED BY <3>2, <3>3, <3>4
  <2>2. AMOValue(c, w) = w \cup M
    BY <1>0, <1>2 DEF AMOValue
  <2>3. Uns[0..(n - 1)] = 2^n - 2^0
    <3>1. 0 \in Nat /\ n \in Nat /\ 0 <= n /\ n <= XLen
      BY <1>0
    <3> HIDE DEF n
    <3> QED BY <3>1, UnsInterval
  <2>4. c.val = 2^n - 1
    BY <1>2 DEF IsAMO
  <2> QED BY <1>0, <2>1, <2>2, <2>3, <2>4, PartOfIs, PowZero
<1> QED BY <1>1, <1>2

\* Undisturbed, every expansion leaves the word the IR operation leaves.
LEMMA EffectIs ==
    ASSUME NEW c \in Calls, NEW w \in Word
    PROVE  ExpansionEffect(c, w) = IREffect(c, w)
<1> DEFINE v == ExpansionEffect(c, w)
           old == PartOf(c, w)
<1>0. PartInside(c) /\ c.op \in MaskedBinOps \cup MinMaxOps \cup {"CmpXchg"}
  BY CallParts
<1>1. v = WithPart(c, w, PartOf(c, v))
  BY <1>0, EffectKeeps, WithPartUnique
<1>2. w = WithPart(c, w, old)
  BY <1>0, SameWord
<1>3. CASE c.op = "CmpXchg"
  <2>1. v = IF Matches(c, SExt(w)) THEN Trunc(CmpXchgValue(c, SExt(w))) ELSE w
    BY <1>3 DEF ExpansionEffect, IsAMO, MinMaxOps
  <2>2. IREffect(c, w) = IF old = c.cmp THEN WithPart(c, w, c.val) ELSE w
    BY <1>3 DEF IREffect
  <2>3. /\ Matches(c, SExt(w)) <=> old = c.cmp
        /\ PartOf(c, Trunc(CmpXchgValue(c, SExt(w)))) = c.val
    BY <1>3, CmpXchgNumber
  <2> HIDE DEF v
  <2> QED BY <1>1, <2>1, <2>2, <2>3 DEF v
<1>4. CASE c.op # "CmpXchg"
  <2>1. IREffect(c, w) = WithPart(c, w, RMW(c.op, old, c.val, Width(c)))
    BY <1>4 DEF IREffect
  <2>2. CASE IsAMO(c)
    <3>1. PartOf(c, v) = c.val
      BY <2>2, AMONumber DEF ExpansionEffect
    <3>2. RMW(c.op, old, c.val, Width(c)) = c.val
      BY <2>2 DEF IsAMO, RMW
    <3> QED BY <1>1, <2>1, <3>1, <3>2
  <2>3. CASE ~IsAMO(c) /\ c.op \in MinMaxOps
    <3>1. v = IF NoChangeNeeded(c, SExt(w)) THEN w ELSE Trunc(MinMaxValue(c, SExt(w)))
      BY <2>3 DEF ExpansionEffect
    <3>2. /\ RMW(c.op, old, c.val, Width(c))
                = IF NoChangeNeeded(c, SExt(w)) THEN old ELSE c.val
          /\ Uns[Part(IncrReg(c), c.shift, ValWidth)] = c.val
          /\ c.masked
      BY <2>3, NoChangeIs
    <3>3. PartOf(c, Trunc(MinMaxValue(c, SExt(w)))) = c.val
      BY <1>0, <3>2, MergePart DEF MinMaxValue
    <3> HIDE DEF v
    <3> QED BY <1>1, <1>2, <2>1, <3>1, <3>2, <3>3 DEF v
  <2>4. CASE ~IsAMO(c) /\ c.op \notin MinMaxOps
    <3>1. v = Trunc(BinOpValue(c, SExt(w)))
      BY <1>4, <2>4 DEF ExpansionEffect
    <3>2. PartOf(c, v) = RMW(c.op, old, c.val, Width(c))
      BY <1>0, <1>4, <2>4, <3>1, BinOpNumber
    <3> QED BY <1>1, <2>1, <3>2
  <2> QED BY <2>2, <2>3, <2>4
<1> QED BY <1>3, <1>4

\* For every width, every call and every word: run without disturbance, the
\* expansion stores what the IR operation stores and returns what it returns.
THEOREM ExpansionsCompute == ComputesIR
<1> SUFFICES ASSUME NEW c \in Calls, NEW w \in Word PROVE Computes(c, w)
  BY DEF ComputesIR
<1>1. ExpansionEffect(c, w) = IREffect(c, w)
  BY EffectIs
<1>2. Extracted(c, SExt(w)) = PartOf(c, w)
  BY TruncSExt DEF Extracted, Trunc
<1>3. c.op = "CmpXchg" => (Matches(c, SExt(w)) <=> PartOf(c, w) = c.cmp)
  BY CmpXchgNumber
<1>4. ExpansionReply(c, w) = IRReply(c, w)
  BY <1>2, <1>3 DEF ExpansionReply, IRReply
<1> QED BY <1>1, <1>4 DEF Computes

\* So do the calls in flight, on whatever word they find.
THEOREM PendingCallsCompute == Spec => []PendingCallsComputeIR
<1>1. TypeOK /\ LoopInv => PendingCallsComputeIR
  BY ExpansionsCompute DEF TypeOK, LoopInv, CallInv, PendingCallsComputeIR, ComputesIR
<1> QED BY <1>1, Invariance, PTL
-----------------------------------------------------------------------------
(* Refinement: the step that takes effect is the successful SC, the LR of a  *)
(* cmpxchg that does not match, or the AMO; every other step is invisible.   *)

\* What the mapping makes of a hart that keeps its block, call and DestReg.
LEMMA MapHart ==
    ASSUME NEW h \in Hart
    PROVE  /\ Status[h] = IF pc[h] = "idle" THEN "idle"
                          ELSE IF pc[h] \in Returned THEN "done" ELSE "pending"
           /\ Replies[h] = IF pc[h] \in Returned THEN ReplyIn(call[h], pc[h], Dest[h])
                           ELSE NoReply
           /\ Status = [Status EXCEPT ![h] = Status[h]]
           /\ Replies = [Replies EXCEPT ![h] = Replies[h]]
BY DEF Status, Replies

\* A step of hart h that stays in its expansion changes the mapped state of h only.
LEMMA MapToLoop ==
    ASSUME TypeOK, NEW h \in Hart, NEW b, NEW c, NEW d,
           b # "idle", b \notin Returned,
           pc' = [pc EXCEPT ![h] = b],
           call' = [call EXCEPT ![h] = c],
           Dest' = [Dest EXCEPT ![h] = d]
    PROVE  /\ Status' = [Status EXCEPT ![h] = "pending"]
           /\ Replies' = [Replies EXCEPT ![h] = NoReply]
BY DEF Status, Replies, TypeOK

\* The step in which a call takes effect.
LEMMA PerformStep ==
    ASSUME TypeOK, ComputesIR, NEW h \in Hart, NEW b \in Returned,
           call[h] \in Calls, pc[h] # "idle", pc[h] \notin Returned,
           mem' = ExpansionEffect(call[h], mem),
           ReplyIn(call[h], b, SExt(mem)) = ExpansionReply(call[h], mem),
           pc' = [pc EXCEPT ![h] = b], call' = call,
           Dest' = [Dest EXCEPT ![h] = SExt(mem)]
    PROVE  IR!Perform(h)
<1>1. /\ mem' = IREffect(call[h], mem)
      /\ ReplyIn(call[h], b, SExt(mem)) = IRReply(call[h], mem)
  BY DEF ComputesIR, Computes, TypeOK
<1>2. call' = [call EXCEPT ![h] = call[h]]
  BY DEF TypeOK
<1>3. b # "idle"
  BY DEF Returned
<1>4. /\ Status' = [Status EXCEPT ![h] = "done"]
      /\ Replies' = [Replies EXCEPT ![h] = ReplyIn(call[h], b, SExt(mem))]
  BY <1>2, <1>3 DEF Status, Replies, TypeOK
<1>5. Status[h] = "pending"
  BY DEF Status
<1> QED BY <1>1, <1>4, <1>5 DEF IR!Perform

\* A step inside a loop.
LEMMA InvisibleStep ==
    ASSUME TypeOK, NEW h \in Hart, NEW b, NEW d,
           pc[h] # "idle", pc[h] \notin Returned, b # "idle", b \notin Returned,
           mem' = mem, call' = call,
           pc' = [pc EXCEPT ![h] = b], Dest' = [Dest EXCEPT ![h] = d]
    PROVE  UNCHANGED IR!vars
<1>1. call' = [call EXCEPT ![h] = call[h]]
  BY DEF TypeOK
<1>2. /\ Status' = [Status EXCEPT ![h] = "pending"]
      /\ Replies' = [Replies EXCEPT ![h] = NoReply]
  BY <1>1, MapToLoop
<1>3. Status[h] = "pending" /\ Replies[h] = NoReply
  BY DEF Status, Replies
<1>4. Status' = Status /\ Replies' = Replies
  BY <1>2, <1>3, MapHart
<1> QED BY <1>4 DEF IR!vars

\* The steps of a hart, mapped.
LEMMA StepRefines ==
    ASSUME TypeOK, LoopInv, ComputesIR, NEW h \in Hart, Step(h)
    PROVE  IR!Perform(h) \/ IR!Return(h) \/ UNCHANGED IR!vars
<1> DEFINE c == call[h]
<1>0. /\ CallInv(h) /\ ReservationInv(h) /\ ValueInv(h)
      /\ mem \in Word
      /\ Dest = [Dest EXCEPT ![h] = Dest[h]]
      /\ pc = [pc EXCEPT ![h] = pc[h]]
  BY DEF LoopInv, TypeOK
<1> USE DEF Goto
<1>1. CASE AMO(h)
  <2>1. /\ c \in Calls /\ IsAMO(c)
        /\ pc[h] # "idle" /\ pc[h] \notin Returned
    BY <1>0, <1>1 DEF AMO, CallInv, Returned, Blocks
  <2>2. ReplyIn(c, "done", SExt(mem)) = ExpansionReply(c, mem)
    BY <2>1 DEF ReplyIn, ExpansionReply, IsAMO
  <2>3. mem' = ExpansionEffect(c, mem)
    BY <1>1, <2>1 DEF AMO, ExpansionEffect
  <2> QED BY <1>1, <2>1, <2>2, <2>3, PerformStep DEF AMO, Returned
<1>2. CASE BinOpLoad(h)
  BY <1>2, InvisibleStep DEF BinOpLoad, LoadLinked, Returned
<1>3. CASE MinMaxHead(h)
  BY <1>3, InvisibleStep DEF MinMaxHead, LoadLinked, Returned
<1>4. CASE MinMaxIfBody(h)
  BY <1>0, <1>4, InvisibleStep DEF MinMaxIfBody, Returned
<1>5. CASE CmpXchgHead(h) /\ Matches(c, SExt(mem))
  BY <1>5, InvisibleStep DEF CmpXchgHead, LoadLinked, Returned
<1>6. CASE CmpXchgHead(h) /\ ~Matches(c, SExt(mem))
  <2>1. /\ c \in Calls /\ ~IsAMO(c) /\ c.op \notin MinMaxOps /\ c.op = "CmpXchg"
        /\ pc[h] # "idle" /\ pc[h] \notin Returned
    BY <1>0, <1>6 DEF CmpXchgHead, CallInv, Returned, Blocks
  <2>2. ReplyIn(c, LoopHeadBNETarget(c), SExt(mem)) = ExpansionReply(c, mem)
    BY <1>6 DEF ReplyIn, ExpansionReply, LoopHeadBNETarget
  <2>3. mem' = ExpansionEffect(c, mem)
    BY <1>6, <2>1 DEF CmpXchgHead, LoadLinked, ExpansionEffect
  <2>4. LoopHeadBNETarget(c) \in Returned
    BY DEF LoopHeadBNETarget, Returned
  <2> QED BY <1>6, <2>1, <2>2, <2>3, <2>4, PerformStep DEF CmpXchgHead, LoadLinked
<1>7. CASE StoreSucceeds(h)
  <2>1. /\ c \in Calls
        /\ pc[h] # "idle" /\ pc[h] \notin Returned
        /\ pc[h] \in Blocks(c)
    BY <1>0, <1>7 DEF StoreSucceeds, CallInv, Returned, Tails
  <2>2. mem' = ExpansionEffect(c, mem) /\ Dest[h] = SExt(mem)
    BY <1>0, <1>7, StoredIsEffect
  <2>3. c.op = "CmpXchg" => Matches(c, SExt(mem))
    BY <1>0, <1>7, <2>1, <2>2 DEF StoreSucceeds, Tails, Blocks, ValueInv, MinMaxOps
  <2>4. ReplyIn(c, "done", SExt(mem)) = ExpansionReply(c, mem)
    BY <2>3 DEF ReplyIn, ExpansionReply
  <2>5. /\ pc' = [pc EXCEPT ![h] = "done"] /\ call' = call
        /\ Dest' = [Dest EXCEPT ![h] = SExt(mem)]
    BY <1>0, <1>7, <2>2 DEF StoreSucceeds, SCSucceeds
  <2> QED BY <2>1, <2>2, <2>4, <2>5, PerformStep DEF Returned
<1>8. CASE StoreFails(h)
  BY <1>0, <1>8, InvisibleStep DEF StoreFails, SCFails, LoopStart, Returned, Tails
<1>9. CASE Return(h)
  BY <1>9 DEF Return, IR!Return, Status, Replies, Returned, TypeOK
<1> QED BY <1>1, <1>2, <1>3, <1>4, <1>5, <1>6, <1>7, <1>8, <1>9 DEF Step

LEMMA NextRefines ==
    ASSUME TypeOK, LoopInv, ComputesIR, [Next]_vars PROVE [IR!Next]_(IR!vars)
<1>1. CASE ForeignStore
  BY <1>1 DEF ForeignStore, IR!Next, IR!ForeignStore, Status, Replies
<1>2. ASSUME NEW h \in Hart, LoseReservation(h) PROVE UNCHANGED IR!vars
  BY <1>2 DEF LoseReservation, IR!vars, Status, Replies
<1>3. ASSUME NEW h \in Hart, Invoke(h) PROVE IR!Invoke(h)
  BY <1>3 DEF Invoke, IR!Invoke, Goto, Entry, Status, Replies, Returned, TypeOK
<1>4. ASSUME NEW h \in Hart, Step(h) PROVE [IR!Next]_(IR!vars)
  BY <1>4, StepRefines DEF IR!Next
<1>5. CASE UNCHANGED vars
  BY <1>5 DEF vars, IR!vars, Status, Replies
<1> QED BY <1>1, <1>2, <1>3, <1>4, <1>5 DEF Next, Environment, IR!Next

\* Every expansion is an atomic operation of the IR, for every number of harts,
\* every width, every set of calls and every interference.
THEOREM Refinement == Spec => ImplementsIR
<1>1. Init => IR!Init
  BY DEF Init, InitLLSC, IR!Init, Status, Replies, Returned
<1>2. TypeOK /\ LoopInv /\ [Next]_vars => [IR!Next]_(IR!vars)
  BY ExpansionsCompute, NextRefines
<1>3. Spec => IR!Init /\ [][IR!Next]_(IR!vars)
  BY <1>1, <1>2, Invariance, PTL DEF Spec
<1> QED BY <1>3 DEF ImplementsIR, IR!Spec
=============================================================================
