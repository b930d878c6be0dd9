----------------------- MODULE SIInsertWaitcntsProofs -----------------------
(***************************************************************************)
(* Theorems about SIInsertWaitcnts, for every value of its constants: any  *)
(* functions, registers, limits and generations.                           *)
(***************************************************************************)
EXTENDS SIInsertWaitcnts, WellFoundedInduction, TLAPS

\* The brackets keep their shape, and agree with the events pending.
BracketOK(B, st) ==
    /\ B \in BracketsType /\ B.ST = st
    /\ Len(B.LDSDMAStores) <= DmaSlots
    /\ \A T \in InstCounterType : B.LB[T] <= B.UB[T]
    /\ \A T \in InstCounterType :
          getWaitCountMax(st, T) # 0 => ((PendingOn(B, T) # {}) <=> (B.LB[T] # B.UB[T]))

-----------------------------------------------------------------------------
(* Counters and events. *)

\* Each event has one counter, on every generation.
LEMMA EventCounter ==
    ASSUME NEW st, NEW E \in WaitEventType
    PROVE  /\ eventCounter(st, E) \in InstCounterType
           /\ E \in WaitEventMask(st)[eventCounter(st, E)]
           /\ \A T \in InstCounterType : E \in WaitEventMask(st)[T] => T = eventCounter(st, E)
<1>1. \E T \in InstCounterType : E \in WaitEventMask(st)[T]
    <2>1. \E T \in InstCounterType : E \in WaitEventMaskForInstPreGFX12[T]
        BY DEF WaitEventType, InstCounterType, WaitEventMaskForInstPreGFX12, ExpEvents
    <2>2. \E T \in InstCounterType : E \in WaitEventMaskForInstGFX12Plus[T]
        BY DEF WaitEventType, InstCounterType, WaitEventMaskForInstGFX12Plus, ExpEvents
    <2>. QED  BY <2>1, <2>2 DEF WaitEventMask
<1>2. \A T, U \in InstCounterType :
         E \in WaitEventMask(st)[T] /\ E \in WaitEventMask(st)[U] => T = U
    <2>1. \A T, U \in InstCounterType : E \in WaitEventMaskForInstPreGFX12[T]
             /\ E \in WaitEventMaskForInstPreGFX12[U] => T = U
        BY DEF WaitEventType, InstCounterType, WaitEventMaskForInstPreGFX12, ExpEvents
    <2>2. \A T, U \in InstCounterType : E \in WaitEventMaskForInstGFX12Plus[T]
             /\ E \in WaitEventMaskForInstGFX12Plus[U] => T = U
        BY DEF WaitEventType, InstCounterType, WaitEventMaskForInstGFX12Plus, ExpEvents
    <2>. QED  BY <2>1, <2>2 DEF WaitEventMask
<1>. QED  BY <1>1, <1>2 DEF eventCounter

LEMMA MaskEvents ==
    ASSUME NEW st, NEW T \in InstCounterType
    PROVE  WaitEventMask(st)[T] \subseteq WaitEventType
BY DEF WaitEventMask, WaitEventMaskForInstPreGFX12, WaitEventMaskForInstGFX12Plus, ExpEvents,
       WaitEventType, InstCounterType

\* A counter has a limit of its own unless the target has not got it.
LEMMA CountMax ==
    ASSUME NEW st \in Nat, NEW T \in InstCounterType
    PROVE  getWaitCountMax(st, T) \in Nat /\ WaitCountMax[T] \in Nat \ {0}
BY LimitsAssumption DEF getWaitCountMax

-----------------------------------------------------------------------------
(* The operations of the brackets. *)

LEMMA NewOK ==
    ASSUME NEW st \in Generations
    PROVE  BracketOK(NewBrackets(st), st)
BY SlotsAssumption DEF BracketOK, NewBrackets, BracketsType, PendingOn

LEMMA SetScoreUB ==
    ASSUME NEW st \in Generations, NEW B, BracketOK(B, st),
           NEW T \in InstCounterType, NEW val \in Nat, val >= B.UB[T]
    PROVE  LET C == setScoreUB(B, T, val) IN
           /\ C \in BracketsType /\ C.ST = st /\ C.PendingEvents = B.PendingEvents
           /\ C.LDSDMAStores = B.LDSDMAStores
           /\ C.UB[T] = val
           /\ \A U \in InstCounterType : C.LB[U] <= C.UB[U]
           /\ \A U \in InstCounterType \ {T} : C.UB[U] = B.UB[U] /\ C.LB[U] = B.LB[U]
           /\ val > B.UB[T] => C.LB[T] < val
<1> DEFINE C == setScoreUB(B, T, val)
           lb == IF T = "EXP_CNT" /\ val - B.LB[T] > WaitCountMax[T]
                 THEN val - WaitCountMax[T] ELSE B.LB[T]
<1>1. /\ B \in BracketsType /\ B.LB \in [InstCounterType -> Nat]
      /\ B.UB \in [InstCounterType -> Nat] /\ B.LB[T] <= B.UB[T]
      /\ B.LB[T] \in Nat /\ B.UB[T] \in Nat
    BY DEF BracketOK, BracketsType
<1>2. C = [B EXCEPT !.UB = [B.UB EXCEPT ![T] = val], !.LB = [B.LB EXCEPT ![T] = lb]]
    BY <1>1 DEF setScoreUB, BracketsType
<1>3. WaitCountMax[T] \in Nat \ {0}
    BY LimitsAssumption
<1>4. lb \in Nat /\ lb <= val /\ (val > B.UB[T] => lb < val)
    BY <1>1, <1>3
<1> HIDE DEF lb
<1> DEFINE ub == [B.UB EXCEPT ![T] = val]
           lbs == [B.LB EXCEPT ![T] = lb]
<1>5. C \in BracketsType /\ C.ST = st /\ C.PendingEvents = B.PendingEvents
      /\ C.LDSDMAStores = B.LDSDMAStores
    <2>1. ub \in [InstCounterType -> Nat] /\ lbs \in [InstCounterType -> Nat]
        BY <1>1, <1>4
    <2>2. C = [B EXCEPT !.UB = ub, !.LB = lbs]
        BY <1>2
    <2> HIDE DEF ub, lbs, C
    <2>. QED  BY <1>1, <2>1, <2>2 DEF BracketsType, BracketOK
<1>6. C.UB = [B.UB EXCEPT ![T] = val] /\ C.LB = [B.LB EXCEPT ![T] = lb]
    BY <1>1, <1>2 DEF BracketsType
<1>. QED  BY <1>1, <1>4, <1>5, <1>6 DEF BracketOK

\* A counter whose events are not changed keeps its agreement with them.
LEMMA Agreement ==
    ASSUME NEW st \in Generations, NEW B, BracketOK(B, st), NEW C, C \in BracketsType, C.ST = st,
           NEW T \in InstCounterType,
           PendingOn(C, T) = PendingOn(B, T), C.LB[T] = B.LB[T], C.UB[T] = B.UB[T]
    PROVE  getWaitCountMax(st, T) # 0 => ((PendingOn(C, T) # {}) <=> (C.LB[T] # C.UB[T]))
BY DEF BracketOK

LEMMA FunctionEntry ==
    ASSUME NEW st \in Generations, NEW B, BracketOK(B, st)
    PROVE  BracketOK(setStateOnFunctionEntryOrReturn(B), st)
<1> DEFINE max == getWaitCountMax(st, "STORE_CNT")
           D == setScoreUB(B, "STORE_CNT", B.UB["STORE_CNT"] + max)
           p == B.PendingEvents \cup WaitEventMask(st)["STORE_CNT"]
           C == [D EXCEPT !.PendingEvents = p]
<1>1. /\ st \in Nat /\ "STORE_CNT" \in InstCounterType /\ B \in BracketsType /\ B.ST = st
      /\ B.UB["STORE_CNT"] \in Nat /\ B.LB["STORE_CNT"] \in Nat /\ max \in Nat
    BY CountMax, GenerationsAssumption DEF BracketOK, BracketsType, InstCounterType
<1>2. /\ D \in BracketsType /\ D.ST = st /\ D.PendingEvents = B.PendingEvents
      /\ D.LDSDMAStores = B.LDSDMAStores /\ D.UB["STORE_CNT"] = B.UB["STORE_CNT"] + max
      /\ \A U \in InstCounterType : D.LB[U] <= D.UB[U]
      /\ \A U \in InstCounterType \ {"STORE_CNT"} : D.UB[U] = B.UB[U] /\ D.LB[U] = B.LB[U]
      /\ max # 0 => D.LB["STORE_CNT"] < D.UB["STORE_CNT"]
    <2>1. B.UB["STORE_CNT"] + max \in Nat /\ B.UB["STORE_CNT"] + max >= B.UB["STORE_CNT"]
          /\ (max # 0 => B.UB["STORE_CNT"] + max > B.UB["STORE_CNT"])
        BY <1>1
    <2> HIDE DEF max
    <2>. QED  BY <1>1, <2>1, SetScoreUB
<1>3. setStateOnFunctionEntryOrReturn(B) = C
    BY <1>1, <1>2 DEF setStateOnFunctionEntryOrReturn
<1> HIDE DEF D, max
<1>4. p \subseteq WaitEventType
    BY <1>1, MaskEvents DEF BracketsType
<1>5. /\ C \in BracketsType /\ C.ST = st /\ C.LDSDMAStores = B.LDSDMAStores
      /\ C.LB = D.LB /\ C.UB = D.UB /\ C.PendingEvents = p
    <2> HIDE DEF p
    <2>. QED  BY <1>2, <1>4 DEF BracketsType
<1> HIDE DEF C
<1>6. ASSUME NEW T \in InstCounterType
      PROVE  getWaitCountMax(st, T) # 0 => ((PendingOn(C, T) # {}) <=> (C.LB[T] # C.UB[T]))
    <2>1. CASE T = "STORE_CNT"
        <3>1. WaitEventMask(st)[T] # {}
            BY <2>1 DEF WaitEventMask, WaitEventMaskForInstPreGFX12, WaitEventMaskForInstGFX12Plus
        <3>2. PendingOn(C, T) # {}
            BY <1>5, <2>1, <3>1 DEF PendingOn
        <3>3. max # 0 => C.LB[T] # C.UB[T]
            <4>1. D.LB[T] \in Nat /\ D.UB[T] \in Nat
                BY <1>2 DEF BracketsType
            <4>. QED  BY <1>2, <1>5, <2>1, <4>1
        <3>. QED  BY <2>1, <3>2, <3>3 DEF max
    <2>2. CASE T # "STORE_CNT"
        <3>1. WaitEventMask(st)[T] \cap WaitEventMask(st)["STORE_CNT"] = {}
            BY <1>1, <2>2, EventCounter, MaskEvents
        <3>2. PendingOn(C, T) = PendingOn(B, T)
            BY <1>1, <1>5, <3>1 DEF PendingOn
        <3>. QED  BY <1>2, <1>5, <2>2, <3>2, Agreement
    <2>. QED  BY <2>1, <2>2
<1>. QED  BY <1>2, <1>3, <1>5, <1>6 DEF BracketOK

\* An event raises the upper bound of its counter above the lower one.
LEMMA UpdateOK ==
    ASSUME NEW st \in Generations, NEW B, BracketOK(B, st),
           NEW E \in WaitEventType, NEW marks, NEW vmem \in SUBSET VmemType
    PROVE  BracketOK(updateByEvent(B, E, marks, vmem), st)
<1> DEFINE T == eventCounter(st, E)
           score == B.UB[T] + 1
           D == setScoreUB(B, T, score)
           p == B.PendingEvents \cup {E}
           s == [D.Score EXCEPT ![T] = [r \in Slots |-> IF r \in marks THEN score ELSE D.Score[T][r]]]
           v == [x \in Vgprs |-> IF x \in marks THEN D.VmemTypes[x] \cup vmem ELSE D.VmemTypes[x]]
           C == [D EXCEPT !.PendingEvents = p, !.Score = s, !.VmemTypes = v]
<1>1. /\ T \in InstCounterType /\ B \in BracketsType /\ B.ST = st
      /\ B.UB[T] \in Nat /\ score \in Nat /\ score > B.UB[T]
    BY EventCounter DEF BracketOK, BracketsType
<1>2. /\ D \in BracketsType /\ D.ST = st /\ D.PendingEvents = B.PendingEvents
      /\ D.LDSDMAStores = B.LDSDMAStores /\ D.UB[T] = score
      /\ \A U \in InstCounterType : D.LB[U] <= D.UB[U]
      /\ \A U \in InstCounterType \ {T} : D.UB[U] = B.UB[U] /\ D.LB[U] = B.LB[U]
      /\ D.LB[T] < score
    <2> HIDE DEF score, T
    <2>. QED  BY <1>1, SetScoreUB
<1>3. updateByEvent(B, E, marks, vmem) = C
    <2> DEFINE C0 == [D EXCEPT
                         !.PendingEvents = @ \cup {E},
                         !.Score[T] = [r \in Slots |-> IF r \in marks THEN score ELSE @[r]],
                         !.VmemTypes = [x \in Vgprs |-> IF x \in marks THEN @[x] \cup vmem ELSE @[x]]]
    <2>1. updateByEvent(B, E, marks, vmem) = C0
        BY <1>1 DEF updateByEvent
    <2>2. C0 = C
        <3> HIDE DEF D, T, score
        <3>. QED  BY <1>2
    <2>. QED  BY <2>1, <2>2
<1> HIDE DEF D, T, score
<1>4. p \subseteq WaitEventType
    BY <1>1 DEF BracketsType
<1>5. s \in [InstCounterType -> [Slots -> Nat]]
    BY <1>1, <1>2 DEF BracketsType
<1>6. v \in [Vgprs -> SUBSET VmemType]
    BY <1>2 DEF BracketsType
<1>7. /\ C \in BracketsType /\ C.ST = st /\ C.LDSDMAStores = B.LDSDMAStores
      /\ C.LB = D.LB /\ C.UB = D.UB /\ C.PendingEvents = p
    <2> HIDE DEF p, s, v
    <2>. QED  BY <1>2, <1>4, <1>5, <1>6 DEF BracketsType
<1> HIDE DEF C
<1>8. ASSUME NEW U \in InstCounterType
      PROVE  getWaitCountMax(st, U) # 0 => ((PendingOn(C, U) # {}) <=> (C.LB[U] # C.UB[U]))
    <2>1. CASE U = T
        <3>1. PendingOn(C, U) # {}
            BY <1>7, <2>1, EventCounter DEF PendingOn, T
        <3>2. D.LB[T] \in Nat
            BY <1>1, <1>2 DEF BracketsType
        <3>. QED  BY <1>1, <1>2, <1>7, <2>1, <3>1, <3>2
    <2>2. CASE U # T
        <3>1. E \notin WaitEventMask(st)[U]
            BY <2>2, EventCounter DEF T
        <3>2. PendingOn(C, U) = PendingOn(B, U)
            BY <1>1, <1>7, <3>1 DEF PendingOn
        <3>. QED  BY <1>2, <1>7, <2>2, <3>2, Agreement
    <2>. QED  BY <2>1, <2>2
<1>. QED  BY <1>2, <1>3, <1>7, <1>8 DEF BracketOK

\* The other parts of the brackets do not matter to that.
LEMMA OtherParts ==
    ASSUME NEW st, NEW B, BracketOK(B, st),
           NEW C, C \in BracketsType, C.ST = B.ST, C.LB = B.LB, C.UB = B.UB,
           C.PendingEvents = B.PendingEvents, Len(C.LDSDMAStores) <= DmaSlots
    PROVE  BracketOK(C, st)
BY DEF BracketOK, PendingOn

LEMMA FlatOK ==
    ASSUME NEW st, NEW B, BracketOK(B, st)
    PROVE  BracketOK(setPendingFlat(B), st)
<1> DEFINE f == [B.LastFlat EXCEPT !["LOAD_CNT"] = B.UB["LOAD_CNT"],
                                   !["DS_CNT"] = B.UB["DS_CNT"]]
           C == [B EXCEPT !.LastFlat = f]
<1>1. /\ B \in BracketsType /\ B.LastFlat \in [InstCounterType -> Nat]
      /\ Len(B.LDSDMAStores) <= DmaSlots
    BY DEF BracketOK, BracketsType
<1>2. setPendingFlat(B) = C
    BY <1>1 DEF setPendingFlat
<1>3. f \in [InstCounterType -> Nat]
    BY <1>1 DEF BracketsType, InstCounterType
<1>4. C \in BracketsType /\ C.ST = B.ST /\ C.LB = B.LB /\ C.UB = B.UB
      /\ C.PendingEvents = B.PendingEvents /\ C.LDSDMAStores = B.LDSDMAStores
    <2> HIDE DEF f
    <2>. QED  BY <1>1, <1>3 DEF BracketsType
<1> HIDE DEF C
<1>. QED  BY <1>1, <1>2, <1>4, OtherParts

LEMMA ClearOK ==
    ASSUME NEW st, NEW B, BracketOK(B, st), NEW regs
    PROVE  BracketOK(clearVgprVmemTypes(B, regs), st)
<1> DEFINE v == [x \in Vgprs |-> IF x \in regs THEN {} ELSE B.VmemTypes[x]]
           C == [B EXCEPT !.VmemTypes = v]
<1>1. /\ B \in BracketsType /\ B.VmemTypes \in [Vgprs -> SUBSET VmemType]
      /\ Len(B.LDSDMAStores) <= DmaSlots
    BY DEF BracketOK, BracketsType
<1>2. clearVgprVmemTypes(B, regs) = C
    BY <1>1 DEF clearVgprVmemTypes
<1>3. v \in [Vgprs -> SUBSET VmemType]
    BY <1>1
<1>4. C \in BracketsType /\ C.ST = B.ST /\ C.LB = B.LB /\ C.UB = B.UB
      /\ C.PendingEvents = B.PendingEvents /\ C.LDSDMAStores = B.LDSDMAStores
    <2> HIDE DEF v
    <2>. QED  BY <1>1, <1>3 DEF BracketsType
<1> HIDE DEF C
<1>. QED  BY <1>1, <1>2, <1>4, OtherParts

\* The stores to LDS told apart are never more than there are slots for.
LEMMA DmaSlot ==
    ASSUME NEW st, NEW B, BracketOK(B, st), NEW obj
    PROVE  dmaSlot(B, obj) \in LdsSlots
<1>1. Len(B.LDSDMAStores) \in Nat /\ Len(B.LDSDMAStores) <= DmaSlots
    BY DEF BracketOK, BracketsType
<1>2. DmaSlots \in Nat
    BY SlotsAssumption
<1>3. CASE \E k \in 1..Len(B.LDSDMAStores) : B.LDSDMAStores[k] = obj
    BY <1>1, <1>2, <1>3 DEF dmaSlot, LdsSlots
<1>4. CASE ~ \E k \in 1..Len(B.LDSDMAStores) : B.LDSDMAStores[k] = obj
    BY <1>1, <1>2, <1>4 DEF dmaSlot, LdsSlots
<1>. QED  BY <1>3, <1>4

LEMMA DmaOK ==
    ASSUME NEW st, NEW B, BracketOK(B, st), NEW obj \in LdsObjects
    PROVE  BracketOK(recordDmaStore(B, obj), st)
<1> DEFINE q == B.LDSDMAStores
           r == IF dmaSlot(B, obj) = Len(q) + 1 THEN Append(q, obj) ELSE q
           C == [B EXCEPT !.LDSDMAStores = r]
<1>1. B \in BracketsType /\ q \in Seq(LdsObjects) /\ Len(q) \in Nat /\ Len(q) <= DmaSlots
    BY DEF BracketOK, BracketsType
<1>2. recordDmaStore(B, obj) = C
    BY <1>1 DEF recordDmaStore
<1>3. dmaSlot(B, obj) = Len(q) + 1 => Len(q) + 1 <= DmaSlots
    BY DmaSlot, SlotsAssumption, <1>1 DEF LdsSlots
<1>4. r \in Seq(LdsObjects) /\ Len(r) <= DmaSlots
    BY <1>1, <1>3
<1>5. C \in BracketsType /\ C.ST = B.ST /\ C.LB = B.LB /\ C.UB = B.UB
      /\ C.PendingEvents = B.PendingEvents /\ C.LDSDMAStores = r
    <2> HIDE DEF q, r
    <2>. QED  BY <1>1, <1>4 DEF BracketsType
<1> HIDE DEF C, r, q
<1>. QED  BY <1>2, <1>4, <1>5, OtherParts

\* A wait raises lower bounds only, and drops the events of the counters it
\* brings to zero.
LEMMA ApplyOK ==
    ASSUME NEW st \in Generations, NEW B, BracketOK(B, st), NEW W \in Waitcnt
    PROVE  BracketOK(applyWaitcnt(B, W), st)
<1> DEFINE l == [T \in InstCounterType |-> appliedLB(B, T, W[T])]
           p == {E \in B.PendingEvents : W[eventCounter(st, E)] # 0}
           C == [B EXCEPT !.LB = l, !.PendingEvents = p]
<1>1. /\ B \in BracketsType /\ B.ST = st /\ B.PendingEvents \subseteq WaitEventType
      /\ \A T \in InstCounterType :
            B.LB[T] \in Nat /\ B.UB[T] \in Nat /\ B.LB[T] <= B.UB[T] /\ W[T] \in Nat
    BY DEF BracketOK, BracketsType, Waitcnt
<1>2. applyWaitcnt(B, W) = C
    BY <1>1 DEF applyWaitcnt
<1>3. ASSUME NEW T \in InstCounterType
      PROVE  /\ l[T] \in Nat /\ B.LB[T] <= l[T] /\ l[T] <= B.UB[T]
             /\ W[T] = 0 => l[T] = B.UB[T]
             /\ W[T] # 0 => (l[T] = B.UB[T] <=> B.LB[T] = B.UB[T])
    BY <1>1, <1>3 DEF appliedLB, Greatest
<1>4. l \in [InstCounterType -> Nat]
    BY <1>3
<1>5. C \in BracketsType /\ C.ST = st /\ C.LB = l /\ C.UB = B.UB
      /\ C.PendingEvents = p /\ C.LDSDMAStores = B.LDSDMAStores
    <2>1. p \subseteq WaitEventType
        BY <1>1
    <2> HIDE DEF l, p
    <2>. QED  BY <1>1, <1>4, <2>1 DEF BracketsType
<1> HIDE DEF C, l
<1>6. ASSUME NEW T \in InstCounterType, getWaitCountMax(st, T) # 0
      PROVE  (PendingOn(C, T) # {}) <=> (C.LB[T] # C.UB[T])
    <2>1. (PendingOn(B, T) # {}) <=> (B.LB[T] # B.UB[T])
        BY <1>6 DEF BracketOK
    <2>2. \A E \in PendingOn(B, T) : eventCounter(st, E) = T
        BY <1>1, EventCounter DEF PendingOn
    <2>3. CASE W[T] = 0
        <3>1. PendingOn(C, T) = {}
            BY <1>1, <1>5, <2>2, <2>3 DEF PendingOn
        <3>. QED  BY <1>3, <1>5, <2>3, <3>1
    <2>4. CASE W[T] # 0
        <3>1. PendingOn(C, T) = PendingOn(B, T)
            BY <1>1, <1>5, <2>2, <2>4 DEF PendingOn
        <3>. QED  BY <1>3, <1>5, <2>1, <2>4, <3>1
    <2>. QED  BY <2>3, <2>4
<1>. QED  BY <1>1, <1>2, <1>3, <1>5, <1>6 DEF BracketOK

\* Scores that are aligned with a wider range do not fall below zero.
LEMMA ShiftedNat ==
    ASSUME NEW st, NEW B, BracketOK(B, st), NEW T \in InstCounterType, NEW score \in Nat,
           NEW NewUB \in Nat, NewUB >= B.UB[T] - B.LB[T]
    PROVE  shifted(B, T, score, NewUB) \in Nat
<1>1. B.UB[T] \in Nat /\ B.LB[T] \in Nat
    BY DEF BracketOK, BracketsType
<1>. QED  BY <1>1 DEF shifted

LEMMA MergeScore ==
    ASSUME NEW st, NEW B, BracketOK(B, st), NEW O, BracketOK(O, st),
           NEW T \in InstCounterType, NEW score \in Nat, NEW other \in Nat
    PROVE  mergeScore(B, O, T, score, other) \in Nat
<1> DEFINE ub == mergedUB(B, O, T)
<1>1. /\ B.UB[T] \in Nat /\ B.LB[T] \in Nat /\ B.LB[T] <= B.UB[T]
      /\ O.UB[T] \in Nat /\ O.LB[T] \in Nat /\ O.LB[T] <= O.UB[T]
    BY DEF BracketOK, BracketsType
<1>2. ub \in Nat /\ ub >= B.UB[T] - B.LB[T] /\ ub >= O.UB[T] - O.LB[T]
    BY <1>1 DEF mergedUB, Greatest, ScoreRange
<1> HIDE DEF ub
<1>3. shifted(B, T, score, ub) \in Nat /\ shifted(O, T, other, ub) \in Nat
    BY <1>2, ShiftedNat
<1>. QED  BY <1>3 DEF mergeScore, Greatest, ub

\* The merged brackets have the larger range of each counter, and the events
\* of both.
LEMMA MergeOK ==
    ASSUME NEW st \in Generations, NEW B, BracketOK(B, st), NEW O, BracketOK(O, st)
    PROVE  BracketOK(merge(B, O), st)
<1> DEFINE u == [T \in InstCounterType |-> mergedUB(B, O, T)]
           p == B.PendingEvents \cup O.PendingEvents
           f == [T \in InstCounterType |-> mergeScore(B, O, T, B.LastFlat[T], O.LastFlat[T])]
           s == [T \in InstCounterType |-> [r \in Slots |->
                    mergeScore(B, O, T, B.Score[T][r], O.Score[T][r])]]
           v == [x \in Vgprs |-> B.VmemTypes[x] \cup O.VmemTypes[x]]
           C == [B EXCEPT !.UB = u, !.PendingEvents = p, !.LastFlat = f,
                          !.Score = s, !.VmemTypes = v]
<1>1. /\ B \in BracketsType /\ B.ST = st /\ Len(B.LDSDMAStores) <= DmaSlots
      /\ O \in BracketsType /\ O.ST = st
      /\ \A T \in InstCounterType :
            /\ B.LB[T] \in Nat /\ B.UB[T] \in Nat /\ B.LB[T] <= B.UB[T]
            /\ O.LB[T] \in Nat /\ O.UB[T] \in Nat /\ O.LB[T] <= O.UB[T]
    BY DEF BracketOK, BracketsType
<1>2. merge(B, O) = C
    <2> DEFINE C0 == [B EXCEPT
            !.UB = [T \in InstCounterType |-> mergedUB(B, O, T)],
            !.PendingEvents = @ \cup O.PendingEvents,
            !.LastFlat = [T \in InstCounterType |->
                             mergeScore(B, O, T, @[T], O.LastFlat[T])],
            !.Score = [T \in InstCounterType |-> [r \in Slots |->
                          mergeScore(B, O, T, @[T][r], O.Score[T][r])]],
            !.VmemTypes = [x \in Vgprs |-> @[x] \cup O.VmemTypes[x]]]
    <2>1. merge(B, O) = C0
        BY DEF merge
    <2>2. C0 = C
        OBVIOUS
    <2>. QED  BY <2>1, <2>2
<1>3. ASSUME NEW T \in InstCounterType
      PROVE  /\ u[T] \in Nat /\ B.LB[T] <= u[T]
             /\ B.LB[T] = u[T] <=> (B.LB[T] = B.UB[T] /\ O.LB[T] = O.UB[T])
    <2>1. u[T] = B.LB[T] + Greatest(B.UB[T] - B.LB[T], O.UB[T] - O.LB[T])
        BY <1>3 DEF mergedUB, ScoreRange
    <2> HIDE DEF u
    <2>. QED  BY <1>1, <1>3, <2>1 DEF Greatest
<1>4. u \in [InstCounterType -> Nat]
    BY <1>3
<1>5. f \in [InstCounterType -> Nat]
    <2>1. \A T \in InstCounterType : B.LastFlat[T] \in Nat /\ O.LastFlat[T] \in Nat
        BY <1>1 DEF BracketsType
    <2>. QED  BY <2>1, MergeScore
<1>6. s \in [InstCounterType -> [Slots -> Nat]]
    <2>1. \A T \in InstCounterType, r \in Slots : B.Score[T][r] \in Nat /\ O.Score[T][r] \in Nat
        BY <1>1 DEF BracketsType
    <2>2. \A T \in InstCounterType, r \in Slots :
             mergeScore(B, O, T, B.Score[T][r], O.Score[T][r]) \in Nat
        BY <2>1, MergeScore
    <2>. QED  BY <2>2
<1>7. v \in [Vgprs -> SUBSET VmemType] /\ p \subseteq WaitEventType
    BY <1>1 DEF BracketsType
<1>8. /\ C \in BracketsType /\ C.ST = st /\ C.LDSDMAStores = B.LDSDMAStores
      /\ C.LB = B.LB /\ C.UB = u /\ C.PendingEvents = p
    <2> HIDE DEF u, p, f, s, v
    <2>. QED  BY <1>1, <1>4, <1>5, <1>6, <1>7 DEF BracketsType
<1> HIDE DEF C, u
<1>9. ASSUME NEW T \in InstCounterType, getWaitCountMax(st, T) # 0
      PROVE  (PendingOn(C, T) # {}) <=> (C.LB[T] # C.UB[T])
    <2>1. /\ (PendingOn(B, T) # {}) <=> (B.LB[T] # B.UB[T])
          /\ (PendingOn(O, T) # {}) <=> (O.LB[T] # O.UB[T])
        BY <1>9 DEF BracketOK
    <2>2. PendingOn(C, T) = PendingOn(B, T) \cup PendingOn(O, T)
        BY <1>1, <1>8 DEF PendingOn
    <2>. QED  BY <1>3, <1>8, <2>1, <2>2
<1>. QED  BY <1>1, <1>2, <1>3, <1>8, <1>9 DEF BracketOK

-----------------------------------------------------------------------------
(* The waits that the pass computes are numbers. *)

LEMMA MinNat ==
    ASSUME NEW S \in SUBSET Nat, S # {}
    PROVE  Min(S) \in S /\ \A y \in S : Min(S) <= y
<1>1. PICK x \in S : \A y \in S : <<y, x>> \notin OpToRel(<, Nat)
    BY WFMin, NatLessThanWellFounded, Zenon
<1>2. S \subseteq Nat
    OBVIOUS
<1>3. ASSUME NEW y \in S, y < x
      PROVE  FALSE
    <2> DEFINE z == <<y, x>>
    <2>1. z \in Nat \X Nat /\ z[1] < z[2]
        BY <1>2, <1>3, SMT
    <2>2. z \notin OpToRel(<, Nat)
        BY <1>1, Zenon
    <2> HIDE DEF z
    <2>. QED  BY <2>1, <2>2, Zenon DEF OpToRel
<1>4. \A y \in S : x <= y
    BY <1>2, <1>3
<1>. QED  BY <1>4 DEF Min

LEMMA WaitNat ==
    ASSUME NEW st \in Nat, NEW B, BracketOK(B, st), NEW T \in InstCounterType,
           NEW slots, slots \subseteq Slots, T = "STORE_CNT" => slots = {}
    PROVE  waitFor(B, T, slots) \in Nat
<1>1. ASSUME NEW r \in slots
      PROVE  determineWait(B, T, r) \in Nat
    <2>1. /\ B.ST = st /\ B.Score[T][r] \in Nat /\ B.UB[T] \in Nat /\ B.LB[T] \in Nat
          /\ getWaitCountMax(st, T) - 1 \in Nat
        BY CountMax DEF BracketOK, BracketsType, getWaitCountMax
    <2>2. InBracket(B, T, B.Score[T][r]) => B.UB[T] - B.Score[T][r] \in Nat
        BY <2>1 DEF InBracket
    <2>. QED  BY <2>1, <2>2 DEF determineWait, NoWait, Least
<1> DEFINE S == {NoWait} \cup {determineWait(B, T, r) : r \in slots}
<1>2. S \subseteq Nat /\ S # {}
    BY <1>1 DEF NoWait
<1>3. Min(S) \in S
    <2> HIDE DEF S
    <2>. QED  BY <1>2, MinNat
<1>. QED  BY <1>2, <1>3 DEF waitFor

\* The code of a function is made of instructions, and its blocks lead to
\* blocks of it.
LEMMA Code ==
    ASSUME WellFormed(fn)
    PROVE  /\ ST \in Generations /\ ST \in Nat
           /\ Len(fn.code) \in Nat \ {0}
           /\ \A b \in Blocks : Length(b) \in Nat /\ fn.succ[b] \subseteq Blocks
           /\ \A b \in Blocks, k \in Nat :
                 k > 0 /\ k <= Length(b) => fn.code[b][k] \in Instruction
<1>1. fn.gen \in Generations /\ fn.code \in Seq(Seq(Instruction)) /\ fn.code # <<>>
      /\ fn.succ \in [1..Len(fn.code) -> SUBSET (2..Len(fn.code))]
    BY DEF WellFormed
<1>2. Len(fn.code) \in Nat \ {0}
    BY <1>1
<1>3. ASSUME NEW b \in Blocks
      PROVE  fn.code[b] \in Seq(Instruction) /\ fn.succ[b] \subseteq Blocks
    <2>1. b \in 1..Len(fn.code)
        BY DEF Blocks
    <2>2. fn.code[b] \in Seq(Instruction)
        BY <1>1, <2>1
    <2>3. fn.succ[b] \subseteq 2..Len(fn.code)
        BY <1>1, <2>1
    <2>. QED  BY <1>2, <2>2, <2>3 DEF Blocks
<1>4. ASSUME NEW b \in Blocks
      PROVE  /\ Length(b) \in Nat
             /\ \A k \in Nat : k > 0 /\ k <= Length(b) => fn.code[b][k] \in Instruction
    <2>1. fn.code[b] \in Seq(Instruction)
        BY <1>3
    <2>. QED  BY <2>1 DEF Length
<1>. QED  BY <1>1, <1>2, <1>3, <1>4, GenerationsAssumption DEF ST

LEMMA DmaSlotsOf ==
    ASSUME NEW st, NEW B, BracketOK(B, st), NEW objs
    PROVE  dmaSlotsOf(B, objs) \subseteq Slots
<1>1. Len(B.LDSDMAStores) \in Nat /\ Len(B.LDSDMAStores) <= DmaSlots /\ DmaSlots \in Nat
    BY SlotsAssumption DEF BracketOK, BracketsType
<1>. QED  BY <1>1 DEF dmaSlotsOf, Slots, LdsSlots

LEMMA SlotsToWaitForOK ==
    ASSUME WellFormed(fn), NEW B, BracketOK(B, ST), NEW I \in Instruction, NEW T \in InstCounterType
    PROVE  /\ SlotsToWaitFor(B, I, T) \subseteq Slots
           /\ T = "STORE_CNT" => SlotsToWaitFor(B, I, T) = {}
<1>1. /\ VgprOperands(I) \subseteq Slots /\ SgprOperands(I) \subseteq Slots
      /\ I.defs \cap Vgprs \subseteq Slots /\ needsVmWait(B, I) \subseteq Slots
    BY DEF VgprOperands, SgprOperands, needsVmWait, Slots
<1>2. dmaSlotsOf(B, I.lds) \subseteq Slots
    BY DmaSlotsOf
<1>3. CASE T \in {"LOAD_CNT", "SAMPLE_CNT", "BVH_CNT"}
    BY <1>1, <1>2, <1>3 DEF SlotsToWaitFor
<1>4. CASE T = "EXP_CNT"
    BY <1>1, <1>4 DEF SlotsToWaitFor
<1>5. CASE T \in {"DS_CNT", "KM_CNT"}
    BY <1>1, <1>5 DEF SlotsToWaitFor
<1>6. CASE T = "STORE_CNT"
    BY <1>6 DEF SlotsToWaitFor
<1>. QED  BY <1>3, <1>4, <1>5, <1>6 DEF InstCounterType

LEMMA NoWaitsType == NoWaits \in Waitcnt /\ getAllZeroWaitcnt \in Waitcnt /\ NoWait \in Nat
BY DEF NoWaits, getAllZeroWaitcnt, Waitcnt, NoWait

LEMMA RequiredWaitType ==
    ASSUME WellFormed(fn), NEW B, BracketOK(B, ST), NEW I \in Instruction
    PROVE  RequiredWait(B, I) \in Waitcnt
<1>1. ST \in Nat
    BY Code
<1>2. CASE I.kind = "return"
    BY <1>2, NoWaitsType DEF RequiredWait
<1>3. CASE I.kind = "endpgm"
    BY <1>3, NoWaitsType DEF RequiredWait
<1>4. CASE I.kind = "call"
    <2>1. SgprOperands(I) \subseteq Slots /\ SmemAccessCounter(ST) # "STORE_CNT"
        BY DEF SgprOperands, Slots, SmemAccessCounter
    <2>2. \A T \in InstCounterType :
             T = SmemAccessCounter(ST) => waitFor(B, T, SgprOperands(I)) \in Nat
        BY <1>1, <2>1, WaitNat
    <2>3. RequiredWait(B, I) =
             [T \in InstCounterType |->
                IF T = SmemAccessCounter(ST) THEN waitFor(B, T, SgprOperands(I)) ELSE NoWait]
        BY <1>4 DEF RequiredWait
    <2>. QED  BY <2>2, <2>3, NoWaitsType DEF Waitcnt
<1>5. CASE I.kind \notin {"return", "endpgm", "call"}
    <2>1. \A T \in InstCounterType : waitFor(B, T, SlotsToWaitFor(B, I, T)) \in Nat
        BY <1>1, SlotsToWaitForOK, WaitNat
    <2>2. RequiredWait(B, I) =
             [T \in InstCounterType |->
                IF T \in ZeroFirst(B, I) THEN 0 ELSE waitFor(B, T, SlotsToWaitFor(B, I, T))]
        BY <1>5 DEF RequiredWait
    <2>. QED  BY <2>1, <2>2 DEF Waitcnt
<1>. QED  BY <1>2, <1>3, <1>4, <1>5

LEMMA SimplifyType ==
    ASSUME NEW B, NEW W \in Waitcnt
    PROVE  simplifyWaitcnt(B, W) \in Waitcnt
BY NoWaitsType DEF simplifyWaitcnt, Waitcnt

LEMMA CombinedType ==
    ASSUME NEW V \in Waitcnt, NEW W \in Waitcnt
    PROVE  combined(V, W) \in Waitcnt
BY DEF combined, Waitcnt, Least

LEMMA EncodedType ==
    ASSUME NEW W \in Waitcnt
    PROVE  Encoded(W) \in Waitcnt
BY LimitsAssumption DEF Encoded, Waitcnt, Least

LEMMA SoftWaitType ==
    ASSUME NEW p
    PROVE  SoftWait(p) \in Waitcnt
<1> DEFINE W == [T \in InstCounterType |->
                    IF T \in fn.code[p[1]][p[2]].soft THEN 0 ELSE NoWait]
<1>1. W \in Waitcnt
    BY NoWaitsType DEF Waitcnt
<1>2. Encoded(W) \in Waitcnt
    <2> HIDE DEF W
    <2>. QED  BY <1>1, EncodedType
<1>. QED  BY <1>2, NoWaitsType DEF SoftWait

LEMMA GeneratedType ==
    ASSUME NEW B, NEW p \in Places, Hard \in [Places -> Waitcnt], NEW W \in Waitcnt
    PROVE  generatedWait(B, p, W) \in Waitcnt
<1>1. Hard[p] \in Waitcnt
    OBVIOUS
<1>2. simplifyWaitcnt(B, SoftWait(p)) \in Waitcnt
    BY SoftWaitType, SimplifyType
<1>3. combined(W, Hard[p]) \in Waitcnt
    BY <1>1, CombinedType
<1>. QED  BY <1>2, <1>3, CombinedType DEF generatedWait

-----------------------------------------------------------------------------
(* An instruction keeps the brackets well-formed. *)

LEMMA AccessOK ==
    ASSUME WellFormed(fn), NEW B, BracketOK(B, ST), NEW E \in WaitEventType,
           NEW I \in Instruction, NEW vmem \in SUBSET VmemType
    PROVE  BracketOK(accessEvent(B, E, I, vmem), ST)
<1> DEFINE marked == updateByEvent(B, E, I.defs \cup ldsMarks(B, I), vmem)
<1>1. BracketOK(marked, ST)
    BY Code, UpdateOK
<1> HIDE DEF marked
<1>2. I.lds # {} => BracketOK(recordDmaStore(marked, CHOOSE o \in I.lds : TRUE), ST)
    <2>1. I.lds # {} => (CHOOSE o \in I.lds : TRUE) \in LdsObjects
        BY DEF Instruction
    <2>. QED  BY <1>1, <2>1, DmaOK
<1>3. accessEvent(B, E, I, vmem) =
         IF mayWriteLds(I) /\ I.lds # {}
         THEN recordDmaStore(marked, CHOOSE o \in I.lds : TRUE) ELSE marked
    BY DEF accessEvent, marked
<1>. QED  BY <1>1, <1>2, <1>3

LEMMA VmemOK ==
    ASSUME WellFormed(fn), NEW B, BracketOK(B, ST), NEW I \in Instruction
    PROVE  BracketOK(vmemEvent(B, I), ST)
<1> DEFINE ev == getVmemWaitEventType(I)
           types == IF updateVMCntOnly(I) THEN {I.type} ELSE {}
<1>1. I.type \in VmemType
    BY DEF Instruction
<1>2. ev \in WaitEventType
    BY <1>1 DEF getVmemWaitEventType, VmemReadMapping, VmemType, WaitEventType
<1>3. types \in SUBSET VmemType
    BY <1>1
<1>4. vmemEvent(B, I) = accessEvent(B, ev, I, types)
    BY DEF vmemEvent
<1> HIDE DEF ev, types
<1>. QED  BY <1>2, <1>3, <1>4, AccessOK

\* An event that says nothing of vector memory.
LEMMA PlainUpdateOK ==
    ASSUME WellFormed(fn), NEW B, BracketOK(B, ST), NEW E \in WaitEventType, NEW marks
    PROVE  BracketOK(updateByEvent(B, E, marks, {}), ST)
BY UpdateOK, Code

LEMMA AfterOK ==
    ASSUME WellFormed(fn), NEW B, BracketOK(B, ST), NEW I \in Instruction
    PROVE  BracketOK(updateEventWaitcntAfter(B, I), ST)
<1> DEFINE After == updateEventWaitcntAfter(B, I)
<1>1. /\ I.kind \in {"alu", "load", "store", "dma", "ds", "gds", "smem", "message", "export",
                     "ldsdir", "call", "return", "endpgm"}
      /\ I.event \in WaitEventType
    BY DEF Instruction
<1>2. {"LDS_ACCESS", "GDS_ACCESS", "GDS_GPR_LOCK", "VMW_GPR_LOCK", "SMEM_ACCESS",
       "EXP_LDS_ACCESS", "SQ_MESSAGE"} \subseteq WaitEventType
    BY DEF WaitEventType
<1>3. CASE I.kind = "ds"
    <2>1. After = accessEvent(B, "LDS_ACCESS", I, {})
        BY <1>3 DEF updateEventWaitcntAfter, isVMEMOrFLAT
    <2>. QED  BY <1>2, <2>1, AccessOK
<1>4. CASE I.kind = "gds"
    <2> DEFINE C == accessEvent(B, "GDS_ACCESS", I, {})
    <2>1. After = updateByEvent(C, "GDS_GPR_LOCK", I.uses, {})
        BY <1>4 DEF updateEventWaitcntAfter, isVMEMOrFLAT
    <2>2. BracketOK(C, ST)
        BY <1>2, AccessOK
    <2> HIDE DEF C
    <2>. QED  BY <1>2, <2>1, <2>2, PlainUpdateOK
<1>5. CASE isVMEMOrFLAT(I) /\ I.seg # "buffer"
    <2> DEFINE lds(C) == accessEvent(C, "LDS_ACCESS", I, {})
    <2>1. After = IF ~mayAccessVMEMThroughFlat(I) THEN lds(B)
                  ELSE IF ~mayAccessLDSThroughFlat(I) THEN vmemEvent(B, I)
                  ELSE setPendingFlat(lds(vmemEvent(B, I)))
        BY <1>5 DEF updateEventWaitcntAfter, flatEvents, isVMEMOrFLAT
    <2>2. BracketOK(vmemEvent(B, I), ST)
        BY VmemOK
    <2>3. \A C : BracketOK(C, ST) => BracketOK(lds(C), ST)
        BY <1>2, AccessOK
    <2> HIDE DEF lds
    <2>. QED  BY <2>1, <2>2, <2>3, FlatOK
<1>6. CASE isVMEMOrFLAT(I) /\ I.seg = "buffer"
    <2>1. After = IF vmemWriteNeedsExpWaitcnt(ST) /\ I.data # {}
                  THEN updateByEvent(vmemEvent(B, I), "VMW_GPR_LOCK", I.data, {})
                  ELSE vmemEvent(B, I)
        BY <1>6 DEF updateEventWaitcntAfter, bufferEvents, isVMEMOrFLAT
    <2>2. BracketOK(vmemEvent(B, I), ST)
        BY VmemOK
    <2>3. BracketOK(updateByEvent(vmemEvent(B, I), "VMW_GPR_LOCK", I.data, {}), ST)
        BY <1>2, <2>2, PlainUpdateOK
    <2>. QED  BY <2>1, <2>2, <2>3
<1>7. CASE I.kind = "smem"
    <2>1. After = updateByEvent(B, "SMEM_ACCESS", I.defs, {})
        BY <1>7 DEF updateEventWaitcntAfter, isVMEMOrFLAT
    <2>. QED  BY <1>2, <2>1, PlainUpdateOK
<1>8. CASE I.kind = "call"
    <2>1. After = setStateOnFunctionEntryOrReturn(applyWaitcnt(B, getAllZeroWaitcnt))
        BY <1>8 DEF updateEventWaitcntAfter, isVMEMOrFLAT
    <2>2. BracketOK(applyWaitcnt(B, getAllZeroWaitcnt), ST)
        BY NoWaitsType, Code, ApplyOK
    <2>. QED  BY <2>1, <2>2, Code, FunctionEntry
<1>9. CASE I.kind = "ldsdir"
    <2>1. After = updateByEvent(B, "EXP_LDS_ACCESS", I.defs, {})
        BY <1>9 DEF updateEventWaitcntAfter, isVMEMOrFLAT
    <2>. QED  BY <1>2, <2>1, PlainUpdateOK
<1>10. CASE I.kind = "export"
    <2>1. After = updateByEvent(B, I.event, I.uses, {})
        BY <1>10 DEF updateEventWaitcntAfter, isVMEMOrFLAT
    <2>. QED  BY <1>1, <2>1, PlainUpdateOK
<1>11. CASE I.kind = "message"
    <2>1. After = updateByEvent(B, "SQ_MESSAGE", I.defs, {})
        BY <1>11 DEF updateEventWaitcntAfter, isVMEMOrFLAT
    <2>. QED  BY <1>2, <2>1, PlainUpdateOK
<1>12. CASE I.kind \in {"alu", "return", "endpgm"}
    BY <1>12 DEF updateEventWaitcntAfter, isVMEMOrFLAT
<1>. QED  BY <1>1, <1>3, <1>4, <1>5, <1>6, <1>7, <1>8, <1>9, <1>10, <1>11, <1>12 DEF isVMEMOrFLAT

LEMMA BeforeOK ==
    ASSUME WellFormed(fn), NEW B, BracketOK(B, ST), NEW I \in Instruction, NEW W \in Waitcnt
    PROVE  BracketOK(bracketsBefore(B, I, W), ST)
<1> DEFINE C == IF I.kind \in {"call", "return", "endpgm"} THEN B
                ELSE clearVgprVmemTypes(B, needsVmWait(B, I))
<1>1. BracketOK(C, ST)
    BY ClearOK
<1> HIDE DEF C
<1>2. BracketOK(applyWaitcnt(C, W), ST)
    BY <1>1, Code, ApplyOK
<1>. QED  BY <1>2 DEF bracketsBefore, C

-----------------------------------------------------------------------------
(* The invariant: besides the types, the brackets agree with the events, have *)
(* slots for their stores, and the place looked at is one of the code.        *)

BracketsOK ==
    /\ BracketOK(ScoreBrackets, ST)
    /\ \A b \in DOMAIN Incoming : BracketOK(Incoming[b], ST)

Located ==
    /\ at[1] \in Nat /\ at[2] \in Nat
    /\ at[2] > 0 => at \in Places
    /\ at[2] = 0 => at[1] \in Blocks \cup {0}
    /\ phase # "pass" => at[2] > 0

IInv == VariableTypes /\ BracketsOK /\ Located

LEMMA PlaceFacts ==
    ASSUME WellFormed(fn)
    PROVE  /\ \A b \in Blocks, k \in Nat : k > 0 /\ k <= Length(b) + 1 => <<b, k>> \in Places
           /\ <<1, 1>> \in Places /\ 1 \in Blocks
           /\ \A p \in Places : /\ p = <<p[1], p[2]>> /\ p[1] \in Blocks /\ p[2] \in Nat
                                /\ p[2] > 0 /\ p[2] <= Length(p[1]) + 1
<1>1. ASSUME NEW b \in Blocks, NEW k \in Nat, k > 0, k <= Length(b) + 1
      PROVE  <<b, k>> \in Places
    <2>1. k \in 1..Length(b) + 1
        BY <1>1, Code
    <2>. QED  BY <2>1 DEF Places
<1>2. 1 \in Blocks
    BY Code DEF Blocks
<1>3. <<1, 1>> \in Places
    <2>1. 1 <= Length(1) + 1
        BY <1>2, Code
    <2>. QED  BY <1>1, <1>2, <2>1
<1>4. ASSUME NEW p \in Places
      PROVE  /\ p = <<p[1], p[2]>> /\ p[1] \in Blocks /\ p[2] \in Nat
             /\ p[2] > 0 /\ p[2] <= Length(p[1]) + 1
    <2>1. PICK b \in Blocks : p \in {b} \X (1..Length(b) + 1)
        BY DEF Places
    <2>2. Length(b) \in Nat
        BY Code
    <2>. QED  BY <2>1, <2>2
<1>. QED  BY <1>1, <1>2, <1>3, <1>4

\* The instruction looked at is one of the code.
LEMMA InstOK ==
    ASSUME IInv, at[2] > 0
    PROVE  /\ at \in Places /\ at[1] \in Blocks /\ at[2] \in Nat /\ at = <<at[1], at[2]>>
           /\ at[2] <= Length(at[1]) + 1 /\ Length(at[1]) \in Nat
           /\ at[2] <= Length(at[1]) => Inst \in Instruction /\ <<at[1], at[2] + 1>> \in Places
<1>1. WellFormed(fn) /\ at \in Places
    BY DEF IInv, VariableTypes, Located
<1>2. /\ at[1] \in Blocks /\ at[2] \in Nat /\ at = <<at[1], at[2]>>
      /\ at[2] <= Length(at[1]) + 1
    BY <1>1, PlaceFacts
<1>3. Length(at[1]) \in Nat
    BY <1>1, <1>2, Code
<1>4. ASSUME at[2] <= Length(at[1])
      PROVE  Inst \in Instruction /\ <<at[1], at[2] + 1>> \in Places
    <2>1. Inst \in Instruction
        BY <1>1, <1>2, <1>4, Code DEF Inst
    <2>2. at[2] + 1 \in Nat /\ at[2] + 1 > 0 /\ at[2] + 1 <= Length(at[1]) + 1
        BY <1>2, <1>3, <1>4
    <2>. QED  BY <1>1, <1>2, <2>1, <2>2, PlaceFacts
<1>. QED  BY <1>1, <1>2, <1>3, <1>4

LEMMA InitInv == Init => IInv
<1>. SUFFICES ASSUME Init PROVE IInv
    OBVIOUS
<1>1. WellFormed(fn) /\ ST \in Generations
    BY FunctionsAssumption, Code DEF Init
<1>2. BracketOK(NewBrackets(ST), ST) /\ BracketOK(ScoreBrackets, ST)
    BY <1>1, NewOK DEF Init
<1>3. BracketOK(setStateOnFunctionEntryOrReturn(NewBrackets(ST)), ST)
    BY <1>1, <1>2, FunctionEntry
<1>4. DOMAIN Incoming \subseteq {1} /\ \A b \in DOMAIN Incoming : BracketOK(Incoming[b], ST)
    BY <1>3 DEF Init
<1>5. 1 \in Blocks
    BY <1>1, PlaceFacts
<1>6. Hard \in [Places -> Waitcnt]
    BY NoWaitsType DEF Init
<1>7. Soft \subseteq Places
    BY DEF Init
<1>8. phase = "pass" /\ at = <<0, 0>> /\ Dirty = Blocks /\ Repeat = FALSE
      /\ ReleaseVGPRInsts = {} /\ SLoadAddresses = <<>> /\ PreheadersToFlush = <<>>
    BY DEF Init
<1>9. at \in Nat \X Nat /\ Located
    BY <1>8 DEF Located
<1>10. DOMAIN SLoadAddresses = {} /\ DOMAIN PreheadersToFlush = {}
    BY <1>8
<1>11. BracketsOK /\ ScoreBrackets \in BracketsType
       /\ \A b \in DOMAIN Incoming : Incoming[b] \in BracketsType
    BY <1>2, <1>4 DEF BracketsOK, BracketOK
<1>12. VariableTypes
    BY <1>1, <1>4, <1>5, <1>6, <1>7, <1>8, <1>9, <1>10, <1>11 DEF VariableTypes
<1>. QED  BY <1>9, <1>11, <1>12 DEF IInv

\* What is left as it is keeps its type.
LEMMA SameFunction ==
    ASSUME fn' = fn
    PROVE  /\ ST' = ST /\ Blocks' = Blocks /\ Places' = Places
           /\ WellFormed(fn) => WellFormed(fn)'
BY DEF ST, Blocks, Places, Length

\* A step of the wave changes nothing of the pass.
LEMMA WaveStep ==
    ASSUME IInv, UNCHANGED <<fn, passVars>>, phase' \in {"pass", "run", "done"}, at' \in Places
    PROVE  IInv'
<1>1. WellFormed(fn)
    BY DEF IInv, VariableTypes
<1>2. at'[1] \in Nat /\ at'[2] \in Nat /\ at'[2] > 0 /\ at' \in Nat \X Nat
    BY <1>1, PlaceFacts DEF Blocks
<1>3. Located'
    BY <1>2, SameFunction DEF Located
<1>4. BracketsOK'
    BY SameFunction DEF IInv, BracketsOK, passVars
<1>5. VariableTypes'
    BY <1>2, SameFunction DEF IInv, VariableTypes, passVars
<1>. QED  BY <1>3, <1>4, <1>5 DEF IInv

\* A block starts with the brackets it has got, or with nothing pending.
LEMMA StartBlockInv ==
    ASSUME IInv, StartBlock
    PROVE  IInv'
<1>1. WellFormed(fn) /\ fn' = fn
    BY DEF IInv, VariableTypes, StartBlock
<1>2. PICK b \in Dirty :
         /\ at' = <<b, 1>> /\ Dirty' = Dirty \ {b}
         /\ ScoreBrackets' = IF b \in DOMAIN Incoming THEN Incoming[b] ELSE NewBrackets(ST)
    BY DEF StartBlock
<1>3. b \in Blocks /\ b \in Nat
    BY DEF IInv, VariableTypes, Blocks
<1>4. BracketOK(ScoreBrackets', ST)
    BY <1>1, <1>2, NewOK, Code DEF IInv, BracketsOK
<1>5. Incoming' = Incoming
    BY DEF StartBlock
<1>6. BracketsOK'
    BY <1>1, <1>4, <1>5, SameFunction DEF IInv, BracketsOK
<1>7. <<b, 1>> \in Places
    <2>1. 1 <= Length(b) + 1
        BY <1>1, <1>3, Code
    <2>. QED  BY <1>1, <1>3, <2>1, PlaceFacts
<1>8. Located' /\ at' \in Nat \X Nat
    BY <1>1, <1>2, <1>3, <1>7, SameFunction DEF Located, StartBlock
<1>9. VariableTypes'
    BY <1>1, <1>2, <1>4, <1>8, SameFunction DEF IInv, VariableTypes, StartBlock, BracketOK
<1>. QED  BY <1>6, <1>8, <1>9 DEF IInv

\* The pointers remembered have a block each.
LEMMA AddressesType ==
    ASSUME IInv, at[1] \in Blocks, NEW I \in Instruction
    PROVE  /\ DOMAIN sLoadAddressesAfter(I) \subseteq Pointers
           /\ \A p \in DOMAIN sLoadAddressesAfter(I) : sLoadAddressesAfter(I)[p] \in Blocks
<1>1. I.ptr \in Pointers \cup {NoPointer}
    BY DEF Instruction
<1>2. /\ DOMAIN SLoadAddresses \subseteq Pointers
      /\ \A p \in DOMAIN SLoadAddresses : SLoadAddresses[p] \in Blocks
    BY DEF IInv, VariableTypes
<1> DEFINE dropped == {p \in DOMAIN SLoadAddresses :
                         storesToSLoad(I) /\ p = I.ptr /\ PostDominates(fn, at[1], SLoadAddresses[p])}
           added == IF I.kind = "smem" /\ I.ptr # NoPointer THEN {I.ptr} ELSE {}
           D == (DOMAIN SLoadAddresses \ dropped) \cup added
<1>3. sLoadAddressesAfter(I) =
         [p \in D |-> IF p \in DOMAIN SLoadAddresses THEN SLoadAddresses[p] ELSE at[1]]
    BY DEF sLoadAddressesAfter
<1>4. D \subseteq Pointers
    BY <1>1, <1>2
<1> HIDE DEF D
<1>. QED  BY <1>2, <1>3, <1>4

\* A visit of an instruction: the wait applied, then its events.
LEMMA VisitInv ==
    ASSUME IInv, VisitInstruction
    PROVE  IInv'
<1> DEFINE I == Inst
           W == generatedWait(ScoreBrackets, at,
                              simplifyWaitcnt(ScoreBrackets, RequiredWait(ScoreBrackets, I)))
<1>1. /\ WellFormed(fn) /\ fn' = fn /\ BracketOK(ScoreBrackets, ST)
      /\ Hard \in [Places -> Waitcnt]
    BY DEF IInv, VariableTypes, BracketsOK, VisitInstruction
<1>2. at[2] > 0 /\ at[2] <= Length(at[1])
    BY DEF VisitInstruction
<1>3. /\ at \in Places /\ at[1] \in Blocks /\ I \in Instruction
      /\ <<at[1], at[2] + 1>> \in Places
    BY <1>2, InstOK
<1>4. W \in Waitcnt
    <2>1. RequiredWait(ScoreBrackets, I) \in Waitcnt
        <3> HIDE DEF I
        <3>. QED  BY <1>1, <1>3, RequiredWaitType
    <2>2. simplifyWaitcnt(ScoreBrackets, RequiredWait(ScoreBrackets, I)) \in Waitcnt
        <3> HIDE DEF I
        <3>. QED  BY <2>1, SimplifyType
    <2> HIDE DEF I
    <2>. QED  BY <1>1, <1>3, <2>2, GeneratedType
<1>5. /\ Hard' = [Hard EXCEPT ![at] = Encoded(W)]
      /\ Soft' = Soft \ {at}
      /\ ScoreBrackets' = updateEventWaitcntAfter(bracketsBefore(ScoreBrackets, I, W), I)
      /\ ReleaseVGPRInsts' = ReleaseVGPRInsts \cup {b \in {at[1]} : mayReleaseVGPRs(ScoreBrackets, I)}
      /\ SLoadAddresses' = sLoadAddressesAfter(I)
      /\ at' = <<at[1], at[2] + 1>>
      /\ UNCHANGED <<fn, phase, Incoming, Dirty, Repeat, PreheadersToFlush, queue>>
    BY DEF VisitInstruction
<1> HIDE DEF I, W
<1>6. BracketOK(ScoreBrackets', ST)
    BY <1>1, <1>3, <1>4, <1>5, BeforeOK, AfterOK
<1>7. BracketsOK'
    BY <1>1, <1>5, <1>6, SameFunction DEF IInv, BracketsOK
<1>8. Hard' \in [Places -> Waitcnt]
    BY <1>1, <1>4, <1>5, EncodedType
<1>9. at'[1] \in Nat /\ at'[2] \in Nat /\ at'[2] > 0 /\ at' \in Nat \X Nat /\ at' \in Places
    BY <1>1, <1>3, <1>5, PlaceFacts DEF Blocks
<1>10. Located'
    BY <1>1, <1>9, SameFunction DEF Located
<1>11. /\ DOMAIN SLoadAddresses' \subseteq Pointers
       /\ \A p \in DOMAIN SLoadAddresses' : SLoadAddresses'[p] \in Blocks
    BY <1>3, <1>5, AddressesType
<1>12. VariableTypes'
    <2>1. Soft' \subseteq Places /\ ReleaseVGPRInsts' \subseteq Blocks
        BY <1>3, <1>5 DEF IInv, VariableTypes
    <2>2. ScoreBrackets' \in BracketsType
        BY <1>6 DEF BracketOK
    <2>. QED  BY <1>1, <1>5, <1>8, <1>9, <1>11, <2>1, <2>2, SameFunction DEF IInv, VariableTypes
<1>. QED  BY <1>7, <1>10, <1>12 DEF IInv

\* The brackets that reach the successors.
LEMMA JoinOK ==
    ASSUME IInv, NEW b \in Blocks, NEW B, BracketOK(B, ST)
    PROVE  /\ DOMAIN joinSuccessors(b, B) \subseteq Blocks
           /\ \A s \in DOMAIN joinSuccessors(b, B) : BracketOK(joinSuccessors(b, B)[s], ST)
<1>1. /\ WellFormed(fn) /\ DOMAIN Incoming \subseteq Blocks
      /\ \A s \in DOMAIN Incoming : BracketOK(Incoming[s], ST)
    BY DEF IInv, VariableTypes, BracketsOK
<1>2. fn.succ[b] \subseteq Blocks /\ ST \in Generations
    BY <1>1, Code
<1> DEFINE D == DOMAIN Incoming \cup fn.succ[b]
           J(s) == IF s \notin DOMAIN Incoming THEN B
                   ELSE IF s \in fn.succ[b] THEN merge(Incoming[s], B)
                   ELSE Incoming[s]
<1>3. joinSuccessors(b, B) = [s \in D |-> J(s)]
    BY DEF joinSuccessors
<1>4. ASSUME NEW s \in D
      PROVE  BracketOK(J(s), ST)
    BY <1>1, <1>2, MergeOK
<1>5. D \subseteq Blocks
    BY <1>1, <1>2
<1> HIDE DEF D, J
<1>. QED  BY <1>3, <1>4, <1>5

\* The end of a block: the wait that may flush, then the join.
LEMMA EndBlockInv ==
    ASSUME IInv, EndBlock
    PROVE  IInv'
<1> DEFINE b == at[1]
           W(flush) == generatedWait(ScoreBrackets, at, flushWait(ScoreBrackets, flush))
           B(flush) == applyWaitcnt(ScoreBrackets, W(flush))
           changed(flush) == IF B(flush).PendingEvents = {} THEN {}
                             ELSE changedSuccessors(b, B(flush))
<1>1. /\ WellFormed(fn) /\ fn' = fn /\ BracketOK(ScoreBrackets, ST)
      /\ Hard \in [Places -> Waitcnt] /\ at[2] > 0
    BY DEF IInv, VariableTypes, BracketsOK, EndBlock
<1>2. at \in Places /\ b \in Blocks /\ b \in Nat
    BY <1>1, InstOK DEF Blocks
<1>3. PICK flush \in FlushChoices(b) :
         /\ Hard' = [Hard EXCEPT ![at] = Encoded(W(flush))]
         /\ ScoreBrackets' = B(flush)
         /\ PreheadersToFlush' = [x \in DOMAIN PreheadersToFlush \cup {b} |->
                                     IF x = b THEN flush ELSE PreheadersToFlush[x]]
         /\ Incoming' = IF B(flush).PendingEvents = {} THEN Incoming
                        ELSE joinSuccessors(b, B(flush))
         /\ Dirty' = Dirty \cup changed(flush)
         /\ Repeat' = (Repeat \/ \E s \in changed(flush) : s <= b)
    BY Zenon DEF EndBlock
<1>4. /\ at' = <<b, 0>>
      /\ UNCHANGED <<fn, phase, Soft, ReleaseVGPRInsts, SLoadAddresses, queue>>
    BY DEF EndBlock
<1>5. W(flush) \in Waitcnt
    <2>1. flushWait(ScoreBrackets, flush) \in Waitcnt
        BY NoWaitsType DEF flushWait, Waitcnt
    <2>. QED  BY <1>1, <1>2, <2>1, GeneratedType
<1>6. changed(flush) \subseteq Blocks
    <2>1. changedSuccessors(b, B(flush)) \subseteq fn.succ[b]
        BY DEF changedSuccessors
    <2>2. fn.succ[b] \subseteq Blocks
        BY <1>1, <1>2, Code
    <2>. QED  BY <2>1, <2>2
<1>7. BracketOK(B(flush), ST)
    <2> HIDE DEF W
    <2>. QED  BY <1>1, <1>5, ApplyOK, Code DEF B
<1>8. Hard' \in [Places -> Waitcnt]
    <2> HIDE DEF W
    <2>. QED  BY <1>1, <1>3, <1>5, EncodedType
<1>9. Repeat' \in BOOLEAN
    <2>1. Repeat \in BOOLEAN
        BY DEF IInv, VariableTypes
    <2> HIDE DEF changed
    <2>. QED  BY <1>3, <2>1, Zenon
<1> HIDE DEF B, W, changed
<1>10. /\ DOMAIN Incoming' \subseteq Blocks
       /\ \A s \in DOMAIN Incoming' : BracketOK(Incoming'[s], ST)
    <2>1. DOMAIN Incoming \subseteq Blocks /\ \A s \in DOMAIN Incoming : BracketOK(Incoming[s], ST)
        BY DEF IInv, VariableTypes, BracketsOK
    <2>. QED  BY <1>2, <1>3, <1>7, <2>1, JoinOK
<1>11. BracketsOK'
    BY <1>1, <1>3, <1>7, <1>10, SameFunction DEF BracketsOK
<1>12. /\ DOMAIN PreheadersToFlush' \subseteq Blocks
       /\ \A x \in DOMAIN PreheadersToFlush' : PreheadersToFlush'[x] \in BOOLEAN
    <2>1. /\ DOMAIN PreheadersToFlush \subseteq Blocks
          /\ \A x \in DOMAIN PreheadersToFlush : PreheadersToFlush[x] \in BOOLEAN
        BY DEF IInv, VariableTypes
    <2>2. flush \in BOOLEAN
        BY <2>1 DEF FlushChoices
    <2> DEFINE D == DOMAIN PreheadersToFlush \cup {b}
    <2>3. DOMAIN PreheadersToFlush' = D /\ D \subseteq Blocks
        BY <1>2, <1>3, <2>1
    <2>4. ASSUME NEW x \in D
          PROVE  PreheadersToFlush'[x] \in BOOLEAN
        <3>1. PreheadersToFlush'[x] = IF x = b THEN flush ELSE PreheadersToFlush[x]
            BY <1>3
        <3>. QED  BY <2>1, <2>2, <3>1
    <2>. QED  BY <2>3, <2>4
<1>13. Dirty' \subseteq Blocks
    BY <1>3, <1>6 DEF IInv, VariableTypes
<1>14. Located' /\ at' \in Nat \X Nat
    BY <1>2, <1>4, SameFunction DEF Located, EndBlock
<1>15. VariableTypes'
    <2>1. ScoreBrackets' \in BracketsType
          /\ \A s \in DOMAIN Incoming' : Incoming'[s] \in BracketsType
        BY <1>3, <1>7, <1>10 DEF BracketOK
    <2>. QED  BY <1>1, <1>4, <1>8, <1>9, <1>10, <1>12, <1>13, <1>14, <2>1, SameFunction
              DEF IInv, VariableTypes
<1>. QED  BY <1>11, <1>14, <1>15 DEF IInv

LEMMA RepeatInv ==
    ASSUME IInv, RepeatRound
    PROVE  IInv'
<1>1. WellFormed(fn) /\ fn' = fn
    BY DEF IInv, VariableTypes, RepeatRound
<1>2. Located' /\ at' \in Nat \X Nat
    BY DEF RepeatRound, EndOfRound, Located
<1>3. BracketsOK'
    BY <1>1, SameFunction DEF IInv, BracketsOK, RepeatRound
<1>4. VariableTypes'
    BY <1>1, <1>2, SameFunction DEF IInv, VariableTypes, RepeatRound
<1>. QED  BY <1>2, <1>3, <1>4 DEF IInv

\* The steps of the wave, from its start.
LEMMA WaveInv ==
    ASSUME IInv, FinishPass \/ Complete \/ Issue \/ Call \/ Leave \/ Branch
    PROVE  IInv'
<1>1. WellFormed(fn) /\ phase \in {"pass", "run", "done"}
    BY DEF IInv, VariableTypes
<1>2. CASE FinishPass
    BY <1>1, <1>2, PlaceFacts, WaveStep DEF FinishPass
<1>3. CASE Complete
    <2>1. at \in Places
        BY <1>3 DEF Complete, IInv, Located
    <2>. QED  BY <1>3, <2>1, WaveStep DEF Complete
<1>4. CASE Issue \/ Call
    <2>1. phase = "run" /\ at[2] > 0 /\ at[2] <= Length(at[1])
        BY <1>4 DEF Issue, Call, Ready, IInv, Located
    <2>2. <<at[1], at[2] + 1>> \in Places
        BY <2>1, InstOK
    <2>. QED  BY <1>1, <1>4, <2>2, WaveStep DEF Issue, Call
<1>5. CASE Leave
    <2>1. at \in Places
        BY <1>5 DEF Leave, Ready, IInv, Located
    <2>. QED  BY <1>5, <2>1, WaveStep DEF Leave
<1>6. CASE Branch
    <2>1. at[2] > 0
        BY <1>6 DEF Branch, IInv, Located
    <2>2. PICK s \in fn.succ[at[1]] : at' = <<s, 1>>
        BY <1>6 DEF Branch
    <2>3. s \in Blocks
        BY <1>1, <2>1, InstOK, Code
    <2>4. at' \in Places
        <3>1. 1 <= Length(s) + 1
            BY <1>1, <2>3, Code
        <3>. QED  BY <1>1, <2>2, <2>3, <3>1, PlaceFacts
    <2>. QED  BY <1>1, <1>6, <2>4, WaveStep DEF Branch
<1>. QED  BY <1>2, <1>3, <1>4, <1>5, <1>6

LEMMA NextInv == IInv /\ [Next]_vars => IInv'
<1>. SUFFICES ASSUME IInv, [Next]_vars PROVE IInv'
    OBVIOUS
<1>1. CASE StartBlock
    BY <1>1, StartBlockInv
<1>2. CASE VisitInstruction
    BY <1>2, VisitInv
<1>3. CASE EndBlock
    BY <1>3, EndBlockInv
<1>4. CASE RepeatRound
    BY <1>4, RepeatInv
<1>5. CASE FinishPass \/ Complete \/ Issue \/ Call \/ Leave \/ Branch
    BY <1>5, WaveInv
<1>6. CASE UNCHANGED vars
    <2>1. fn' = fn /\ phase' = phase /\ at' = at
          /\ UNCHANGED passVars
        BY <1>6 DEF vars
    <2>2. Located' /\ BracketsOK' /\ VariableTypes'
        BY <2>1, SameFunction DEF IInv, Located, BracketsOK, VariableTypes, passVars
    <2>. QED  BY <2>2 DEF IInv
<1>. QED  BY <1>1, <1>2, <1>3, <1>4, <1>5, <1>6 DEF Next, Pass, Ended

LEMMA Invariance == Spec => []IInv
BY InitInv, NextInv, PTL DEF Spec

-----------------------------------------------------------------------------
\* Every variable keeps its type, for any functions, limits and registers:
\* the scores of the brackets never fall below zero, however the paths are
\* merged, the stores to LDS told apart never outnumber their slots, and the
\* place looked at is in the code, but between two blocks.
THEOREM TypeCorrect == Spec => []TypeOK
<1>1. ASSUME IInv
      PROVE  TypeOK
    <2>1. VariableTypes /\ BracketsOK /\ Located
        BY <1>1 DEF IInv
    <2>2. SlotsSuffice
        BY <2>1 DEF SlotsSuffice, BracketsOK, BracketOK
    <2>3. InCode
        BY <2>1 DEF InCode, VariableTypes, Located
    <2>. QED  BY <2>1, <2>2, <2>3 DEF TypeOK
<1>. QED  BY <1>1, Invariance, PTL

\* In all the brackets of the pass, on every function, a counter has events
\* pending exactly when its range of scores is not empty: what hasPendingEvent
\* asserts holds after every update, wait, function entry and merge.
THEOREM PendingEventsMatch == Spec => []PendingMatchesRange
<1>1. IInv => PendingMatchesRange
    <2>. SUFFICES ASSUME IInv,
                         NEW B \in {ScoreBrackets} \cup {Incoming[b] : b \in DOMAIN Incoming},
                         NEW T \in InstCounterType, getWaitCountMax(ST, T) # 0
                  PROVE  (PendingOn(B, T) # {}) <=> (ScoreRange(B, T) # 0)
        BY DEF PendingMatchesRange
    <2>1. BracketOK(B, ST)
        BY DEF IInv, BracketsOK
    <2>2. B.LB[T] \in Nat /\ B.UB[T] \in Nat
        BY <2>1 DEF BracketOK, BracketsType
    <2>3. (B.LB[T] # B.UB[T]) <=> (ScoreRange(B, T) # 0)
        BY <2>2 DEF ScoreRange
    <2>. QED  BY <2>1, <2>3 DEF BracketOK
<1>. QED  BY <1>1, Invariance, PTL
=============================================================================
