-------------------------- MODULE WaitcntBrackets --------------------------
(***************************************************************************)
(* The class WaitcntBrackets of SIInsertWaitcnts.cpp: what the pass knows, *)
(* at a place of the code, of the memory operations that may be pending.   *)
(*                                                                         *)
(* For each hardware counter the operations have scores, in issue order;   *)
(* those above LB and up to UB may be pending.  Each register has, for     *)
(* each counter, the score of the last operation that writes it or holds   *)
(* on to it.  The brackets of the paths that join are merged.              *)
(***************************************************************************)
EXTENDS Integers, FiniteSets, Sequences

CONSTANTS
    Vgprs, Sgprs,    \* the registers
    WaitCountMax,    \* Limits: what each counter counts up to
    DmaSlots,        \* NUM_EXTRA_VGPRS - 1: stores to LDS told apart
    Generations      \* the GPU generations compiled for, a set of numbers

InstCounterType == {"LOAD_CNT", "DS_CNT", "EXP_CNT", "STORE_CNT",
                    "SAMPLE_CNT", "BVH_CNT", "KM_CNT"}

WaitEventType == {"VMEM_ACCESS", "VMEM_READ_ACCESS", "VMEM_SAMPLER_READ_ACCESS",
                  "VMEM_BVH_READ_ACCESS", "VMEM_WRITE_ACCESS", "SCRATCH_WRITE_ACCESS",
                  "LDS_ACCESS", "GDS_ACCESS", "SQ_MESSAGE", "SMEM_ACCESS",
                  "EXP_GPR_LOCK", "GDS_GPR_LOCK", "EXP_POS_ACCESS", "EXP_PARAM_ACCESS",
                  "VMW_GPR_LOCK", "EXP_LDS_ACCESS"}

VmemType == {"VMEM_NOSAMPLER", "VMEM_SAMPLER", "VMEM_BVH"}

ASSUME LimitsAssumption == WaitCountMax \in [InstCounterType -> Nat \ {0}]
ASSUME GenerationsAssumption == Generations \subseteq Nat
ASSUME SlotsAssumption == DmaSlots \in Nat
ASSUME RegistersAssumption == Vgprs \cap Sgprs = {}

\* The slots of the score tables: the registers, one slot for LDS as a whole,
\* 0, and one for each store to LDS told apart.
LdsSlots == 0..DmaSlots
Slots == Vgprs \cup Sgprs \cup LdsSlots

\* ~0u: above every score.
NoWait == 2147483647

-----------------------------------------------------------------------------
\* The features of the generation ST.
hasExtendedWaitCounts(ST) == ST >= 12
hasVscnt(ST) == ST >= 10
hasFlatLgkmVMemCountInOrder(ST) == ST > 9
hasVmemWriteVgprInOrder(ST) == ST <= 11
vmemWriteNeedsExpWaitcnt(ST) == ST < 7

ExpEvents == {"EXP_GPR_LOCK", "GDS_GPR_LOCK", "VMW_GPR_LOCK", "EXP_PARAM_ACCESS",
              "EXP_POS_ACCESS", "EXP_LDS_ACCESS"}

WaitEventMaskForInstPreGFX12 ==
    [LOAD_CNT   |-> {"VMEM_ACCESS", "VMEM_READ_ACCESS", "VMEM_SAMPLER_READ_ACCESS",
                     "VMEM_BVH_READ_ACCESS"},
     DS_CNT     |-> {"SMEM_ACCESS", "LDS_ACCESS", "GDS_ACCESS", "SQ_MESSAGE"},
     EXP_CNT    |-> ExpEvents,
     STORE_CNT  |-> {"VMEM_WRITE_ACCESS", "SCRATCH_WRITE_ACCESS"},
     SAMPLE_CNT |-> {}, BVH_CNT |-> {}, KM_CNT |-> {}]

WaitEventMaskForInstGFX12Plus ==
    [LOAD_CNT   |-> {"VMEM_ACCESS", "VMEM_READ_ACCESS"},
     DS_CNT     |-> {"LDS_ACCESS", "GDS_ACCESS"},
     EXP_CNT    |-> ExpEvents,
     STORE_CNT  |-> {"VMEM_WRITE_ACCESS", "SCRATCH_WRITE_ACCESS"},
     SAMPLE_CNT |-> {"VMEM_SAMPLER_READ_ACCESS"},
     BVH_CNT    |-> {"VMEM_BVH_READ_ACCESS"},
     KM_CNT     |-> {"SMEM_ACCESS", "SQ_MESSAGE"}]

WaitEventMask(ST) == IF hasExtendedWaitCounts(ST) THEN WaitEventMaskForInstGFX12Plus
                     ELSE WaitEventMaskForInstPreGFX12

eventCounter(ST, E) == CHOOSE T \in InstCounterType : E \in WaitEventMask(ST)[T]

\* Targets without a counter for stores have none to wait for.
getWaitCountMax(ST, T) == IF T = "STORE_CNT" /\ ~hasVscnt(ST) THEN 0 ELSE WaitCountMax[T]

SmemAccessCounter(ST) == IF hasExtendedWaitCounts(ST) THEN "KM_CNT" ELSE "DS_CNT"

-----------------------------------------------------------------------------
\* Nothing pending.
NewBrackets(st) ==
    [ST |-> st,
     LB |-> [T \in InstCounterType |-> 0],
     UB |-> [T \in InstCounterType |-> 0],
     PendingEvents |-> {},
     LastFlat |-> [T \in InstCounterType |-> 0],
     Score |-> [T \in InstCounterType |-> [r \in Slots |-> 0]],
     VmemTypes |-> [v \in Vgprs |-> {}],
     LDSDMAStores |-> <<>>]

ScoreRange(B, T) == B.UB[T] - B.LB[T]

InBracket(B, T, score) == B.LB[T] < score /\ score <= B.UB[T]

\* hasPendingEvent(InstCounterType)
PendingOn(B, T) == B.PendingEvents \cap WaitEventMask(B.ST)[T]

hasPendingEvent(B, E) == E \in B.PendingEvents

hasMixedPendingEvents(B, T) == Cardinality(PendingOn(B, T)) > 1

hasPendingFlat(B) ==
    \E T \in {"DS_CNT", "LOAD_CNT"} : InBracket(B, T, B.LastFlat[T])

setPendingFlat(B) == [B EXCEPT !.LastFlat["LOAD_CNT"] = B.UB["LOAD_CNT"],
                               !.LastFlat["DS_CNT"] = B.UB["DS_CNT"]]

hasOtherPendingVmemTypes(B, v, type) == B.VmemTypes[v] \ {type} # {}

clearVgprVmemTypes(B, regs) ==
    [B EXCEPT !.VmemTypes = [v \in Vgprs |-> IF v \in regs THEN {} ELSE @[v]]]

\* Mutant: scalar reads are taken to complete in order.
counterOutOfOrder_MixedOnly(B, T) == hasMixedPendingEvents(B, T)

\* Where several types of event are pending on a counter, it may be
\* decremented out of order; scalar reads always may.
counterOutOfOrder(B, T) ==
    \/ T = SmemAccessCounter(B.ST) /\ hasPendingEvent(B, "SMEM_ACCESS")
    \/ hasMixedPendingEvents(B, T)

\* Mutant: the lower bound follows the upper one at once.
setScoreUB_Always(B, T, val) ==
    [B EXCEPT !.UB[T] = val, !.LB[T] = IF T = "EXP_CNT" THEN val - WaitCountMax[T] ELSE @]

\* The hardware has no more than WaitCountMax exports in flight.
setScoreUB(B, T, val) ==
    [B EXCEPT !.UB[T] = val,
              !.LB[T] = IF T = "EXP_CNT" /\ val - @ > WaitCountMax[T]
                        THEN val - WaitCountMax[T] ELSE @]

\* Stores of the caller or of a callee may be pending.
setStateOnFunctionEntryOrReturn(B) ==
    [setScoreUB(B, "STORE_CNT", B.UB["STORE_CNT"] + getWaitCountMax(B.ST, "STORE_CNT"))
        EXCEPT !.PendingEvents = @ \cup WaitEventMask(B.ST)["STORE_CNT"]]

\* The event E of an instruction that marks the slots with its score, and,
\* when it is a vector-memory read of the type vmem, the registers with that.
updateByEvent(B, E, marks, vmem) ==
    LET T == eventCounter(B.ST, E)
        CurrScore == B.UB[T] + 1
    IN  [setScoreUB(B, T, CurrScore) EXCEPT
            !.PendingEvents = @ \cup {E},
            !.Score[T] = [r \in Slots |-> IF r \in marks THEN CurrScore ELSE @[r]],
            !.VmemTypes = [v \in Vgprs |-> IF v \in marks THEN @[v] \cup vmem ELSE @[v]]]

\* The slot of a store to the LDS object obj, by DMA or by a DS instruction:
\* that of an earlier store to it, a new one, or the general one when all are
\* taken.
dmaSlot(B, obj) ==
    IF \E k \in 1..Len(B.LDSDMAStores) : B.LDSDMAStores[k] = obj
    THEN CHOOSE k \in 1..Len(B.LDSDMAStores) : B.LDSDMAStores[k] = obj
    ELSE IF Len(B.LDSDMAStores) = DmaSlots THEN 0 ELSE Len(B.LDSDMAStores) + 1

recordDmaStore(B, obj) ==
    [B EXCEPT !.LDSDMAStores = IF dmaSlot(B, obj) = Len(@) + 1 THEN Append(@, obj) ELSE @]

\* Mutant: the general slot is not looked at for an object without its own.
dmaSlotsOf_OwnOnly(B, objs) ==
    {k \in 1..Len(B.LDSDMAStores) : B.LDSDMAStores[k] \in objs}

\* The slots to look at before an access to the LDS objects objs.
dmaSlotsOf(B, objs) ==
    LET aliasing == {k \in 1..Len(B.LDSDMAStores) : B.LDSDMAStores[k] \in objs}
    IN  IF aliasing = {} THEN {0} ELSE aliasing

-----------------------------------------------------------------------------
Least(a, b) == IF a <= b THEN a ELSE b
Greatest(a, b) == IF a >= b THEN a ELSE b

\* The wait of determineWait for slot r on counter T.
determineWait(B, T, r) ==
    LET ScoreToWait == B.Score[T][r]
        earlyFlat == /\ T \in {"LOAD_CNT", "DS_CNT"} /\ hasPendingFlat(B)
                     /\ ~hasFlatLgkmVMemCountInOrder(B.ST)
    IN  IF ~InBracket(B, T, ScoreToWait) THEN NoWait
        ELSE IF earlyFlat \/ counterOutOfOrder(B, T) THEN 0
        ELSE Least(B.UB[T] - ScoreToWait, getWaitCountMax(B.ST, T) - 1)

\* A wait is redundant when no more operations are pending.
simplifyWaitcnt(B, Wait) ==
    [T \in InstCounterType |-> IF Wait[T] >= ScoreRange(B, T) THEN NoWait ELSE Wait[T]]

combined(Wait, Other) == [T \in InstCounterType |-> Least(Wait[T], Other[T])]

\* applyWaitcnt for one counter, and for all.
appliedLB(B, T, Count) ==
    IF Count >= B.UB[T] \/ (Count # 0 /\ counterOutOfOrder(B, T))
    THEN B.LB[T] ELSE Greatest(B.LB[T], B.UB[T] - Count)

\* Mutant: the events that a wait for zero has completed stay pending.
applyWaitcnt_KeepsEvents(B, Wait) ==
    [B EXCEPT !.LB = [T \in InstCounterType |-> appliedLB(B, T, Wait[T])]]

applyWaitcnt(B, Wait) ==
    [B EXCEPT !.LB = [T \in InstCounterType |-> appliedLB(B, T, Wait[T])],
              !.PendingEvents =
                  {E \in @ : Wait[eventCounter(B.ST, E)] # 0}]

-----------------------------------------------------------------------------
\* The upper bound of the merged brackets.
mergedUB(B, Other, T) ==
    B.LB[T] + Greatest(ScoreRange(B, T), ScoreRange(Other, T))

\* Mutant: a score is not aligned.
shifted_Unaligned(B, T, score, NewUB) == IF score <= B.LB[T] THEN 0 ELSE score

\* A score of B, aligned with the merged upper bound.
shifted(B, T, score, NewUB) == IF score <= B.LB[T] THEN 0 ELSE score + NewUB - B.UB[T]

mergeScore(B, Other, T, score, other) ==
    LET NewUB == mergedUB(B, Other, T)
    IN  Greatest(shifted(B, T, score, NewUB), shifted(Other, T, other, NewUB))

merge(B, Other) ==
    [B EXCEPT
        !.UB = [T \in InstCounterType |-> mergedUB(B, Other, T)],
        !.PendingEvents = @ \cup Other.PendingEvents,
        !.LastFlat = [T \in InstCounterType |->
                         mergeScore(B, Other, T, @[T], Other.LastFlat[T])],
        !.Score = [T \in InstCounterType |-> [r \in Slots |->
                      mergeScore(B, Other, T, @[T][r], Other.Score[T][r])]],
        !.VmemTypes = [v \in Vgprs |-> @[v] \cup Other.VmemTypes[v]]]

\* Mutant: brackets that ask for the same waits count as tighter.
StrictDom_NotStrict(B, Other) == Other.PendingEvents \subseteq B.PendingEvents

\* The result of merge: whether Other asks for tighter waits than B.
StrictDom(B, Other) ==
    LET tighter(T, score, other) ==
            LET NewUB == mergedUB(B, Other, T)
            IN  shifted(Other, T, other, NewUB) > shifted(B, T, score, NewUB)
    IN  \/ ~(Other.PendingEvents \subseteq B.PendingEvents)
        \/ \E T \in InstCounterType :
              \/ tighter(T, B.LastFlat[T], Other.LastFlat[T])
              \/ \E r \in Slots : tighter(T, B.Score[T][r], Other.Score[T][r])
        \/ \E v \in Vgprs : ~(Other.VmemTypes[v] \subseteq B.VmemTypes[v])
=============================================================================
