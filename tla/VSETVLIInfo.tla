---------------------------- MODULE VSETVLIInfo ----------------------------
(***************************************************************************)
(* The class VSETVLIInfo of RISCVInsertVSETVLI.cpp, the abstract value of  *)
(* the registers VL and VTYPE, with DemandedFields, the parts of them that *)
(* an instruction depends on.                                              *)
(*                                                                         *)
(* SEW and LMUL are powers of two and written by their exponents: SEW 2^5  *)
(* and LMUL 2^-1 have the ratio 2^6.                                       *)
(***************************************************************************)
EXTENDS Integers, FiniteSets, Sequences

VType == [sew: 3..6, lmul: -3..3, ta: BOOLEAN, ma: BOOLEAN]

getSEWLMULRatio(vt) == vt.sew - vt.lmul

\* LMUL that has with sew the ratio of vt, if there is such an LMUL.
getSameRatioLMUL(vt, sew) == {l \in -3..3 : sew - l = getSEWLMULRatio(vt)}

isLMUL1OrSmaller(lmul) == lmul <= 0

-----------------------------------------------------------------------------
(* AVL.  A value, VNInfo, is a register with the place of its definition,   *)
(* <<b, 0>> for the join at the start of block b, whether that is a load of *)
(* a non-zero immediate, and whether a copy of it is meant, made where it   *)
(* is defined.  Without LiveIntervals there is no place.                    *)

NoPlace == <<0, 0>>
NoValue == [reg |-> "none", def |-> NoPlace, nonZero |-> FALSE, copy |-> FALSE]

AVLImm(n) == [kind |-> "imm", n |-> n, vn |-> NoValue]
AVLReg(vn) == [kind |-> "reg", n |-> 0, vn |-> vn]
AVLVLMAX == [kind |-> "vlmax", n |-> 0, vn |-> NoValue]
NoAVL == [kind |-> "none", n |-> 0, vn |-> NoValue]

\* State is Uninitialized, Unknown, or one that has an AVL, which it is
\* the kind of.
Info(avl, vt) == [State |-> "AVL", avl |-> avl, vt |-> vt, SEWLMULRatioOnly |-> FALSE]
NoVType == [sew |-> 3, lmul |-> 0, ta |-> FALSE, ma |-> FALSE]
Uninitialized == [Info(NoAVL, NoVType) EXCEPT !.State = "Uninitialized"]
Unknown == [Info(NoAVL, NoVType) EXCEPT !.State = "Unknown"]

isValid(A) == A.State # "Uninitialized"
isUnknown(A) == A.State = "Unknown"
isKnown(A) == isValid(A) /\ ~isUnknown(A)

hasSameVLMAX(A, B) == getSEWLMULRatio(A.vt) = getSEWLMULRatio(B.vt)

hasNonZeroAVL(A) ==
    isKnown(A) /\ CASE A.avl.kind = "imm" -> A.avl.n > 0
                    [] A.avl.kind = "reg" -> A.avl.vn.nonZero
                    [] A.avl.kind = "vlmax" -> TRUE

hasSameAVLLatticeValue(A, B) ==
    /\ isKnown(A) /\ isKnown(B)
    /\ A.avl.kind = B.avl.kind
    /\ CASE A.avl.kind = "reg" ->
              \A part \in {"reg", "def", "copy"} : A.avl.vn[part] = B.avl.vn[part]
         [] A.avl.kind = "imm" -> A.avl.n = B.avl.n
         [] A.avl.kind = "vlmax" -> hasSameVLMAX(A, B)

\* Mutant: a register is taken for the value in it, with LiveIntervals or without.
hasSameAVL_AnyValue(A, B) ==
    \/ hasSameAVLLatticeValue(A, B)
    \/ /\ A.avl.kind = "reg" /\ B.avl.kind = "reg" /\ A.avl.vn.reg = B.avl.vn.reg

\* Without LiveIntervals no two registers are known to hold the same AVL.
hasSameAVL(A, B) ==
    /\ A.avl.kind = "reg" /\ B.avl.kind = "reg" => A.avl.vn.def # NoPlace
    /\ hasSameAVLLatticeValue(A, B)

hasEquallyZeroAVL(A, B) == hasSameAVL(A, B) \/ (hasNonZeroAVL(A) /\ hasNonZeroAVL(B))

\* Mutant: nothing equals Unknown.
SameInfo_UnknownNever(A, B) ==
    \/ ~isValid(A) /\ ~isValid(B)
    \/ /\ hasSameAVLLatticeValue(A, B)
       /\ A.SEWLMULRatioOnly = B.SEWLMULRatioOnly
       /\ IF A.SEWLMULRatioOnly THEN hasSameVLMAX(A, B) ELSE A.vt = B.vt

\* operator==
SameInfo(A, B) ==
    \/ ~isValid(A) /\ ~isValid(B)
    \/ isUnknown(A) /\ isUnknown(B)
    \/ /\ hasSameAVLLatticeValue(A, B)
       /\ A.SEWLMULRatioOnly = B.SEWLMULRatioOnly
       /\ IF A.SEWLMULRatioOnly THEN hasSameVLMAX(A, B) ELSE A.vt = B.vt

\* Mutant: states of the same VL are joined with the type of the first.
intersect_KeepsType(A, B) ==
    CASE ~isValid(B) -> A
      [] isValid(B) /\ ~isValid(A) -> B
      [] isValid(B) /\ isValid(A) -> IF hasSameAVL(A, B) /\ hasSameVLMAX(A, B) THEN A ELSE Unknown

\* What is known where paths with A and B meet.
intersect(A, B) ==
    CASE ~isValid(B) -> A
      [] isValid(B) /\ ~isValid(A) -> B
      [] isValid(B) /\ isValid(A) ->
            IF SameInfo(A, B) THEN A
            ELSE IF hasSameAVL(A, B) /\ hasSameVLMAX(A, B)
            THEN [A EXCEPT !.SEWLMULRatioOnly = TRUE]
            ELSE Unknown

-----------------------------------------------------------------------------
SEWEqual == 3
SEWGreaterThanOrEqual == 2
SEWGreaterThanOrEqualAndLessThan64 == 1
SEWNone == 0
LMULEqual == 2
LMULLessThanOrEqualToM1 == 1
LMULNone == 0

DemandedFields ==
    [VLAny: BOOLEAN, VLZeroness: BOOLEAN, SEW: 0..3, LMUL: 0..2,
     SEWLMULRatio: BOOLEAN, TailPolicy: BOOLEAN, MaskPolicy: BOOLEAN]

NothingDemanded ==
    [VLAny |-> FALSE, VLZeroness |-> FALSE, SEW |-> SEWNone, LMUL |-> LMULNone,
     SEWLMULRatio |-> FALSE, TailPolicy |-> FALSE, MaskPolicy |-> FALSE]

demandVL(D) == [D EXCEPT !.VLAny = TRUE, !.VLZeroness = TRUE]

demandVTYPE(D) == [D EXCEPT !.SEW = SEWEqual, !.LMUL = LMULEqual, !.SEWLMULRatio = TRUE,
                            !.TailPolicy = TRUE, !.MaskPolicy = TRUE]

All == demandVL(demandVTYPE(NothingDemanded))

Greater(a, b) == IF a >= b THEN a ELSE b

doUnion(D, E) ==
    [VLAny |-> D.VLAny \/ E.VLAny, VLZeroness |-> D.VLZeroness \/ E.VLZeroness,
     SEW |-> Greater(D.SEW, E.SEW), LMUL |-> Greater(D.LMUL, E.LMUL),
     SEWLMULRatio |-> D.SEWLMULRatio \/ E.SEWLMULRatio,
     TailPolicy |-> D.TailPolicy \/ E.TailPolicy, MaskPolicy |-> D.MaskPolicy \/ E.MaskPolicy]

\* An instruction that depends on Used cannot tell the type New from Cur.
areCompatibleVTYPEs(Cur, New, Used) ==
    /\ Used.SEW = SEWEqual => Cur.sew = New.sew
    /\ Used.SEW = SEWGreaterThanOrEqual => New.sew >= Cur.sew
    /\ Used.SEW = SEWGreaterThanOrEqualAndLessThan64 => New.sew >= Cur.sew /\ New.sew < 6
    /\ Used.LMUL = LMULEqual => Cur.lmul = New.lmul
    /\ Used.LMUL = LMULLessThanOrEqualToM1 => isLMUL1OrSmaller(New.lmul)
    /\ Used.SEWLMULRatio => getSEWLMULRatio(Cur) = getSEWLMULRatio(New)
    /\ Used.TailPolicy => Cur.ta = New.ta
    /\ Used.MaskPolicy => Cur.ma = New.ma

\* A state A serves for what Require asks, of which Used matters.
isCompatible(A, Used, Require) ==
    /\ isKnown(A) /\ isKnown(Require)
    /\ ~A.SEWLMULRatioOnly /\ ~Require.SEWLMULRatioOnly
    /\ Used.VLAny => hasSameAVL(A, Require) /\ hasSameVLMAX(A, Require)
    /\ Used.VLZeroness => hasEquallyZeroAVL(A, Require)
    /\ areCompatibleVTYPEs(Require.vt, A.vt, Used)

\* A type that need not change for the ratio that is kept takes the LMUL that
\* keeps it.
adjustIncoming(Prev, New, Demanded) ==
    IF Demanded.LMUL = LMULNone /\ ~Demanded.SEWLMULRatio /\ isKnown(Prev)
       /\ getSameRatioLMUL(Prev.vt, New.vt.sew) # {}
    THEN [New EXCEPT !.vt.lmul = CHOOSE l \in getSameRatioLMUL(Prev.vt, New.vt.sew) : TRUE]
    ELSE New

\* It demands LMUL then, whether or not there is one.
adjustedDemand(Prev, Demanded) ==
    IF Demanded.LMUL = LMULNone /\ ~Demanded.SEWLMULRatio /\ isKnown(Prev)
    THEN [Demanded EXCEPT !.LMUL = LMULEqual] ELSE Demanded

\* The minimal change of A for an instruction that asks for New, where what it
\* depends on is Used.
changedFor(A, New, Used) ==
    LET Base == IF isKnown(A) THEN A ELSE New
        Incoming == adjustIncoming(A, New, Used)
        Demanded == adjustedDemand(A, Used)
        EquallyZero == hasEquallyZeroAVL(Incoming, A) /\ hasSameVLMAX(Incoming, A)
        avl == IF Demanded.VLAny \/ (Demanded.VLZeroness /\ ~EquallyZero)
               THEN Incoming.avl ELSE Base.avl
        vt == [lmul |-> IF Demanded.LMUL # LMULNone \/ Demanded.SEWLMULRatio
                        THEN Incoming.vt.lmul ELSE Base.vt.lmul,
               sew  |-> IF Demanded.SEW # SEWNone \/ Demanded.SEWLMULRatio
                        THEN Incoming.vt.sew ELSE Base.vt.sew,
               ta   |-> Incoming.vt.ta \/ (~Demanded.TailPolicy /\ Base.vt.ta),
               ma   |-> Incoming.vt.ma \/ (~Demanded.MaskPolicy /\ Base.vt.ma)]
    IN  Info(avl, IF Base.SEWLMULRatioOnly THEN Incoming.vt ELSE vt)
=============================================================================
