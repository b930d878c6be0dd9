------------------------- MODULE RISCVInsertVSETVLIProofs -------------------------
(***************************************************************************)
(* Proofs about RISCVInsertVSETVLI, in three parts.                        *)
(*                                                                         *)
(* What VSETVLIInfo promises to the data flow that uses it: where paths    *)
(* meet, the joined state covers what is known on each; a state that is    *)
(* joined to again only changes upwards, a bounded number of times; and    *)
(* the state before an instruction serves the instruction.                 *)
(*                                                                         *)
(* What the data flow makes of it, on any function: FlowInv is inductive.  *)
(* While the worklist is worked off, each block is in it or its start is   *)
(* solved, and the end of each block is what its code makes of its start;  *)
(* doPRE, which changes ends of blocks, leaves every start solved; and no  *)
(* step of the worklist leaves the variant as it was.                      *)
(*                                                                         *)
(* What the hart finds in VTYPE, on any path through any function: the     *)
(* types a block may be entered with lead, place by place, to those known  *)
(* at its end (Leads), in the code that emitVSETVLIs makes (EmittedLeads), *)
(* in what coalesceVSETVLIs leaves of it (CoalescedLeads), and without its *)
(* dead immediates (ThinnedPlaced).  CodeInv says so of the code in every  *)
(* phase of the pass, and HartInv that the hart is on such a way.          *)
(***************************************************************************)
EXTENDS RISCVInsertVSETVLI, FiniteSetTheorems, WellFoundedInduction, TLAPS

\* The states the pass computes: each with an AVL has one of the three kinds.
IsInfo(A) ==
    /\ A = [State |-> A.State, avl |-> A.avl, vt |-> A.vt, SEWLMULRatioOnly |-> A.SEWLMULRatioOnly]
    /\ A.State \in {"Uninitialized", "Unknown", "AVL"}
    /\ A.State = "AVL" => A.avl.kind \in {"imm", "reg", "vlmax"}
    /\ A.avl.n \in Nat /\ A.avl.vn.nonZero \in BOOLEAN
    /\ A.vt \in VType /\ A.SEWLMULRatioOnly \in BOOLEAN

\* What is known of VL and VTYPE where C holds is enough for A to hold.
Covers(A, C) ==
    \/ ~isValid(C) \/ isUnknown(A)
    \/ /\ hasSameAVLLatticeValue(A, C) /\ hasSameVLMAX(A, C)
       /\ A.SEWLMULRatioOnly \/ (~C.SEWLMULRatioOnly /\ A.vt = C.vt)

\* How little is known.
Rank(A) == IF ~isValid(A) THEN 0
           ELSE IF isUnknown(A) THEN 3
           ELSE IF A.SEWLMULRatioOnly THEN 2 ELSE 1

\* The type vt is the one asked for in the fields that matter, or as good.
MeetsVTYPE(vt, New, Used) ==
    /\ Used.SEW = SEWEqual => vt.sew = New.sew
    /\ Used.SEW = SEWGreaterThanOrEqual => vt.sew >= New.sew
    /\ Used.SEW = SEWGreaterThanOrEqualAndLessThan64 =>
          vt.sew = New.sew \/ (vt.sew > New.sew /\ vt.sew < 6)
    /\ Used.LMUL = LMULEqual => vt.lmul = New.lmul
    /\ Used.LMUL = LMULLessThanOrEqualToM1 => vt.lmul = New.lmul \/ isLMUL1OrSmaller(vt.lmul)
    /\ Used.SEWLMULRatio => getSEWLMULRatio(vt) = getSEWLMULRatio(New)
    /\ Used.TailPolicy => vt.ta = New.ta
    /\ Used.MaskPolicy => vt.ma = New.ma

\* State A serves an instruction that asks for New and depends on Used.
Serves(A, Used, New) ==
    /\ isKnown(A) /\ ~A.SEWLMULRatioOnly
    /\ Used.VLAny => hasSameAVL(A, New) /\ hasSameVLMAX(A, New)
    /\ Used.VLZeroness => hasEquallyZeroAVL(A, New)
    /\ MeetsVTYPE(A.vt, New.vt, Used)

-----------------------------------------------------------------------------
(* Joins.                                                                   *)

\* A state is the same as itself, and has the VL of itself.
LEMMA SameReflexive ==
    ASSUME NEW A, IsInfo(A)
    PROVE  /\ isKnown(A) => hasSameAVLLatticeValue(A, A)
           /\ SameInfo(A, A)
<1>1. ASSUME isKnown(A) PROVE hasSameAVLLatticeValue(A, A)
    BY <1>1, Zenon DEF IsInfo, isKnown, isValid, isUnknown, hasSameAVLLatticeValue, hasSameVLMAX
<1>2. CASE isKnown(A)
    BY <1>1, <1>2 DEF SameInfo, hasSameVLMAX
<1>3. CASE ~isKnown(A)
    BY <1>3 DEF SameInfo, isKnown
<1>. QED  BY <1>1, <1>2, <1>3

\* Where paths with A and B meet, the joined state covers both: nothing is
\* taken for known there that is not known on either path.  (intersect and
\* operator== of VSETVLIInfo.)
THEOREM JoinCovers ==
    ASSUME NEW A, NEW B, IsInfo(A), IsInfo(B)
    PROVE  Covers(intersect(A, B), A) /\ Covers(intersect(A, B), B)
<1>1. ASSUME NEW C, IsInfo(C) PROVE Covers(C, C)
    <2>1. CASE isKnown(C)
        BY <1>1, <2>1, SameReflexive DEF Covers, hasSameVLMAX, IsInfo
    <2>2. CASE ~isKnown(C)
        BY <2>2 DEF Covers, isKnown
    <2>. QED  BY <2>1, <2>2
<1>2. CASE ~isValid(A) \/ ~isValid(B)
    BY <1>1, <1>2 DEF intersect, Covers
<1>3. CASE isValid(A) /\ isValid(B) /\ SameInfo(A, B)
    <2>1. intersect(A, B) = A
        BY <1>3 DEF intersect
    <2>2. CASE isUnknown(A) /\ isUnknown(B)
        BY <2>1, <2>2 DEF Covers
    <2>3. CASE /\ hasSameAVLLatticeValue(A, B)
               /\ A.SEWLMULRatioOnly = B.SEWLMULRatioOnly
               /\ IF A.SEWLMULRatioOnly THEN hasSameVLMAX(A, B) ELSE A.vt = B.vt
        BY <1>1, <2>1, <2>3, Zenon DEF Covers, hasSameVLMAX, IsInfo
    <2>. QED  BY <1>1, <1>3, <2>1, <2>2, <2>3 DEF SameInfo
<1>4. CASE isValid(A) /\ isValid(B) /\ ~SameInfo(A, B) /\ hasSameAVL(A, B) /\ hasSameVLMAX(A, B)
    <2>. DEFINE J == [A EXCEPT !.SEWLMULRatioOnly = TRUE]
    <2>1. intersect(A, B) = J
        BY <1>4 DEF intersect
    <2>2. J.State = A.State /\ J.avl = A.avl /\ J.vt = A.vt /\ J.SEWLMULRatioOnly
        BY DEF IsInfo
    <2>3. isKnown(A) /\ isKnown(B) /\ hasSameAVLLatticeValue(A, B)
        BY <1>4 DEF hasSameAVL, hasSameAVLLatticeValue
    <2>4. \A C \in {A, B} : hasSameAVLLatticeValue(A, C) /\ hasSameVLMAX(A, C)
        BY <1>4, <2>3, SameReflexive DEF hasSameVLMAX
    <2>5. \A C \in {A, B} : hasSameAVLLatticeValue(J, C) /\ hasSameVLMAX(J, C)
        BY <2>2, <2>4, Zenon DEF hasSameAVLLatticeValue, hasSameVLMAX, isKnown, isValid, isUnknown
    <2>. QED  BY <2>1, <2>2, <2>5 DEF Covers
<1>5. CASE /\ isValid(A) /\ isValid(B) /\ ~SameInfo(A, B)
           /\ ~(hasSameAVL(A, B) /\ hasSameVLMAX(A, B))
    BY <1>5 DEF intersect, Covers, Unknown, isUnknown
<1>. QED  BY <1>2, <1>3, <1>4, <1>5

\* A state that another is joined to stays as it is or goes up: as there are
\* three ranks, the state at the start of a block changes three times at most,
\* whatever the exits of its predecessors do, and the worklist drains.
\* (computeIncomingVLVTYPE.)
THEOREM JoinAscends ==
    ASSUME NEW A, NEW B, IsInfo(A), IsInfo(B)
    PROVE  SameInfo(intersect(A, B), A) \/ Rank(intersect(A, B)) > Rank(A)
<1>1. CASE ~isValid(A) /\ ~isValid(B)
    BY <1>1, SameReflexive DEF intersect
<1>2. CASE ~isValid(A) /\ isValid(B)
    BY <1>2 DEF intersect, Rank
<1>3. CASE isValid(A) /\ (~isValid(B) \/ SameInfo(A, B))
    <2>1. intersect(A, B) = A
        BY <1>3 DEF intersect
    <2>. QED  BY <2>1, SameReflexive
<1>4. CASE isValid(A) /\ isValid(B) /\ ~SameInfo(A, B) /\ hasSameAVL(A, B) /\ hasSameVLMAX(A, B)
    <2>. DEFINE J == [A EXCEPT !.SEWLMULRatioOnly = TRUE]
    <2>1. intersect(A, B) = J
        BY <1>4 DEF intersect
    <2>2. J.State = A.State /\ J.avl = A.avl /\ J.vt = A.vt /\ J.SEWLMULRatioOnly
        BY DEF IsInfo
    <2>3. CASE A.SEWLMULRatioOnly
        <3>1. J = A
            BY <2>3 DEF IsInfo
        <3>. QED  BY <2>1, <3>1, SameReflexive
    <2>4. CASE ~A.SEWLMULRatioOnly
        <3>1. isKnown(A)
            BY <1>4 DEF hasSameAVL, hasSameAVLLatticeValue
        <3>. QED  BY <2>1, <2>2, <2>4, <3>1 DEF Rank, isKnown, isValid, isUnknown
    <2>. QED  BY <2>3, <2>4
<1>5. CASE /\ isValid(A) /\ isValid(B) /\ ~SameInfo(A, B)
           /\ ~(hasSameAVL(A, B) /\ hasSameVLMAX(A, B))
    <2>1. intersect(A, B) = Unknown /\ Rank(Unknown) = 3
        BY <1>5 DEF intersect, Rank, Unknown, isValid, isUnknown
    <2>2. CASE isUnknown(A)
        BY <2>1, <2>2 DEF SameInfo, Unknown, isUnknown
    <2>3. CASE ~isUnknown(A)
        BY <2>1, <2>3 DEF Rank
    <2>. QED  BY <2>2, <2>3
<1>. QED  BY <1>1, <1>2, <1>3, <1>4, <1>5

-----------------------------------------------------------------------------
(* Transfers.                                                               *)

LEMMA CompatibleMeets ==
    ASSUME NEW vt \in VType, NEW New \in VType, NEW Used \in DemandedFields,
           areCompatibleVTYPEs(New, vt, Used)
    PROVE  MeetsVTYPE(vt, New, Used)
BY DEF areCompatibleVTYPEs, MeetsVTYPE, VType, DemandedFields, SEWEqual,
       SEWGreaterThanOrEqual, SEWGreaterThanOrEqualAndLessThan64, LMULEqual,
       LMULLessThanOrEqualToM1, getSEWLMULRatio, isLMUL1OrSmaller

\* A state compatible with what an instruction asks for serves it.
LEMMA CompatibleServes ==
    ASSUME NEW A, NEW New, NEW Used \in DemandedFields,
           A.vt \in VType, New.vt \in VType, isCompatible(A, Used, New)
    PROVE  Serves(A, Used, New)
BY CompatibleMeets, Zenon DEF isCompatible, Serves

\* Known states whose AVLs are equal have the same VL, with VLMAX if that is it.
LEMMA EqualAVLs ==
    ASSUME NEW X, NEW Y, isKnown(X), isKnown(Y), X.avl = Y.avl,
           Y.avl.kind \in {"imm", "reg", "vlmax"},
           Y.avl.kind = "vlmax" => hasSameVLMAX(X, Y)
    PROVE  hasSameAVLLatticeValue(X, Y)
BY Zenon DEF hasSameAVLLatticeValue

\* VLMAX is not zero.
LEMMA VLMAXNonZero ==
    ASSUME NEW X, isKnown(X), X.avl.kind = "vlmax"
    PROVE  hasNonZeroAVL(X)
<1>1. X.avl.kind # "imm" /\ X.avl.kind # "reg"
    OBVIOUS
<1>. QED  BY <1>1, Zenon DEF hasNonZeroAVL

\* Whether an AVL is known not to be zero depends on nothing else.
LEMMA NonZeroOfAVL ==
    ASSUME NEW X, NEW Y, isKnown(X), isKnown(Y), X.avl = Y.avl, hasNonZeroAVL(X)
    PROVE  hasNonZeroAVL(Y)
BY Zenon DEF hasNonZeroAVL

\* Neither does, VLMAX aside, whether two are the same, in either order.
LEMMA SameOfAVL ==
    ASSUME NEW X, NEW Y, NEW P, NEW Q, isKnown(P), isKnown(Q),
           P.avl = X.avl, Q.avl = Y.avl, X.avl.kind \in {"imm", "reg"},
           hasSameAVLLatticeValue(X, Y)
    PROVE  hasSameAVLLatticeValue(Q, P)
<1>1. X.avl.kind = Y.avl.kind
    BY Zenon DEF hasSameAVLLatticeValue
<1>2. CASE X.avl.kind = "reg"
    <2>1. \A part \in {"reg", "def", "copy"} : X.avl.vn[part] = Y.avl.vn[part]
        BY <1>2, Zenon DEF hasSameAVLLatticeValue
    <2>2. /\ \A part \in {"reg", "def", "copy"} : Q.avl.vn[part] = P.avl.vn[part]
          /\ Q.avl.kind = "reg" /\ P.avl.kind = "reg"
        BY <1>1, <1>2, <2>1
    <2>. QED  BY <2>2, Zenon DEF hasSameAVLLatticeValue
<1>3. CASE X.avl.kind = "imm"
    <2>1. X.avl.kind # "reg"
        BY <1>3
    <2>2. X.avl.n = Y.avl.n
        BY <1>3, <2>1, Zenon DEF hasSameAVLLatticeValue
    <2>3. Q.avl.n = P.avl.n /\ Q.avl.kind = "imm" /\ P.avl.kind = "imm" /\ Q.avl.kind # "reg"
        BY <1>1, <1>3, <2>2
    <2>. QED  BY <2>3, Zenon DEF hasSameAVLLatticeValue
<1>. QED  BY <1>2, <1>3

\* What I has of New, from which it was adjusted: all but LMUL, and LMUL if it matters.
AdjustedFrom(I, New, Used) ==
    /\ IsInfo(I) /\ I.State = New.State /\ I.avl = New.avl
    /\ I.vt.sew = New.vt.sew /\ I.vt.ta = New.vt.ta /\ I.vt.ma = New.vt.ma
    /\ Used.LMUL # LMULNone \/ Used.SEWLMULRatio => I = New

LEMMA AdjustedType ==
    ASSUME NEW A, NEW New, IsInfo(A), IsInfo(New), NEW Used
    PROVE  AdjustedFrom(adjustIncoming(A, New, Used), New, Used)
<1>. DEFINE ls == getSameRatioLMUL(A.vt, New.vt.sew)
            l == CHOOSE x \in ls : TRUE
            vt == [New.vt EXCEPT !.lmul = l]
            I == adjustIncoming(A, New, Used)
<1>1. CASE Used.LMUL = LMULNone /\ ~Used.SEWLMULRatio /\ isKnown(A) /\ ls # {}
    <2>1. l \in -3..3
        BY <1>1 DEF getSameRatioLMUL
    <2>2. I = [New EXCEPT !.vt = vt]
        BY <1>1 DEF adjustIncoming
    <2>3. /\ I.State = New.State /\ I.avl = New.avl /\ I.vt = vt
          /\ I.SEWLMULRatioOnly = New.SEWLMULRatioOnly
          /\ I = [State |-> I.State, avl |-> I.avl, vt |-> I.vt,
                  SEWLMULRatioOnly |-> I.SEWLMULRatioOnly]
        <3>. HIDE DEF vt
        <3>. QED  BY <2>2 DEF IsInfo
    <2>4. vt \in VType /\ vt.sew = New.vt.sew /\ vt.ta = New.vt.ta /\ vt.ma = New.vt.ma
        <3>. HIDE DEF l
        <3>. QED  BY <2>1 DEF IsInfo, VType
    <2>5. AdjustedFrom(I, New, Used)
        <3>. HIDE DEF vt, I
        <3>. QED  BY <1>1, <2>3, <2>4 DEF IsInfo, AdjustedFrom
    <2>. QED  BY <2>5
<1>2. CASE ~(Used.LMUL = LMULNone /\ ~Used.SEWLMULRatio /\ isKnown(A) /\ ls # {})
    <2>1. I = New
        BY <1>2 DEF adjustIncoming
    <2>. QED  BY <2>1 DEF AdjustedFrom
<1>. QED  BY <1>1, <1>2

\* The type of the change made for an instruction is as good as the one asked for.
LEMMA ChangeMeets ==
    ASSUME NEW A, NEW New, NEW Used \in DemandedFields, IsInfo(A), IsInfo(New),
           New.State = "AVL"
    PROVE  MeetsVTYPE(changedFor(A, New, Used).vt, New.vt, Used)
<1>. DEFINE Base == IF isKnown(A) THEN A ELSE New
            I == adjustIncoming(A, New, Used)
            D == adjustedDemand(A, Used)
            EquallyZero == hasEquallyZeroAVL(I, A) /\ hasSameVLMAX(I, A)
            avl == IF D.VLAny \/ (D.VLZeroness /\ ~EquallyZero) THEN I.avl ELSE Base.avl
            vt == [lmul |-> IF D.LMUL # LMULNone \/ D.SEWLMULRatio
                            THEN I.vt.lmul ELSE Base.vt.lmul,
                   sew  |-> IF D.SEW # SEWNone \/ D.SEWLMULRatio
                            THEN I.vt.sew ELSE Base.vt.sew,
                   ta   |-> I.vt.ta \/ (~D.TailPolicy /\ Base.vt.ta),
                   ma   |-> I.vt.ma \/ (~D.MaskPolicy /\ Base.vt.ma)]
            t == IF Base.SEWLMULRatioOnly THEN I.vt ELSE vt
            C == Info(avl, t)
<1>1. changedFor(A, New, Used) = C
    BY DEF changedFor
<1>2. /\ C.State = "AVL" /\ C.avl = avl /\ C.vt = t /\ C.SEWLMULRatioOnly = FALSE
    BY DEF Info
<1>3. /\ IsInfo(I) /\ I.State = "AVL" /\ I.avl = New.avl
      /\ I.vt.sew = New.vt.sew /\ I.vt.ta = New.vt.ta /\ I.vt.ma = New.vt.ma
      /\ Used.LMUL # LMULNone \/ Used.SEWLMULRatio => I = New
    <2>1. AdjustedFrom(I, New, Used)
        BY AdjustedType
    <2>. HIDE DEF I
    <2>. QED  BY <2>1 DEF AdjustedFrom
<1>4. /\ D.VLAny = Used.VLAny /\ D.VLZeroness = Used.VLZeroness /\ D.SEW = Used.SEW
      /\ D.SEWLMULRatio = Used.SEWLMULRatio /\ D.TailPolicy = Used.TailPolicy
      /\ D.MaskPolicy = Used.MaskPolicy /\ (Used.LMUL # LMULNone => D.LMUL = Used.LMUL)
    BY DEF adjustedDemand, DemandedFields
<1>. HIDE DEF I, D
<1>5. MeetsVTYPE(t, New.vt, Used)
    <2>1. Used.LMUL # LMULNone \/ Used.SEWLMULRatio => t.lmul = New.vt.lmul
        BY <1>3, <1>4
    <2>2. Used.SEW # SEWNone \/ Used.SEWLMULRatio => t.sew = New.vt.sew
        BY <1>3, <1>4
    <2>3. Used.TailPolicy => t.ta = New.vt.ta
        BY <1>3, <1>4 DEF IsInfo, VType
    <2>4. Used.MaskPolicy => t.ma = New.vt.ma
        BY <1>3, <1>4 DEF IsInfo, VType
    <2>. HIDE DEF t
    <2>5. New.vt.sew >= New.vt.sew
        BY DEF IsInfo, VType
    <2>. QED  BY <2>1, <2>2, <2>3, <2>4, <2>5
              DEF MeetsVTYPE, getSEWLMULRatio, SEWEqual, SEWGreaterThanOrEqual,
                  SEWGreaterThanOrEqualAndLessThan64, SEWNone, LMULEqual,
                  LMULLessThanOrEqualToM1, LMULNone
<1>. QED  BY <1>1, <1>2, <1>5

\* The change made for an instruction serves it, whatever the state before it.
LEMMA ChangeServes ==
    ASSUME NEW A, NEW New, NEW Used \in DemandedFields, IsInfo(A), IsInfo(New),
           New.State = "AVL", ~New.SEWLMULRatioOnly,
           New.avl.kind = "reg" => New.avl.vn.def # NoPlace,
           Used.VLAny => Used.SEWLMULRatio
    PROVE  Serves(changedFor(A, New, Used), Used, New)
<1>. DEFINE Base == IF isKnown(A) THEN A ELSE New
            I == adjustIncoming(A, New, Used)
            D == adjustedDemand(A, Used)
            EquallyZero == hasEquallyZeroAVL(I, A) /\ hasSameVLMAX(I, A)
            avl == IF D.VLAny \/ (D.VLZeroness /\ ~EquallyZero) THEN I.avl ELSE Base.avl
            vt == [lmul |-> IF D.LMUL # LMULNone \/ D.SEWLMULRatio
                            THEN I.vt.lmul ELSE Base.vt.lmul,
                   sew  |-> IF D.SEW # SEWNone \/ D.SEWLMULRatio
                            THEN I.vt.sew ELSE Base.vt.sew,
                   ta   |-> I.vt.ta \/ (~D.TailPolicy /\ Base.vt.ta),
                   ma   |-> I.vt.ma \/ (~D.MaskPolicy /\ Base.vt.ma)]
            t == IF Base.SEWLMULRatioOnly THEN I.vt ELSE vt
            C == Info(avl, t)
<1>1. changedFor(A, New, Used) = C
    BY DEF changedFor
<1>2. /\ C.State = "AVL" /\ C.avl = avl /\ C.vt = t /\ C.SEWLMULRatioOnly = FALSE
    BY DEF Info
<1>3. /\ IsInfo(I) /\ I.State = "AVL" /\ I.avl = New.avl
      /\ I.vt.sew = New.vt.sew /\ I.vt.ta = New.vt.ta /\ I.vt.ma = New.vt.ma
      /\ Used.LMUL # LMULNone \/ Used.SEWLMULRatio => I = New
    <2>1. AdjustedFrom(I, New, Used)
        BY AdjustedType
    <2>. HIDE DEF I
    <2>. QED  BY <2>1 DEF AdjustedFrom
<1>4. /\ D.VLAny = Used.VLAny /\ D.VLZeroness = Used.VLZeroness /\ D.SEW = Used.SEW
      /\ D.SEWLMULRatio = Used.SEWLMULRatio /\ D.TailPolicy = Used.TailPolicy
      /\ D.MaskPolicy = Used.MaskPolicy /\ (Used.LMUL # LMULNone => D.LMUL = Used.LMUL)
    BY DEF adjustedDemand, DemandedFields
<1>. HIDE DEF I, D
<1>5. IsInfo(Base) /\ isKnown(Base) /\ isKnown(New) /\ isKnown(C) /\ isKnown(I)
    BY <1>2, <1>3 DEF isKnown, isValid, isUnknown
<1>6. MeetsVTYPE(t, New.vt, Used)
    BY <1>1, <1>2, ChangeMeets
<1>7. EquallyZero /\ ~isKnown(A) => FALSE
    BY <1>2, Zenon DEF hasEquallyZeroAVL, hasSameAVL, hasSameAVLLatticeValue, hasNonZeroAVL
<1>8. /\ avl = New.avl \/ (avl = A.avl /\ isKnown(A))
      /\ Used.VLAny => avl = New.avl
      /\ Used.VLZeroness /\ avl # New.avl => EquallyZero
    <2>. HIDE DEF EquallyZero
    <2>. QED  BY <1>3, <1>4
<1>. HIDE DEF C, t, avl, Base
<1>9. New.avl.kind \in {"imm", "reg", "vlmax"}
    BY DEF IsInfo
<1>10. ASSUME Used.VLAny PROVE hasSameAVL(C, New) /\ hasSameVLMAX(C, New)
    <2>1. hasSameVLMAX(C, New)
        BY <1>2, <1>6, <1>10 DEF MeetsVTYPE, hasSameVLMAX
    <2>2. C.avl = New.avl
        BY <1>2, <1>8, <1>10
    <2>3. hasSameAVLLatticeValue(C, New)
        BY <1>5, <1>9, <2>1, <2>2, EqualAVLs
    <2>. QED  BY <2>1, <2>2, <2>3 DEF hasSameAVL
<1>11. ASSUME Used.VLZeroness PROVE hasEquallyZeroAVL(C, New)
    <2>1. CASE avl = New.avl
        <3>1. CASE New.avl.kind = "vlmax"
            <4>1. hasNonZeroAVL(C) /\ hasNonZeroAVL(New)
                BY <1>2, <1>5, <2>1, <3>1, VLMAXNonZero
            <4>. QED  BY <4>1 DEF hasEquallyZeroAVL
        <3>2. CASE New.avl.kind # "vlmax"
            <4>1. hasSameAVLLatticeValue(C, New)
                BY <1>2, <1>5, <1>9, <2>1, <3>2, EqualAVLs
            <4>. QED  BY <1>2, <2>1, <4>1 DEF hasSameAVL, hasEquallyZeroAVL
        <3>. QED  BY <3>1, <3>2
    <2>2. CASE avl # New.avl
        <3>1. C.avl = A.avl /\ I.avl = New.avl /\ hasEquallyZeroAVL(I, A) /\ isKnown(A)
            BY <1>2, <1>3, <1>8, <1>11, <2>2
        <3>2. CASE hasNonZeroAVL(I) /\ hasNonZeroAVL(A)
            <4>1. hasNonZeroAVL(C) /\ hasNonZeroAVL(New)
                BY <1>5, <3>1, <3>2, NonZeroOfAVL
            <4>. QED  BY <4>1 DEF hasEquallyZeroAVL
        <3>3. CASE hasSameAVL(I, A) /\ I.avl.kind # "vlmax"
            <4>1. hasSameAVLLatticeValue(I, A)
                BY <3>3 DEF hasSameAVL
            <4>2. I.avl.kind \in {"imm", "reg"}
                BY <1>9, <3>1, <3>3
            <4>3. hasSameAVLLatticeValue(C, New)
                BY <1>5, <3>1, <4>1, <4>2, SameOfAVL
            <4>4. C.avl.kind = "reg" /\ New.avl.kind = "reg" => C.avl.vn.def # NoPlace
                BY <4>3, Zenon DEF hasSameAVLLatticeValue
            <4>. QED  BY <4>3, <4>4 DEF hasSameAVL, hasEquallyZeroAVL
        <3>4. CASE hasSameAVL(I, A) /\ I.avl.kind = "vlmax"
            <4>1. I.avl.kind = A.avl.kind
                BY <3>4, Zenon DEF hasSameAVL, hasSameAVLLatticeValue
            <4>2. hasNonZeroAVL(C) /\ hasNonZeroAVL(New)
                BY <1>5, <3>1, <3>4, <4>1, VLMAXNonZero
            <4>. QED  BY <4>2 DEF hasEquallyZeroAVL
        <3>. QED  BY <3>1, <3>2, <3>3, <3>4 DEF hasEquallyZeroAVL
    <2>. QED  BY <2>1, <2>2
<1>. QED  BY <1>1, <1>2, <1>5, <1>6, <1>10, <1>11 DEF Serves

\* What transferBefore makes of state A for an instruction that asks for New.
Transferred(A, New, Used) ==
    IF isCompatible(A, Used, New) THEN A ELSE changedFor(A, New, Used)

\* "The resulting state is guaranteed to be semantically legal for MI", as the
\* comment on transferBefore says, whatever the state before: VL is the one
\* asked for, or zero if and only if that is, where no more matters, and VTYPE
\* is as good.  That VL matters only where the ratio does holds of getDemanded.
THEOREM TransferServes ==
    ASSUME NEW A, NEW New, NEW Used \in DemandedFields, IsInfo(A), IsInfo(New),
           New.State = "AVL", ~New.SEWLMULRatioOnly,
           New.avl.kind = "reg" => New.avl.vn.def # NoPlace,
           Used.VLAny => Used.SEWLMULRatio
    PROVE  Serves(Transferred(A, New, Used), Used, New)
BY CompatibleServes, ChangeServes DEF Transferred, IsInfo
-----------------------------------------------------------------------------
(* Recursion and folds.  A recursive function is a choice of a solution of  *)
(* its equation: it is shown that there is one.                             *)

\* A set of natural numbers has a least one.
LEMMA Least ==
    ASSUME NEW S \in SUBSET Nat, S # {}
    PROVE  \E x \in S : \A y \in S : x <= y
<1>1. PICK x \in S : \A y \in S : <<y, x>> \notin OpToRel(<, Nat)
    BY WFMin, NatLessThanWellFounded, Zenon
<1>2. ASSUME NEW y \in S, y < x
      PROVE  FALSE
    <2> DEFINE z == <<y, x>>
    <2>1. z \in Nat \X Nat /\ z[1] < z[2]
        BY <1>2, SMT
    <2>2. z \notin OpToRel(<, Nat)
        BY <1>1, Zenon
    <2> HIDE DEF z
    <2>. QED  BY <2>1, <2>2, Zenon DEF OpToRel
<1>3. \A y \in S : x <= y
    <2>1. S \subseteq Int
        OBVIOUS
    <2>. QED  BY <1>2, <2>1
<1>. QED  BY <1>3

\* Powers of two count sets.
LEMMA PowerNat == \A n \in Nat : 2^n \in Nat
<1>. SUFFICES ASSUME NEW n \in Nat PROVE 2^n \in Nat
    OBVIOUS
<1>1. IsFiniteSet(1..n) /\ Cardinality(1..n) = n
    BY FS_Interval
<1>2. IsFiniteSet(SUBSET (1..n)) /\ Cardinality(SUBSET (1..n)) = 2^n
    BY <1>1, FS_SUBSET
<1>. QED  BY <1>2, FS_CardinalityType

\* A non-empty finite set of numbers below n + 1 has a least and a greatest one.
LEMMA MinMax ==
    ASSUME NEW n \in Nat, NEW s \in SUBSET (1..n), s # {}
    PROVE  Min(s) \in s /\ Max(s) \in s
<1>1. \E x \in s : \A y \in s : x =< y
    <2>1. s \in SUBSET Nat
        OBVIOUS
    <2>. QED  BY <2>1, Least
<1>2. \E x \in s : \A y \in s : x >= y
    <2> DEFINE T == {n - x : x \in s}
    <2>1. T \in SUBSET Nat /\ T # {}
        <3>1. \A x \in s : n - x \in Nat
            OBVIOUS
        <3>. QED  BY <3>1
    <2>2. PICK t \in T : \A u \in T : t <= u
        <3> HIDE DEF T
        <3>. QED  BY <2>1, Least
    <2>3. PICK x \in s : t = n - x
        BY <2>2
    <2>4. \A y \in s : x >= y
        <3>1. ASSUME NEW y \in s PROVE x >= y
            <4>1. n - y \in T
                OBVIOUS
            <4>2. n - x <= n - y
                BY <2>2, <2>3, <4>1
            <4>3. x \in 1..n /\ y \in 1..n
                OBVIOUS
            <4> HIDE DEF T
            <4>. QED  BY <4>2, <4>3
        <3>. QED  BY <3>1
    <2>. QED  BY <2>4
<1>. QED  BY <1>1, <1>2 DEF Min, Max

\* What a fold of F over the set S computes for a part of S.
FoldEq(S, base, ch, F, g) ==
    \A s \in SUBSET S : g[s] = IF s = {} THEN base ELSE F[<<ch[s], g[s \ {ch[s]}]>>]

\* The equation of a fold has a solution.
LEMMA FoldSolution ==
    ASSUME NEW S, IsFiniteSet(S), NEW V, NEW base \in V,
           NEW ch, \A s \in SUBSET S : s # {} => ch[s] \in s,
           NEW F \in [S \X V -> V]
    PROVE  \E g \in [SUBSET S -> V] : FoldEq(S, base, ch, F, g)
<1> DEFINE Up(n) == {s \in SUBSET S : Cardinality(s) <= n}
           Eq(n, g) == \A s \in Up(n) :
                          g[s] = IF s = {} THEN base ELSE F[<<ch[s], g[s \ {ch[s]}]>>]
           N == {n \in Nat : ~\E g \in [Up(n) -> V] : Eq(n, g)}
<1>0. \A s \in SUBSET S : IsFiniteSet(s) /\ Cardinality(s) \in Nat
    BY FS_Subset, FS_CardinalityType
<1>1. ASSUME NEW s \in SUBSET S, s # {}
      PROVE  /\ ch[s] \in S /\ s \ {ch[s]} \in SUBSET S
             /\ Cardinality(s \ {ch[s]}) = Cardinality(s) - 1 /\ Cardinality(s) > 0
    <2>1. ch[s] \in s
        BY <1>1
    <2>2. Cardinality(s \ {ch[s]}) = Cardinality(s) - 1
        BY <1>0, <2>1, FS_RemoveElement
    <2>3. Cardinality(s) # 0
        BY <1>0, <1>1, FS_EmptySet
    <2>. QED  BY <1>0, <2>1, <2>2, <2>3
<1>2. N = {}
    <2>. SUFFICES ASSUME N # {} PROVE FALSE
        OBVIOUS
    <2>1. PICK n \in N : \A m \in N : n <= m
        <3>1. N \in SUBSET Nat
            OBVIOUS
        <3> HIDE DEF N
        <3>. QED  BY <3>1, Least
    <2>2. n \in Nat /\ ~\E g \in [Up(n) -> V] : Eq(n, g)
        BY <2>1
    <2>3. CASE n = 0
        <3>1. \A s \in Up(0) : s = {}
            <4>1. ASSUME NEW s \in Up(0), s # {} PROVE FALSE
                <5>1. s \in SUBSET S /\ Cardinality(s) <= 0
                    OBVIOUS
                <5>2. Cardinality(s) \in Nat /\ Cardinality(s) > 0
                    BY <1>0, <1>1, <4>1, <5>1
                <5>. QED  BY <5>1, <5>2
            <4>. QED  BY <4>1
        <3> DEFINE g == [s \in Up(0) |-> base]
        <3>2. g \in [Up(0) -> V] /\ Eq(0, g)
            BY <3>1
        <3>. QED  BY <2>2, <2>3, <3>2
    <2>4. CASE n # 0
        <3>1. n - 1 \in Nat /\ n - 1 \notin N
            <4> HIDE DEF N
            <4>1. n - 1 \in Nat /\ ~(n <= n - 1)
                BY <2>2, <2>4
            <4>. QED  BY <2>1, <4>1
        <3>2. PICK h \in [Up(n - 1) -> V] : Eq(n - 1, h)
            BY <3>1
        <3> DEFINE g == [s \in Up(n) |-> IF s = {} THEN base ELSE F[<<ch[s], h[s \ {ch[s]}]>>]]
        <3>3. ASSUME NEW s \in Up(n), s # {}
              PROVE  s \ {ch[s]} \in Up(n - 1) /\ ch[s] \in S
            BY <1>0, <1>1, <2>2, <3>3
        <3>4. g \in [Up(n) -> V]
            <4>1. ASSUME NEW s \in Up(n)
                  PROVE  (IF s = {} THEN base ELSE F[<<ch[s], h[s \ {ch[s]}]>>]) \in V
                <5>1. CASE s = {}
                    BY <5>1
                <5>2. CASE s # {}
                    <6>1. ch[s] \in S /\ h[s \ {ch[s]}] \in V
                        BY <3>2, <3>3, <5>2
                    <6>. QED  BY <5>2, <6>1
                <5>. QED  BY <5>1, <5>2
            <4>. QED  BY <4>1
        <3>5. \A s \in Up(n - 1) : s \in Up(n) /\ g[s] = h[s]
            <4>1. ASSUME NEW s \in Up(n - 1) PROVE s \in Up(n)
                BY <1>0, <2>2
            <4>. QED  BY <3>2, <4>1
        <3>6. Eq(n, g)
            <4>1. ASSUME NEW s \in Up(n), s # {}
                  PROVE  g[s] = F[<<ch[s], g[s \ {ch[s]}]>>]
                <5>1. g[s \ {ch[s]}] = h[s \ {ch[s]}]
                    BY <3>3, <3>5, <4>1
                <5>. QED  BY <4>1, <5>1
            <4>. QED  BY <4>1
        <3>. QED  BY <2>2, <3>4, <3>6
    <2>. QED  BY <2>3, <2>4
<1> DEFINE c == Cardinality(S)
<1>3. c \in Nat /\ Up(c) = SUBSET S
    BY <1>0, FS_Subset
<1> HIDE DEF c
<1>4. PICK g \in [Up(c) -> V] : Eq(c, g)
    BY <1>2, <1>3
<1>5. g \in [SUBSET S -> V]
    BY <1>3
<1>. QED  BY <1>3, <1>4, <1>5 DEF FoldEq

\* A function of the parts is in W of each if each step from a part to the next
\* stays within W.
LEMMA FoldWithin ==
    ASSUME NEW S, IsFiniteSet(S), NEW ch, \A s \in SUBSET S : s # {} => ch[s] \in s,
           NEW g, NEW W, g[{}] \in W[{}],
           \A s \in SUBSET S :
              s # {} /\ g[s \ {ch[s]}] \in W[s \ {ch[s]}] => g[s] \in W[s]
    PROVE  \A s \in SUBSET S : g[s] \in W[s]
<1> DEFINE B == {s \in SUBSET S : g[s] \notin W[s]}
           N == {Cardinality(s) : s \in B}
<1>0. \A s \in SUBSET S : IsFiniteSet(s) /\ Cardinality(s) \in Nat
    BY FS_Subset, FS_CardinalityType
<1>1. B = {}
    <2>. SUFFICES ASSUME B # {} PROVE FALSE
        OBVIOUS
    <2>1. PICK n \in N : \A m \in N : n <= m
        <3>1. N \in SUBSET Nat /\ N # {}
            BY <1>0
        <3> HIDE DEF N
        <3>. QED  BY <3>1, Least
    <2>2. PICK s \in B : n = Cardinality(s)
        BY <2>1
    <2>3. s \in SUBSET S /\ g[s] \notin W[s]
        BY <2>2
    <2>4. s # {}
        BY <2>3
    <2>5. ch[s] \in s
        BY <2>3, <2>4
    <2> DEFINE t == s \ {ch[s]}
    <2>6. t \in SUBSET S /\ Cardinality(t) = Cardinality(s) - 1
        BY <1>0, <2>3, <2>5, FS_RemoveElement
    <2>7. g[t] \in W[t]
        <3>1. g[t] \notin W[t] => Cardinality(t) \in N
            BY <2>6
        <3>2. Cardinality(s) \in Nat /\ Cardinality(t) \in Nat
            BY <1>0, <2>3, <2>6
        <3> HIDE DEF N, t
        <3>3. Cardinality(t) \notin N
            BY <2>1, <2>2, <2>6, <3>2
        <3>. QED  BY <3>1, <3>3
    <2>. QED  BY <2>3, <2>4, <2>7
<1>. QED  BY <1>1

\* A function that follows a chain to its end: p gives what nxt[p] does where
\* the chain goes on, and val[p] where it ends.
ChainEq(D, goes, nxt, val, g) ==
    \A p \in D : g[p] = IF p \in goes THEN g[nxt[p]] ELSE val[p]

\* The equation of a walk along a chain without circles has a solution.
LEMMA ChainSolution ==
    ASSUME NEW D, NEW goes, NEW nxt, NEW V, NEW val \in [D -> V],
           \A p \in D : p \in goes => nxt[p] \in D,
           \A S \in SUBSET D \ {{}} : \E p \in S : p \in goes => nxt[p] \notin S
    PROVE  \E g \in [D -> V] : ChainEq(D, goes, nxt, val, g)
<1> DEFINE Sol(X, g) == \A p \in X : /\ p \in goes => nxt[p] \in X
                                     /\ g[p] = IF p \in goes THEN g[nxt[p]] ELSE val[p]
           At0(p, v) == \E X \in SUBSET D : \E g \in [X -> V] : Sol(X, g) /\ p \in X /\ v = g[p]
<1>1. \A p \in D : \E v \in V : At0(p, v)
    <2> DEFINE S == {p \in D : ~\E v \in V : At0(p, v)}
    <2>. SUFFICES ASSUME S # {} PROVE FALSE
        OBVIOUS
    <2>1. PICK p \in S : p \in goes => nxt[p] \notin S
        <3>1. S \in SUBSET D \ {{}}
            OBVIOUS
        <3> HIDE DEF S
        <3>. QED  BY <3>1
    <2>2. CASE p \notin goes
        <3> DEFINE g == [q \in {p} |-> val[q]]
        <3>1. {p} \in SUBSET D /\ g \in [{p} -> V] /\ Sol({p}, g) /\ g[p] \in V
            BY <2>1, <2>2
        <3>2. At0(p, g[p])
            BY <3>1
        <3>. QED  BY <2>1, <3>1, <3>2
    <2>3. CASE p \in goes
        <3>1. nxt[p] \in D /\ nxt[p] \notin S
            BY <2>1, <2>3
        <3>2. PICK v \in V : At0(nxt[p], v)
            BY <3>1
        <3>0. PICK X \in SUBSET D : \E h \in [X -> V] : Sol(X, h) /\ nxt[p] \in X /\ v = h[nxt[p]]
            BY <3>2
        <3>3. PICK h \in [X -> V] : Sol(X, h) /\ nxt[p] \in X /\ v = h[nxt[p]]
            BY <3>0
        <3>4. p \notin X
            <4>1. p \in X => At0(p, h[p]) /\ h[p] \in V
                BY <3>3
            <4>. QED  BY <2>1, <4>1
        <3> DEFINE Y == X \cup {p}
                   g == [q \in Y |-> IF q = p THEN v ELSE h[q]]
        <3>5. Y \in SUBSET D /\ g \in [Y -> V] /\ p \in Y /\ g[p] = v
            BY <2>1, <3>3
        <3>6. \A q \in X : g[q] = h[q]
            BY <3>4
        <3>7. Sol(Y, g)
            <4>1. ASSUME NEW q \in X
                  PROVE  /\ q \in goes => nxt[q] \in Y
                         /\ g[q] = IF q \in goes THEN g[nxt[q]] ELSE val[q]
                <5>1. g[q] = h[q] /\ (q \in goes => nxt[q] \in X)
                    BY <3>3, <3>6
                <5>2. q \in goes => g[nxt[q]] = h[nxt[q]]
                    BY <3>6, <5>1
                <5>3. h[q] = IF q \in goes THEN h[nxt[q]] ELSE val[q]
                    BY <3>3, Zenon
                <5> HIDE DEF g, Sol, At0
                <5>4. CASE q \in goes
                    BY <5>1, <5>2, <5>3, <5>4
                <5>5. CASE q \notin goes
                    BY <5>1, <5>3, <5>5
                <5>. QED  BY <5>4, <5>5
            <4>2. nxt[p] \in Y /\ g[p] = g[nxt[p]]
                <5> HIDE DEF g
                <5>. QED  BY <3>3, <3>5, <3>6
            <4> HIDE DEF g
            <4>. QED  BY <2>3, <4>1, <4>2
        <3>8. At0(p, v)
            BY <3>5, <3>7
        <3>. QED  BY <2>1, <3>8
    <2>. QED  BY <2>2, <2>3
<1>2. ASSUME NEW X \in SUBSET D, NEW Y \in SUBSET D, NEW g, NEW h, Sol(X, g), Sol(Y, h)
      PROVE  \A p \in X \cap Y : g[p] = h[p]
    <2> DEFINE S == {p \in X \cap Y : g[p] # h[p]}
    <2>. SUFFICES ASSUME S # {} PROVE FALSE
        OBVIOUS
    <2>1. PICK p \in S : p \in goes => nxt[p] \notin S
        <3>1. S \in SUBSET D \ {{}}
            OBVIOUS
        <3> HIDE DEF S
        <3>. QED  BY <3>1
    <2>2. p \in X /\ p \in Y /\ g[p] # h[p]
        BY <2>1
    <2>3. CASE p \in goes
        <3>1. nxt[p] \in X /\ nxt[p] \in Y /\ g[p] = g[nxt[p]] /\ h[p] = h[nxt[p]]
            BY <1>2, <2>2, <2>3
        <3>. QED  BY <2>1, <2>2, <2>3, <3>1
    <2>4. CASE p \notin goes
        <3>1. g[p] = val[p] /\ h[p] = val[p]
            BY <1>2, <2>2, <2>4, Zenon
        <3>. QED  BY <2>2, <3>1
    <2>. QED  BY <2>3, <2>4
<1> DEFINE G == [p \in D |-> CHOOSE v \in V : At0(p, v)]
<1>3. \A p \in D : G[p] \in V /\ At0(p, G[p])
    BY <1>1
<1>4. ASSUME NEW p \in D, NEW v, At0(p, v) PROVE G[p] = v
    <2>1. At0(p, G[p])
        BY <1>3
    <2>0. PICK X \in SUBSET D : \E g \in [X -> V] : Sol(X, g) /\ p \in X /\ v = g[p]
        BY <1>4
    <2>2. PICK g \in [X -> V] : Sol(X, g) /\ p \in X /\ v = g[p]
        BY <2>0
    <2> HIDE DEF G
    <2>4. PICK Y \in SUBSET D : \E h \in [Y -> V] : Sol(Y, h) /\ p \in Y /\ G[p] = h[p]
        BY <2>1
    <2>3. PICK h \in [Y -> V] : Sol(Y, h) /\ p \in Y /\ G[p] = h[p]
        BY <2>4
    <2> HIDE DEF Sol, At0
    <2>. QED  BY <1>2, <2>2, <2>3
<1>5. ASSUME NEW p \in D PROVE G[p] = IF p \in goes THEN G[nxt[p]] ELSE val[p]
    <2>1. At0(p, G[p])
        BY <1>3
    <2> HIDE DEF G
    <2>0. PICK X \in SUBSET D : \E g \in [X -> V] : Sol(X, g) /\ p \in X /\ G[p] = g[p]
        BY <2>1
    <2>2. PICK g \in [X -> V] : Sol(X, g) /\ p \in X /\ G[p] = g[p]
        BY <2>0
    <2>3. p \in goes => nxt[p] \in X /\ At0(nxt[p], g[nxt[p]])
        BY <2>2
    <2>4. p \in goes => G[nxt[p]] = g[nxt[p]]
        <3>1. p \in goes => nxt[p] \in D
            OBVIOUS
        <3> HIDE DEF Sol, At0
        <3>. QED  BY <1>4, <2>3, <3>1
    <2>5. CASE p \in goes
        <3>1. g[p] = g[nxt[p]]
            BY <2>2, <2>5
        <3>. QED  BY <2>2, <2>4, <2>5, <3>1
    <2>6. CASE p \notin goes
        <3>1. g[p] = val[p]
            BY <2>2, <2>6
        <3>. QED  BY <2>2, <2>6, <3>1
    <2>. QED  BY <2>5, <2>6
<1>6. G \in [D -> V]
    BY <1>3
<1> HIDE DEF G
<1>. QED  BY <1>5, <1>6 DEF ChainEq

\* Any such function has its values in V.
LEMMA ChainWithin ==
    ASSUME NEW D, NEW goes, NEW nxt, NEW V, NEW val \in [D -> V],
           \A p \in D : p \in goes => nxt[p] \in D,
           \A S \in SUBSET D \ {{}} : \E p \in S : p \in goes => nxt[p] \notin S,
           NEW g, ChainEq(D, goes, nxt, val, g)
    PROVE  \A p \in D : g[p] \in V
<1> DEFINE S == {p \in D : g[p] \notin V}
<1>. SUFFICES ASSUME S # {} PROVE FALSE
    OBVIOUS
<1>1. PICK p \in S : p \in goes => nxt[p] \notin S
    <2>1. S \in SUBSET D \ {{}}
        OBVIOUS
    <2> HIDE DEF S
    <2>. QED  BY <2>1
<1>. QED  BY <1>1 DEF ChainEq
-----------------------------------------------------------------------------
(* Types of what the pass computes.                                         *)

\* What an AVL says of its value is what the function does: where LiveIntervals
\* are there, the value is that of a definition.
Canonical(a) ==
    /\ a.kind = "reg" =>
          /\ a = AVLReg(a.vn) /\ a.vn.reg \in Registers
          /\ fn.LIS => <<a.vn.reg, a.vn.def>> \in DefinitionsOf(fn)
          /\ a.vn.nonZero <=> ~a.vn.copy /\ a.vn.def \in NonZerosOf(fn)
    /\ a.kind # "reg" => a.vn = NoValue /\ (a.kind # "imm" => a.n = 0)
\* An AVL that a state may have.
PlainAVL == {a \in AVL : a.kind \in {"imm", "reg", "vlmax"} /\ Canonical(a)}
\* A type with a VLMAX of at least one.
LegalType == {t \in VType : getSEWLMULRatio(t) <= fn.vlen}
\* The states the pass may compute for this function.
States ==
    {A \in [State: {"Uninitialized", "Unknown", "AVL"}, avl: AVL, vt: LegalType,
            SEWLMULRatioOnly: BOOLEAN] :
        /\ A.State = "AVL" => A.avl \in PlainAVL
        /\ A.State = "Unknown" => A = Unknown
        /\ A.State = "Uninitialized" => A = Uninitialized}

\* An instruction as the function has it, and a place with one.
Plain(I) ==
    /\ I \in Instruction /\ I.avl.kind # "keep" /\ I.vt \in LegalType
    /\ operandAVL(I.avl) \in PlainAVL
    /\ I.kind = "ff" => AVLReg(Known(I.dst)) \in PlainAVL
\* A place of the code, before and after the pass.
Item == [was: Instruction, now: Instruction]
\* The places the pass has not given a vset yet.
PlainItems == {x \in Item : Plain(x.now)}

\* The states of an instruction: all is known.
Full(A) == A \in States /\ A.State = "AVL" /\ ~A.SEWLMULRatioOnly

LEMMA InfoFull ==
    ASSUME NEW avl \in PlainAVL, NEW vt \in LegalType
    PROVE  Full(Info(avl, vt)) /\ Info(avl, vt).avl = avl /\ Info(avl, vt).vt = vt
BY DEF Full, Info, States, PlainAVL

LEMMA ValueTypes == NoValue \in Value /\ NoPlace \in Nat \X Nat /\ NoAVL \in AVL
BY DEF NoValue, NoPlace, Value, NoAVL, AVL

\* What a function is made of.
LEMMA FunctionType ==
    ASSUME WellFormed(fn)
    PROVE  /\ fn.vlen \in 6..16 /\ fn.code \in Seq(Seq(Instruction)) /\ fn.code # <<>>
           /\ DOMAIN fn.code = Blocks /\ Len(fn.code) \in Nat
           /\ \A b \in Blocks : fn.code[b] \in Seq(Instruction)
           /\ fn.succ \in [Blocks -> SUBSET (2..Len(fn.code))]
           /\ fn.out \in [Blocks -> [Registers -> Nat \X Nat]]
<1>1. /\ fn.vlen \in 6..16 /\ fn.code \in Seq(Seq(Instruction)) /\ fn.code # <<>>
      /\ fn.succ \in [Blocks -> SUBSET (2..Len(fn.code))]
      /\ fn.out \in [Blocks -> [Registers -> Nat \X Nat]]
    BY Zenon DEF WellFormed, Blocks
<1>. QED  BY <1>1 DEF Blocks

\* The two states without an AVL are states.
LEMMA ConstantStates ==
    ASSUME WellFormed(fn)
    PROVE  Unknown \in States /\ Uninitialized \in States
<1>1. NoVType \in LegalType
    BY FunctionType DEF NoVType, LegalType, VType, getSEWLMULRatio
<1> DEFINE S == [State: {"Uninitialized", "Unknown", "AVL"}, avl: AVL, vt: LegalType,
                 SEWLMULRatioOnly: BOOLEAN]
           i == Info(NoAVL, NoVType)
<1>2. i \in S
    BY <1>1, ValueTypes DEF Info
<1> HIDE DEF i
<1>3. Unknown \in S /\ Unknown.State = "Unknown"
    BY <1>2 DEF Unknown, i
<1>4. Uninitialized \in S /\ Uninitialized.State = "Uninitialized"
    BY <1>2 DEF Uninitialized, i
<1>. QED  BY <1>3, <1>4 DEF States

LEMMA StateInfo ==
    ASSUME NEW A \in States
    PROVE  IsInfo(A)
BY DEF States, IsInfo, PlainAVL, AVL, Value, LegalType

LEMMA KnownType ==
    ASSUME NEW vn \in Value
    PROVE  Known(vn) \in Value /\ (fn.LIS => Known(vn) = vn)
           /\ (~fn.LIS => Known(vn).def = NoPlace)
BY ValueTypes DEF Known, Value

LEMMA OperandType ==
    ASSUME NEW a \in AVL, a.kind # "keep"
    PROVE  operandAVL(a).kind = "reg" => a.kind = "reg" /\ operandAVL(a).vn = Known(a.vn)
BY DEF operandAVL, AVLImm, AVLReg, AVL

\* A register that is defined is one of the registers.
LEMMA DefinedRegister ==
    ASSUME WellFormed(fn), NEW r, NEW d, <<r, d>> \in DefinitionsOf(fn)
    PROVE  r \in Registers /\ d # <<1, 0>>
<1> DEFINE D == {q \in Places(fn.code) : defines(fn.code[q[1]][q[2]])}
<1>1. CASE \E p \in D : <<r, d>> = <<fn.code[p[1]][p[2]].dst.reg, p>>
    <2>1. PICK p \in D : r = fn.code[p[1]][p[2]].dst.reg /\ d = p
        BY <1>1
    <2>2. PICK b \in DOMAIN fn.code : p \in {<<b, k>> : k \in 1..Len(fn.code[b])}
        BY <2>1 DEF Places
    <2>3. PICK k \in 1..Len(fn.code[b]) : p = <<b, k>>
        BY <2>2
    <2>4. fn.code[b][k] \in Instruction
        <3>1. fn.code[b] \in Seq(Instruction)
            BY <2>2, FunctionType DEF Blocks
        <3>. QED  BY <3>1
    <2>5. fn.code[b][k].dst.reg \in Registers
        <3>1. fn.code[b][k].dst.reg # "none"
            BY <2>1, <2>3 DEF defines
        <3>. QED  BY <2>4, <3>1 DEF Instruction, Value
    <2>. QED  BY <2>1, <2>3, <2>5
<1>2. CASE \E q \in Registers : \E b \in 2..Len(fn.code) : <<r, d>> = <<q, <<b, 0>>>>
    BY <1>2
<1>. QED  BY <1>1, <1>2 DEF DefinitionsOf

\* The immediates are AVLs a state may have.
LEMMA ImmediateType ==
    ASSUME NEW n \in Nat
    PROVE  AVLImm(n) \in PlainAVL
BY ValueTypes DEF AVLImm, PlainAVL, AVL, Canonical

\* No register is defined where there is no place.
LEMMA NoPlaceDefined == NoPlace \notin NonZerosOf(fn)
<1>1. ASSUME NEW p \in Places(fn.code) PROVE p # NoPlace
    <2>1. PICK b \in DOMAIN fn.code : p \in {<<b, k>> : k \in 1..Len(fn.code[b])}
        BY DEF Places
    <2>2. PICK k \in 1..Len(fn.code[b]) : p = <<b, k>>
        BY <2>1
    <2>. QED  BY <2>2 DEF NoPlace
<1>. QED  BY <1>1 DEF NonZerosOf

\* The operand of an instruction of the function.
LEMMA OperandPlain ==
    ASSUME WellFormed(fn), NEW a \in AVL, a.kind # "keep", AVLOf(fn, a)
    PROVE  operandAVL(a) \in PlainAVL
<1>1. CASE a.kind = "reg"
    <2>1. operandAVL(a) = AVLReg(Known(a.vn)) /\ a.vn \in Value
        BY <1>1 DEF operandAVL, AVL
    <2>2. /\ <<a.vn.reg, a.vn.def>> \in DefinitionsOf(fn) /\ ~a.vn.copy
          /\ a.vn.nonZero <=> a.vn.def \in NonZerosOf(fn)
        BY <1>1 DEF AVLOf
    <2>3. a.vn.reg \in Registers
        BY <2>2, DefinedRegister
    <2> DEFINE v == Known(a.vn)
    <2>4. /\ v \in Value /\ v.reg = a.vn.reg /\ v.copy = a.vn.copy
          /\ fn.LIS => v = a.vn
          /\ ~fn.LIS => v.def = NoPlace /\ ~v.nonZero
        BY <2>1, KnownType DEF Known, Value
    <2> HIDE DEF v
    <2>5. v.nonZero <=> ~v.copy /\ v.def \in NonZerosOf(fn)
        BY <2>2, <2>4, NoPlaceDefined
    <2>6. AVLReg(v) \in AVL /\ AVLReg(v).kind = "reg" /\ AVLReg(v).vn = v
        BY <2>4 DEF AVLReg, AVL
    <2>. QED  BY <2>1, <2>2, <2>3, <2>4, <2>5, <2>6 DEF PlainAVL, Canonical, v
<1>2. CASE a.kind \in {"imm", "vlmax"}
    <2>1. operandAVL(a) = a
        BY <1>2 DEF operandAVL
    <2>. QED  BY <1>2, <2>1 DEF PlainAVL, Canonical, AVLOf
<1>3. CASE a.kind \in {"undef", "none"}
    <2>1. operandAVL(a) = AVLImm(1)
        BY <1>3 DEF operandAVL
    <2>. QED  BY <2>1, ImmediateType
<1>. QED  BY <1>1, <1>2, <1>3 DEF AVL

\* The instructions of the function.
LEMMA InstructionPlain ==
    ASSUME WellFormed(fn), NEW b \in Blocks, NEW k \in 1..Len(fn.code[b])
    PROVE  Plain(fn.code[b][k])
<1> DEFINE I == fn.code[b][k]
<1>1. fn.code[b] \in Seq(Instruction)
    BY FunctionType
<1>2. I \in Instruction
    BY <1>1
<1>3. /\ I.avl.kind # "keep" /\ AVLOf(fn, I.avl) /\ getSEWLMULRatio(I.vt) <= fn.vlen
      /\ I.kind = "ff" => /\ I.dst.reg # "none"
                          /\ I.dst = [NoValue EXCEPT !.reg = I.dst.reg, !.def = <<b, k>>]
    BY Zenon DEF WellFormed, Blocks
<1>4. <<b, k>> \in Places(fn.code)
    <2>1. b \in DOMAIN fn.code
        BY FunctionType
    <2>. QED  BY <2>1 DEF Places
<1>5. I.kind = "ff" => AVLReg(Known(I.dst)) \in PlainAVL
    <2>. SUFFICES ASSUME I.kind = "ff" PROVE AVLReg(Known(I.dst)) \in PlainAVL
        OBVIOUS
    <2>1. I.dst \in Value /\ I.dst.reg \in Registers
        BY <1>2, <1>3 DEF Instruction, Value
    <2>2. I.dst.def = <<b, k>> /\ ~I.dst.nonZero /\ ~I.dst.copy
        BY <1>3 DEF NoValue
    <2>3. <<I.dst.reg, I.dst.def>> \in DefinitionsOf(fn)
        <3>1. defines(I)
            BY <1>3 DEF defines
        <3>. QED  BY <1>4, <2>2, <3>1 DEF DefinitionsOf
    <2>4. I.dst.def \notin NonZerosOf(fn)
        BY <2>2 DEF NonZerosOf
    <2> DEFINE v == Known(I.dst)
    <2>5. /\ v \in Value /\ v.reg = I.dst.reg /\ ~v.copy /\ ~v.nonZero
          /\ fn.LIS => v = I.dst
          /\ ~fn.LIS => v.def = NoPlace
        BY <2>1, <2>2, KnownType DEF Known, Value
    <2> HIDE DEF v
    <2>6. v.nonZero <=> ~v.copy /\ v.def \in NonZerosOf(fn)
        BY <2>4, <2>5, NoPlaceDefined
    <2>7. AVLReg(v) \in AVL /\ AVLReg(v).kind = "reg" /\ AVLReg(v).vn = v
        BY <2>5 DEF AVLReg, AVL
    <2>8. AVLReg(v) \in PlainAVL
        BY <2>1, <2>3, <2>5, <2>6, <2>7 DEF PlainAVL, Canonical
    <2>. QED  BY <2>8 DEF v
<1>6. operandAVL(I.avl) \in PlainAVL
    <2> HIDE DEF I
    <2>. QED  BY <1>2, <1>3, OperandPlain DEF Instruction
<1> HIDE DEF I
<1>7. I.vt \in LegalType
    BY <1>2, <1>3 DEF LegalType, Instruction
<1>8. Plain(I)
    BY <1>2, <1>3, <1>5, <1>6, <1>7 DEF Plain
<1>. QED  BY <1>8 DEF I

\* The vsets of the function.
LEMMA VsetPlaces ==
    ASSUME WellFormed(fn), NEW p \in VsetsOf(fn)
    PROVE  /\ p = <<p[1], p[2]>> /\ p[1] \in Blocks /\ p[2] \in 1..Len(fn.code[p[1]])
           /\ Plain(fn.code[p[1]][p[2]]) /\ fn.code[p[1]][p[2]].kind = "vset"
<1>0. p \in Places(fn.code) /\ fn.code[p[1]][p[2]].kind = "vset"
    BY DEF VsetsOf
<1>1. PICK b \in DOMAIN fn.code : p \in {<<b, k>> : k \in 1..Len(fn.code[b])}
    BY <1>0 DEF Places
<1>2. PICK k \in 1..Len(fn.code[b]) : p = <<b, k>>
    BY <1>1
<1>3. b \in Blocks
    BY FunctionType
<1>. QED  BY <1>0, <1>2, <1>3, InstructionPlain

\* forwardVSETVLIAVL returns an AVL of one of the three kinds, or the one it was given.
LEMMA ForwardType ==
    ASSUME WellFormed(fn), NEW a \in PlainAVL, NEW vt
    PROVE  forwardVSETVLIAVL(a, vt) \in PlainAVL
<1> DEFINE D == VsetsOf(fn)
           o(p) == operandAVL(fn.code[p[1]][p[2]].avl)
           goes == {p \in D : isOutputVL(o(p), vt)}
           nxt == [p \in D |-> o(p).vn.def]
           val == [p \in D |-> o(p)]
           Eq(h) == h = [p \in D |-> IF isOutputVL(o(p), vt) THEN h[o(p).vn.def] ELSE o(p)]
           source == CHOOSE h : Eq(h)
<1>1. \A p \in D : /\ fn.code[p[1]][p[2]].avl \in AVL /\ o(p) \in PlainAVL
                   /\ o(p).kind = "reg" => fn.code[p[1]][p[2]].avl.kind = "reg"
                                           /\ o(p).vn = Known(fn.code[p[1]][p[2]].avl.vn)
    <2>1. ASSUME NEW p \in D
          PROVE  /\ fn.code[p[1]][p[2]].avl \in AVL /\ fn.code[p[1]][p[2]].avl.kind # "keep"
                 /\ o(p) \in PlainAVL
        BY VsetPlaces DEF Plain, Instruction
    <2>. QED  BY <2>1, OperandType
<1>2. val \in [D -> PlainAVL]
    BY <1>1
<1>3. \A p \in D : p \in goes => nxt[p] \in D
    BY DEF isOutputVL
<1>4. ASSUME NEW S \in SUBSET D \ {{}}
      PROVE  \E p \in S : p \in goes => nxt[p] \notin S
    <2>1. PICK p \in S : fn.code[p[1]][p[2]].avl.kind = "reg" =>
                            fn.code[p[1]][p[2]].avl.vn.def \notin S
        BY DEF WellFormed
    <2>2. ASSUME p \in goes PROVE nxt[p] \notin S
        <3>1. p \in D /\ isOutputVL(o(p), vt) /\ nxt[p] = o(p).vn.def
            BY <2>2
        <3>2. o(p).kind = "reg" /\ o(p).vn.def # NoPlace
            BY <3>1 DEF isOutputVL, hasAVLDefMI
        <3>3. fn.code[p[1]][p[2]].avl.kind = "reg"
              /\ o(p).vn = Known(fn.code[p[1]][p[2]].avl.vn)
              /\ fn.code[p[1]][p[2]].avl.vn \in Value
            BY <1>1, <3>1, <3>2 DEF AVL
        <3>4. o(p).vn.def = fn.code[p[1]][p[2]].avl.vn.def
            BY <3>2, <3>3, KnownType
        <3>. QED  BY <2>1, <3>1, <3>3, <3>4
    <2>. QED  BY <2>2
<1>5. Eq(source)
    <2>1. PICK g \in [D -> PlainAVL] : ChainEq(D, goes, nxt, val, g)
        <3> HIDE DEF D, goes, nxt, val
        <3>. QED  BY <1>2, <1>3, <1>4, ChainSolution
    <2>2. \A p \in D : g[p] = IF isOutputVL(o(p), vt) THEN g[o(p).vn.def] ELSE o(p)
        BY <2>1 DEF ChainEq
    <2>3. Eq(g)
        BY <2>2
    <2> HIDE DEF Eq
    <2>. QED  BY <2>3
<1>6. ChainEq(D, goes, nxt, val, source)
    <2> HIDE DEF source
    <2>. QED  BY <1>5 DEF ChainEq
<1>7. \A p \in D : source[p] \in PlainAVL
    <2> HIDE DEF D, goes, nxt, val, source
    <2>. QED  BY <1>2, <1>3, <1>4, <1>6, ChainWithin
<1>8. forwardVSETVLIAVL(a, vt) = IF isOutputVL(a, vt) THEN source[a.vn.def] ELSE a
    BY DEF forwardVSETVLIAVL
<1>9. isOutputVL(a, vt) => a.vn.def \in D
    BY DEF isOutputVL
<1> HIDE DEF source, D
<1>. QED  BY <1>7, <1>8, <1>9

LEMMA VsetInfo ==
    ASSUME WellFormed(fn), NEW I, Plain(I)
    PROVE  Full(getInfoForVSETVLI(I))
<1>1. operandAVL(I.avl) \in PlainAVL
    BY OperandType DEF Plain, Instruction
<1>2. forwardVSETVLIAVL(operandAVL(I.avl), I.vt) \in PlainAVL
    BY <1>1, ForwardType
<1>. QED  BY <1>2, InfoFull DEF getInfoForVSETVLI, Plain

LEMMA VLMAXNat ==
    ASSUME WellFormed(fn), NEW vt \in LegalType
    PROVE  computeVLMAX(vt) \in Nat
<1>1. fn.vlen - getSEWLMULRatio(vt) \in Nat
    <2>1. vt \in VType /\ getSEWLMULRatio(vt) <= fn.vlen /\ fn.vlen \in 6..16
        BY FunctionType DEF LegalType
    <2>2. getSEWLMULRatio(vt) \in Int
        BY <2>1 DEF VType, getSEWLMULRatio
    <2>. QED  BY <2>1, <2>2
<1>. QED  BY <1>1, PowerNat DEF computeVLMAX

\* The type and the AVL an instruction asks for.
LEMMA RequiredInfo ==
    ASSUME WellFormed(fn), NEW I, Plain(I)
    PROVE  Full(computeInfoForInstr(I))
<1> DEFINE vt == [I.vt EXCEPT !.ta = @ \/ I.undefMerge,
                              !.ma = @ \/ I.undefMerge \/ ~I.usesMaskPolicy]
           avl == IF I.avl.kind = "vlmax" /\ fn.exactVLen /\ computeVLMAX(vt) <= 31
                  THEN AVLImm(computeVLMAX(vt)) ELSE operandAVL(I.avl)
<1>1. vt \in LegalType
    BY DEF Plain, Instruction, LegalType, VType, getSEWLMULRatio
<1>2. computeInfoForInstr(I) = Info(forwardVSETVLIAVL(avl, vt), vt)
    BY DEF computeInfoForInstr
<1>3. avl \in PlainAVL
    <2>1. operandAVL(I.avl) \in PlainAVL
        BY OperandType DEF Plain, Instruction
    <2>2. computeVLMAX(vt) \in Nat
        BY <1>1, VLMAXNat
    <2>3. AVLImm(computeVLMAX(vt)) \in PlainAVL
        BY <2>2, ImmediateType
    <2>. QED  BY <2>1, <2>3
<1> HIDE DEF vt, avl
<1>4. forwardVSETVLIAVL(avl, vt) \in PlainAVL
    BY <1>3, ForwardType
<1>. QED  BY <1>1, <1>2, <1>4, InfoFull
-----------------------------------------------------------------------------
(* What instructions demand, and how they change a state.                   *)

LEMMA DemandedConstants ==
    /\ NothingDemanded \in DemandedFields /\ All \in DemandedFields
    /\ demandVTYPE(NothingDemanded) \in DemandedFields
    /\ demandVL(NothingDemanded) \in DemandedFields
    /\ All.SEW = SEWEqual /\ demandVTYPE(NothingDemanded).SEW = SEWEqual
<1>1. NothingDemanded \in DemandedFields
    BY DEF NothingDemanded, DemandedFields, SEWNone, LMULNone
<1>2. ASSUME NEW D \in DemandedFields
      PROVE  demandVL(D) \in DemandedFields /\ demandVL(D).SEW = D.SEW
    BY DEF DemandedFields, demandVL
<1>3. ASSUME NEW D \in DemandedFields
      PROVE  demandVTYPE(D) \in DemandedFields /\ demandVTYPE(D).SEW = SEWEqual
    <2> DEFINE E == [D EXCEPT !.SEW = 3, !.LMUL = 2, !.SEWLMULRatio = TRUE,
                              !.TailPolicy = TRUE, !.MaskPolicy = TRUE]
    <2>1. demandVTYPE(D) = E
        BY DEF demandVTYPE, SEWEqual, LMULEqual
    <2>2. E \in DemandedFields
        <3>1. TRUE \in BOOLEAN /\ 3 \in 0..3 /\ 2 \in 0..2
            OBVIOUS
        <3>. QED  BY <3>1, Zenon DEF DemandedFields
    <2>3. E.SEW = 3
        BY Zenon DEF DemandedFields
    <2> HIDE DEF E
    <2>. QED  BY <2>1, <2>2, <2>3 DEF SEWEqual
<1>. QED  BY <1>1, <1>2, <1>3 DEF All

\* An instruction with a type demands SEW or the ratio of it.
LEMMA DemandedType ==
    ASSUME NEW I \in Instruction, NEW explicit
    PROVE  /\ getDemanded(I, explicit) \in DemandedFields
           /\ hasSEWOp(I) => LET D == getDemanded(I, explicit)
                             IN  D.SEW # SEWNone \/ D.SEWLMULRatio
<1> DEFINE vlAsked == hasVLOp(I) /\ (explicit \/ I.avl.kind # "undef")
           one == hasVLOp(I) /\ I.avl.kind = "imm" /\ I.avl.n = 1 /\ I.undefMerge
           wider == IF I.float /\ ~fn.F64 THEN SEWGreaterThanOrEqualAndLessThan64
                    ELSE SEWGreaterThanOrEqual
           start0 == IF vlAsked THEN All ELSE demandVTYPE(NothingDemanded)
           start == [start0 EXCEPT !.TailPolicy = ~I.store,
                                   !.MaskPolicy = I.usesMaskPolicy /\ ~I.store]
           D == getDemanded(I, explicit)
<1>1. start0 \in DemandedFields /\ start0.SEW = SEWEqual /\ start0.SEWLMULRatio
    BY DemandedConstants DEF All, demandVTYPE, demandVL, NothingDemanded
<1>2. I.store \in BOOLEAN /\ I.usesMaskPolicy \in BOOLEAN /\ I.undefMerge \in BOOLEAN
      /\ I.kind \in VectorOps \cup {"vset", "def", "li", "use", "call", "none"}
    BY DEF Instruction
<1> HIDE DEF start0
<1>3. start \in DemandedFields /\ start.SEW = SEWEqual /\ start.SEWLMULRatio
    BY <1>1, <1>2 DEF DemandedFields
<1>4. wider \in 0..3 /\ wider # SEWNone /\ SEWEqual \in 0..3 /\ SEWEqual # SEWNone
      /\ SEWNone \in 0..3 /\ LMULNone \in 0..2 /\ LMULLessThanOrEqualToM1 \in 0..2
    BY DEF SEWGreaterThanOrEqualAndLessThan64, SEWGreaterThanOrEqual, SEWNone, SEWEqual,
           LMULNone, LMULLessThanOrEqualToM1
<1> HIDE DEF wider, vlAsked
<1> DEFINE Good(E) == E \in DemandedFields /\ (E.SEW # SEWNone \/ E.SEWLMULRatio)
<1>5. D = CASE I.kind = "call" -> All
          [] I.kind = "vset" /\ I.readsVL -> demandVL(NothingDemanded)
          [] I.kind \in {"arith", "ff"} \/ (I.kind \in {"slide", "splat"} /\ ~one) -> start
          [] I.kind \in {"mem", "mask"} -> [start EXCEPT !.SEW = SEWNone, !.LMUL = LMULNone]
          [] I.kind = "insert" ->
                [start EXCEPT !.LMUL = LMULNone, !.SEWLMULRatio = FALSE, !.VLAny = FALSE,
                              !.SEW = IF I.undefMerge THEN wider ELSE @,
                              !.TailPolicy = ~I.undefMerge]
          [] I.kind = "extract" ->
                [start EXCEPT !.LMUL = LMULNone, !.SEWLMULRatio = FALSE,
                              !.TailPolicy = FALSE, !.MaskPolicy = FALSE]
          [] I.kind = "slide" /\ one ->
                [start EXCEPT !.VLAny = FALSE, !.VLZeroness = TRUE,
                              !.LMUL = LMULLessThanOrEqualToM1, !.TailPolicy = FALSE]
          [] I.kind = "splat" /\ one ->
                [start EXCEPT !.LMUL = LMULLessThanOrEqualToM1, !.SEWLMULRatio = FALSE,
                              !.VLAny = FALSE, !.SEW = wider, !.TailPolicy = FALSE]
          [] I.kind \in {"def", "li", "use", "none"} \/ (I.kind = "vset" /\ ~I.readsVL) ->
                NothingDemanded
    BY DEF getDemanded, wider, vlAsked, start0
<1> HIDE DEF D, one, start
<1>6. CASE I.kind \in {"call", "vset", "def", "li", "use", "none"}
    <2>1. D \in {All, demandVL(NothingDemanded), NothingDemanded}
        BY <1>2, <1>5, <1>6
    <2>. QED  BY <1>6, <2>1, DemandedConstants DEF D, hasSEWOp, VectorOps
<1>7. CASE I.kind \in {"arith", "ff"} \/ (I.kind \in {"slide", "splat"} /\ ~one)
    <2>1. D = start
        BY <1>5, <1>7
    <2>. QED  BY <1>3, <2>1 DEF D
<1>8. CASE I.kind \in {"mem", "mask"}
    <2>1. D = [start EXCEPT !.SEW = SEWNone, !.LMUL = LMULNone]
        BY <1>5, <1>8
    <2>2. Good(D)
        BY <1>3, <1>4, <2>1 DEF DemandedFields
    <2>. QED  BY <2>2 DEF D
<1>9. CASE I.kind = "insert"
    <2> DEFINE sew == IF I.undefMerge THEN wider ELSE start.SEW
    <2>1. D = [start EXCEPT !.LMUL = LMULNone, !.SEWLMULRatio = FALSE, !.VLAny = FALSE,
                            !.SEW = sew, !.TailPolicy = ~I.undefMerge]
        BY <1>5, <1>9
    <2>2. sew \in 0..3 /\ sew # SEWNone
        BY <1>3, <1>4
    <2> HIDE DEF sew
    <2>3. Good(D)
        BY <1>2, <1>3, <1>4, <2>1, <2>2 DEF DemandedFields
    <2>. QED  BY <2>3 DEF D
<1>10. CASE I.kind = "extract"
    <2>1. D = [start EXCEPT !.LMUL = LMULNone, !.SEWLMULRatio = FALSE,
                            !.TailPolicy = FALSE, !.MaskPolicy = FALSE]
        BY <1>5, <1>10
    <2>2. Good(D)
        BY <1>3, <1>4, <2>1 DEF DemandedFields
    <2>. QED  BY <2>2 DEF D
<1>11. CASE I.kind = "slide" /\ one
    <2>1. D = [start EXCEPT !.VLAny = FALSE, !.VLZeroness = TRUE,
                            !.LMUL = LMULLessThanOrEqualToM1, !.TailPolicy = FALSE]
        BY <1>5, <1>11
    <2>2. Good(D)
        BY <1>3, <1>4, <2>1 DEF DemandedFields
    <2>. QED  BY <2>2 DEF D
<1>12. CASE I.kind = "splat" /\ one
    <2>1. D = [start EXCEPT !.LMUL = LMULLessThanOrEqualToM1, !.SEWLMULRatio = FALSE,
                            !.VLAny = FALSE, !.SEW = wider, !.TailPolicy = FALSE]
        BY <1>5, <1>12
    <2>2. Good(D)
        BY <1>3, <1>4, <2>1 DEF DemandedFields
    <2>. QED  BY <2>2 DEF D
<1>. QED  BY <1>2, <1>6, <1>7, <1>8, <1>9, <1>10, <1>11, <1>12 DEF VectorOps

LEMMA AdjustedLegal ==
    ASSUME NEW A \in States, NEW New, Full(New), NEW Used
    PROVE  LET I == adjustIncoming(A, New, Used)
           IN  /\ I.vt \in LegalType /\ I.avl = New.avl
               /\ ~isKnown(A) \/ Used.LMUL # LMULNone \/ Used.SEWLMULRatio => I = New
<1> DEFINE ls == getSameRatioLMUL(A.vt, New.vt.sew)
           l == CHOOSE x \in ls : TRUE
           vt == [New.vt EXCEPT !.lmul = l]
           I == adjustIncoming(A, New, Used)
<1>0. New \in States /\ New.vt \in LegalType /\ A.vt \in LegalType
    BY DEF Full, States
<1>1. CASE Used.LMUL = LMULNone /\ ~Used.SEWLMULRatio /\ isKnown(A) /\ ls # {}
    <2>1. l \in -3..3 /\ New.vt.sew - l = getSEWLMULRatio(A.vt)
        BY <1>1 DEF getSameRatioLMUL
    <2>2. I = [New EXCEPT !.vt = vt]
        BY <1>1 DEF adjustIncoming
    <2>3. vt \in VType /\ vt.sew = New.vt.sew /\ vt.lmul = l
        <3> HIDE DEF l
        <3>. QED  BY <1>0, <2>1 DEF LegalType, VType
    <2>4. vt \in LegalType
        <3> HIDE DEF vt, l
        <3>. QED  BY <1>0, <2>1, <2>3 DEF LegalType, getSEWLMULRatio
    <2>5. I.vt = vt /\ I.avl = New.avl
        <3> HIDE DEF vt
        <3>. QED  BY <1>0, <2>2 DEF States
    <2>. QED  BY <1>1, <2>4, <2>5
<1>2. CASE ~(Used.LMUL = LMULNone /\ ~Used.SEWLMULRatio /\ isKnown(A) /\ ls # {})
    <2>1. I = New
        BY <1>2 DEF adjustIncoming
    <2>. QED  BY <1>0, <2>1
<1>. QED  BY <1>1, <1>2

\* The change made for an instruction leads to a state with a legal type.
LEMMA ChangeFull ==
    ASSUME NEW A \in States, NEW New, Full(New), NEW Used \in DemandedFields,
           Used.SEW # SEWNone \/ Used.SEWLMULRatio
    PROVE  Full(changedFor(A, New, Used))
<1>. DEFINE Base == IF isKnown(A) THEN A ELSE New
            I == adjustIncoming(A, New, Used)
            D == adjustedDemand(A, Used)
            EquallyZero == hasEquallyZeroAVL(I, A) /\ hasSameVLMAX(I, A)
            avl == IF D.VLAny \/ (D.VLZeroness /\ ~EquallyZero) THEN I.avl ELSE Base.avl
            ta == I.vt.ta \/ (~D.TailPolicy /\ Base.vt.ta)
            ma == I.vt.ma \/ (~D.MaskPolicy /\ Base.vt.ma)
            sew == IF D.SEW # SEWNone \/ D.SEWLMULRatio THEN I.vt.sew ELSE Base.vt.sew
            lmul == IF D.LMUL # LMULNone \/ D.SEWLMULRatio THEN I.vt.lmul ELSE Base.vt.lmul
            vt == [lmul |-> lmul, sew |-> sew, ta |-> ta, ma |-> ma]
            t == IF Base.SEWLMULRatioOnly THEN I.vt ELSE vt
<1>1. changedFor(A, New, Used) = Info(avl, t)
    BY DEF changedFor
<1>2. /\ I.vt \in LegalType /\ I.avl = New.avl
      /\ ~isKnown(A) \/ Used.LMUL # LMULNone \/ Used.SEWLMULRatio => I = New
    BY AdjustedLegal
<1>3. /\ D.SEW = Used.SEW /\ D.SEWLMULRatio = Used.SEWLMULRatio
      /\ isKnown(A) \/ Used.LMUL # LMULNone \/ Used.SEWLMULRatio
            => D.LMUL # LMULNone \/ D.SEWLMULRatio
    BY DEF adjustedDemand, DemandedFields, LMULEqual, LMULNone
<1>4. Base \in States /\ Base.avl \in PlainAVL /\ New.avl \in PlainAVL /\ Base.vt \in LegalType
      /\ (~isKnown(A) => Base = New)
    BY DEF Full, States, isKnown, isValid, isUnknown
<1>. HIDE DEF I, D, Base
<1>5. avl \in PlainAVL
    BY <1>2, <1>4
<1>6. sew = I.vt.sew /\ lmul = I.vt.lmul
    <2>1. sew = I.vt.sew
        BY <1>3
    <2>2. lmul = I.vt.lmul
        BY <1>2, <1>3, <1>4
    <2>. QED  BY <2>1, <2>2
<1>7. ta \in BOOLEAN /\ ma \in BOOLEAN
    BY DEF LegalType, VType
<1>. HIDE DEF ta, ma, sew, lmul
<1>8. vt \in VType /\ vt.sew = I.vt.sew /\ vt.lmul = I.vt.lmul
    BY <1>2, <1>6, <1>7 DEF LegalType, VType
<1>. HIDE DEF vt
<1>9. vt \in LegalType
    BY <1>2, <1>8 DEF LegalType, getSEWLMULRatio
<1>10. t \in LegalType
    BY <1>2, <1>9
<1>. HIDE DEF t, avl
<1>. QED  BY <1>1, <1>5, <1>10, InfoFull

\* The state before an instruction is one of the states.
LEMMA BeforeType ==
    ASSUME WellFormed(fn), NEW A \in States, NEW I, Plain(I)
    PROVE  /\ transferBefore(A, I) \in States
           /\ hasSEWOp(I) => transferBefore(A, I).State = "AVL"
<1>1. Full(computeInfoForInstr(I))
    BY RequiredInfo
<1>2. CASE hasSEWOp(I) /\ needVSETVLI(getDemanded(I, FALSE), computeInfoForInstr(I), A)
    <2>1. /\ getDemanded(I, FALSE) \in DemandedFields
          /\ getDemanded(I, FALSE).SEW # SEWNone \/ getDemanded(I, FALSE).SEWLMULRatio
        BY <1>2, DemandedType DEF Plain
    <2>2. Full(changedFor(A, computeInfoForInstr(I), getDemanded(I, FALSE)))
        BY <1>1, <2>1, ChangeFull
    <2>3. transferBefore(A, I) = changedFor(A, computeInfoForInstr(I), getDemanded(I, FALSE))
        BY <1>2 DEF transferBefore
    <2>. QED  BY <2>2, <2>3 DEF Full
<1>3. CASE ~(hasSEWOp(I) /\ needVSETVLI(getDemanded(I, FALSE), computeInfoForInstr(I), A))
    <2>1. transferBefore(A, I) = A
        BY <1>3 DEF transferBefore
    <2>2. hasSEWOp(I) => isKnown(A)
        BY <1>3 DEF needVSETVLI, isCompatible
    <2>3. A.State \in {"Uninitialized", "Unknown", "AVL"}
        BY DEF States
    <2>. QED  BY <2>1, <2>2, <2>3 DEF isKnown, isValid, isUnknown
<1>. QED  BY <1>2, <1>3

\* The state after an instruction is one of the states.
LEMMA AfterType ==
    ASSUME WellFormed(fn), NEW A \in States, NEW I, Plain(I), hasSEWOp(I) => A.State = "AVL"
    PROVE  transferAfter(A, I) \in States
<1>1. CASE isVectorConfigInstr(I)
    BY <1>1, VsetInfo DEF transferAfter, Full, isVectorConfigInstr
<1>2. CASE I.kind = "ff"
    <2>1. A.State = "AVL"
        BY <1>2 DEF hasSEWOp, VectorOps
    <2> DEFINE a == AVLReg(Known(I.dst))
    <2>2. a \in PlainAVL
        BY <1>2 DEF Plain
    <2>3. transferAfter(A, I) = [A EXCEPT !.avl = a]
        BY <1>2 DEF transferAfter, isVectorConfigInstr
    <2> HIDE DEF a
    <2>4. a \in AVL
        BY <2>2 DEF PlainAVL
    <2>. QED  BY <2>1, <2>2, <2>3, <2>4 DEF States
<1>3. CASE I.kind = "call"
    BY <1>3, ConstantStates DEF transferAfter, isVectorConfigInstr
<1>4. CASE ~isVectorConfigInstr(I) /\ I.kind \notin {"ff", "call"}
    BY <1>4 DEF transferAfter, isVectorConfigInstr
<1>. QED  BY <1>1, <1>2, <1>3, <1>4

\* A state that is known to be any stays so.
LEMMA TransferType ==
    ASSUME WellFormed(fn), NEW A \in States, NEW I, Plain(I)
    PROVE  /\ transferAfter(transferBefore(A, I), I) \in States
           /\ isValid(A) => isValid(transferAfter(transferBefore(A, I), I))
<1> DEFINE B == transferBefore(A, I)
<1>1. B \in States /\ (hasSEWOp(I) => B.State = "AVL")
    BY BeforeType
<1>2. isValid(A) => isValid(B)
    <2>1. CASE hasSEWOp(I)
        BY <1>1, <2>1 DEF isValid
    <2>2. CASE ~hasSEWOp(I)
        BY <2>2 DEF transferBefore
    <2>. QED  BY <2>1, <2>2
<1> HIDE DEF B
<1>3. transferAfter(B, I) \in States
    BY <1>1, AfterType
<1>4. isValid(B) => isValid(transferAfter(B, I))
    <2>1. CASE isVectorConfigInstr(I)
        <3>1. transferAfter(B, I) = getInfoForVSETVLI(I)
            BY <2>1 DEF transferAfter, isVectorConfigInstr
        <3>. QED  BY <3>1, VsetInfo DEF Full, isValid
    <2>2. CASE I.kind = "ff"
        <3>1. transferAfter(B, I) = [B EXCEPT !.avl = AVLReg(Known(I.dst))]
            BY <2>2 DEF transferAfter, isVectorConfigInstr
        <3>. QED  BY <1>1, <3>1 DEF isValid, States
    <2>3. CASE I.kind = "call"
        <3>1. transferAfter(B, I) = Unknown
            BY <2>3 DEF transferAfter, isVectorConfigInstr
        <3>. QED  BY <3>1 DEF isValid, Unknown
    <2>4. CASE ~isVectorConfigInstr(I) /\ I.kind \notin {"ff", "call"}
        BY <2>4 DEF transferAfter, isVectorConfigInstr
    <2>. QED  BY <2>1, <2>2, <2>3, <2>4
<1>. QED  BY <1>2, <1>3, <1>4 DEF B
-----------------------------------------------------------------------------
(* The folds of the data flow.                                              *)

\* A block leads from a state to a state.
LEMMA ChangesType ==
    ASSUME WellFormed(fn), NEW A \in States, NEW code \in Seq(PlainItems)
    PROVE  /\ computeVLVTYPEChanges(code, A) \in States
           /\ isValid(A) => isValid(computeVLVTYPEChanges(code, A))
<1> DEFINE S == DOMAIN code
           T(i, B) == transferAfter(transferBefore(B, code[i].now), code[i].now)
           F == [q \in S \X States |-> T(q[1], q[2])]
           ch == [s \in SUBSET S |-> Max(s)]
           W == [s \in SUBSET S |-> {B \in States : isValid(A) => isValid(B)}]
           Eq(h) == h = [s \in SUBSET S |-> IF s = {} THEN A ELSE T(Max(s), h[s \ {Max(s)}])]
           end == CHOOSE h : Eq(h)
<1>1. S = 1..Len(code) /\ Len(code) \in Nat /\ IsFiniteSet(S)
    <2>1. S = 1..Len(code) /\ Len(code) \in Nat
        OBVIOUS
    <2>. QED  BY <2>1, FS_Interval
<1>2. ASSUME NEW i \in S, NEW B \in States
      PROVE  T(i, B) \in States /\ (isValid(B) => isValid(T(i, B)))
    <2>1. Plain(code[i].now)
        BY DEF PlainItems
    <2>. QED  BY <2>1, TransferType
<1>3. F \in [S \X States -> States]
    <2> HIDE DEF S, T
    <2>. QED  BY <1>2
<1>4. ASSUME NEW s \in SUBSET S, s # {}
      PROVE  Max(s) \in s
    BY <1>1, <1>4, MinMax
<1>5. \A s \in SUBSET S : s # {} => ch[s] \in s
    BY <1>4
<1>6. Eq(end)
    <2>1. PICK g \in [SUBSET S -> States] : FoldEq(S, A, ch, F, g)
        <3> HIDE DEF S, F, ch
        <3>. QED  BY <1>1, <1>3, <1>5, FoldSolution
    <2>2. ASSUME NEW s \in SUBSET S
          PROVE  g[s] = IF s = {} THEN A ELSE T(Max(s), g[s \ {Max(s)}])
        <3>1. CASE s = {}
            BY <2>1, <3>1 DEF FoldEq
        <3>2. CASE s # {}
            <4>1. ch[s] = Max(s) /\ Max(s) \in S /\ s \ {Max(s)} \in SUBSET S
                BY <1>4, <3>2
            <4>2. g[s \ {Max(s)}] \in States
                BY <4>1
            <4>3. g[s] = F[<<Max(s), g[s \ {Max(s)}]>>]
                <5> HIDE DEF S, F
                <5>. QED  BY <2>1, <3>2, <4>1 DEF FoldEq
            <4> HIDE DEF S, T, ch
            <4>. QED  BY <3>2, <4>1, <4>2, <4>3
        <3>. QED  BY <3>1, <3>2
    <2>3. Eq(g)
        <3> HIDE DEF T, S
        <3>. QED  BY <2>2
    <2> HIDE DEF Eq
    <2>. QED  BY <2>3
<1>7. \A s \in SUBSET S : end[s] = IF s = {} THEN A ELSE T(Max(s), end[s \ {Max(s)}])
    <2> HIDE DEF end, T, S
    <2>. QED  BY <1>6
<1>8. computeVLVTYPEChanges(code, A) = end[S]
    BY DEF computeVLVTYPEChanges, FoldLeft, MapThenFoldSet
<1> HIDE DEF end, T, S
<1>9. end[{}] \in W[{}]
    BY <1>7
<1>10. ASSUME NEW s \in SUBSET S, s # {}, end[s \ {ch[s]}] \in W[s \ {ch[s]}]
       PROVE  end[s] \in W[s]
    <2>1. Max(s) \in S /\ ch[s] = Max(s) /\ s \ {Max(s)} \in SUBSET S
        BY <1>4, <1>10
    <2>2. end[s] = T(Max(s), end[s \ {Max(s)}])
        BY <1>7, <1>10
    <2> DEFINE v == end[s \ {Max(s)}]
    <2>3. v \in States /\ (isValid(A) => isValid(v))
        BY <1>10, <2>1
    <2> HIDE DEF v
    <2>4. T(Max(s), v) \in States /\ (isValid(v) => isValid(T(Max(s), v)))
        BY <1>2, <2>1, <2>3
    <2> HIDE DEF ch
    <2>. QED  BY <2>2, <2>3, <2>4 DEF v
<1>11. \A s \in SUBSET S : end[s] \in W[s]
    <2> HIDE DEF W, ch
    <2>. QED  BY <1>1, <1>5, <1>9, <1>10, FoldWithin
<1>. QED  BY <1>8, <1>11
-----------------------------------------------------------------------------
(* The order of the states.                                                 *)

\* A state that others are joined to stays or goes up.
LEMMA JoinStates ==
    ASSUME WellFormed(fn), NEW A \in States, NEW B \in States
    PROVE  /\ intersect(A, B) \in States
           /\ intersect(A, B) = A \/ Rank(intersect(A, B)) > Rank(A)
<1>0. A.State \in {"Uninitialized", "Unknown", "AVL"} /\ (A.State = "Unknown" => A = Unknown)
    BY DEF States
<1>1. CASE ~isValid(B)
    BY <1>1 DEF intersect
<1>2. CASE isValid(B) /\ ~isValid(A)
    BY <1>2 DEF intersect, Rank
<1>3. CASE isValid(A) /\ isValid(B) /\ SameInfo(A, B)
    BY <1>3 DEF intersect
<1>4. CASE isValid(A) /\ isValid(B) /\ ~SameInfo(A, B) /\ hasSameAVL(A, B) /\ hasSameVLMAX(A, B)
    <2>. DEFINE J == [A EXCEPT !.SEWLMULRatioOnly = TRUE]
    <2>1. intersect(A, B) = J
        BY <1>4 DEF intersect
    <2>2. isKnown(A) /\ A.State = "AVL"
        BY <1>0, <1>4 DEF hasSameAVL, hasSameAVLLatticeValue, isKnown, isValid, isUnknown
    <2>3. J \in States
        BY <2>2 DEF States
    <2>4. CASE A.SEWLMULRatioOnly
        <3>1. J = A
            BY <2>4 DEF States
        <3>. QED  BY <2>1, <2>3, <3>1
    <2>5. CASE ~A.SEWLMULRatioOnly
        <3>1. J.State = A.State /\ J.SEWLMULRatioOnly
            BY DEF States
        <3>2. Rank(J) = 2 /\ Rank(A) = 1
            BY <2>2, <2>5, <3>1 DEF Rank, isKnown, isValid, isUnknown
        <3>. QED  BY <2>1, <2>3, <3>2
    <2>. QED  BY <2>4, <2>5
<1>5. CASE /\ isValid(A) /\ isValid(B) /\ ~SameInfo(A, B)
           /\ ~(hasSameAVL(A, B) /\ hasSameVLMAX(A, B))
    <2>1. intersect(A, B) = Unknown
        BY <1>5 DEF intersect
    <2>2. Rank(Unknown) = 3
        BY DEF Rank, Unknown, isValid, isUnknown
    <2>3. A = Unknown \/ Rank(A) < 3
        BY <1>0 DEF Rank, isUnknown
    <2>. QED  BY <2>1, <2>2, <2>3, ConstantStates
<1>. QED  BY <1>1, <1>2, <1>3, <1>4, <1>5

LEMMA LatticeTransitive ==
    ASSUME NEW A, NEW B, NEW C, A.avl.kind \in {"imm", "reg", "vlmax"},
           hasSameAVLLatticeValue(A, B), hasSameAVLLatticeValue(B, C)
    PROVE  hasSameAVLLatticeValue(A, C)
<1>1. isKnown(A) /\ isKnown(C) /\ A.avl.kind = B.avl.kind /\ B.avl.kind = C.avl.kind
    BY DEF hasSameAVLLatticeValue
<1>2. CASE A.avl.kind = "reg"
    <2>1. \A part \in {"reg", "def", "copy"} : A.avl.vn[part] = B.avl.vn[part]
        BY <1>2, Zenon DEF hasSameAVLLatticeValue
    <2>2. \A part \in {"reg", "def", "copy"} : B.avl.vn[part] = C.avl.vn[part]
        BY <1>1, <1>2, Zenon DEF hasSameAVLLatticeValue
    <2>3. \A part \in {"reg", "def", "copy"} : A.avl.vn[part] = C.avl.vn[part]
        BY <2>1, <2>2
    <2>. QED  BY <1>1, <1>2, <2>3, Zenon DEF hasSameAVLLatticeValue
<1>3. CASE A.avl.kind = "imm"
    <2>0. A.avl.kind # "reg" /\ B.avl.kind # "reg" /\ B.avl.kind = "imm"
        BY <1>1, <1>3
    <2>1. A.avl.n = B.avl.n
        BY <1>3, <2>0, Zenon DEF hasSameAVLLatticeValue
    <2>2. B.avl.n = C.avl.n
        BY <2>0, Zenon DEF hasSameAVLLatticeValue
    <2>3. A.avl.n = C.avl.n
        BY <2>1, <2>2
    <2>. QED  BY <1>1, <1>3, <2>0, <2>3, Zenon DEF hasSameAVLLatticeValue
<1>4. CASE A.avl.kind = "vlmax"
    <2>0. A.avl.kind \notin {"reg", "imm"} /\ B.avl.kind \notin {"reg", "imm"}
          /\ B.avl.kind = "vlmax"
        BY <1>1, <1>4
    <2>1. hasSameVLMAX(A, B)
        BY <1>4, <2>0, Zenon DEF hasSameAVLLatticeValue
    <2>2. hasSameVLMAX(B, C)
        BY <2>0, Zenon DEF hasSameAVLLatticeValue
    <2>3. hasSameVLMAX(A, C)
        BY <2>1, <2>2 DEF hasSameVLMAX
    <2>. QED  BY <1>1, <1>4, <2>0, <2>3, Zenon DEF hasSameAVLLatticeValue
<1>. QED  BY <1>2, <1>3, <1>4

LEMMA LatticeSymmetric ==
    ASSUME NEW A, NEW B, A.avl.kind \in {"imm", "reg", "vlmax"}, hasSameAVLLatticeValue(A, B)
    PROVE  hasSameAVLLatticeValue(B, A)
<1>1. isKnown(A) /\ isKnown(B) /\ A.avl.kind = B.avl.kind
    BY DEF hasSameAVLLatticeValue
<1>2. CASE A.avl.kind # "vlmax"
    BY <1>1, <1>2, SameOfAVL
<1>3. CASE A.avl.kind = "vlmax"
    <2>0. A.avl.kind \notin {"reg", "imm"} /\ B.avl.kind \notin {"reg", "imm"}
        BY <1>1, <1>3
    <2>1. hasSameVLMAX(A, B)
        BY <1>3, <2>0, Zenon DEF hasSameAVLLatticeValue
    <2>2. hasSameVLMAX(B, A)
        BY <2>1 DEF hasSameVLMAX
    <2>. QED  BY <1>1, <1>3, <2>0, <2>2, Zenon DEF hasSameAVLLatticeValue
<1>. QED  BY <1>2, <1>3

\* A known state is one with an AVL.
LEMMA KnownState ==
    ASSUME NEW A \in States
    PROVE  /\ isKnown(A) => A.State = "AVL" /\ A.avl.kind \in {"imm", "reg", "vlmax"}
           /\ isValid(A) /\ ~isUnknown(A) => isKnown(A)
BY DEF States, PlainAVL, isKnown, isValid, isUnknown

LEMMA CoversTransitive ==
    ASSUME NEW A \in States, NEW B \in States, NEW C \in States, Covers(A, B), Covers(B, C)
    PROVE  Covers(A, C)
<1>1. CASE isUnknown(A) \/ ~isValid(C)
    BY <1>1 DEF Covers
<1>2. CASE ~isUnknown(A) /\ isValid(C)
    <2>1. ASSUME ~isValid(B) PROVE FALSE
        <3>1. ~isUnknown(B) /\ ~isKnown(B)
            BY <2>1 DEF isValid, isUnknown, isKnown
        <3>. QED  BY <1>2, <3>1, Zenon DEF Covers, hasSameAVLLatticeValue
    <2>2. /\ hasSameAVLLatticeValue(A, B) /\ hasSameVLMAX(A, B)
          /\ A.SEWLMULRatioOnly \/ (~B.SEWLMULRatioOnly /\ A.vt = B.vt)
        BY <1>2, <2>1 DEF Covers
    <2>3. isKnown(A) /\ isKnown(B)
        BY <2>2 DEF hasSameAVLLatticeValue
    <2>4. /\ hasSameAVLLatticeValue(B, C) /\ hasSameVLMAX(B, C)
          /\ B.SEWLMULRatioOnly \/ (~C.SEWLMULRatioOnly /\ B.vt = C.vt)
        BY <1>2, <2>3 DEF Covers, isKnown
    <2>5. hasSameAVLLatticeValue(A, C)
        BY <2>2, <2>3, <2>4, KnownState, LatticeTransitive
    <2>6. hasSameVLMAX(A, C)
        BY <2>2, <2>4 DEF hasSameVLMAX
    <2>. QED  BY <2>2, <2>4, <2>5, <2>6 DEF Covers
<1>. QED  BY <1>1, <1>2

\* Equal states cover one another.
LEMMA SameCovers ==
    ASSUME NEW A \in States, NEW B \in States, SameInfo(A, B)
    PROVE  Covers(A, B) /\ Covers(B, A)
<1>1. CASE ~isValid(A) /\ ~isValid(B)
    BY <1>1 DEF Covers
<1>2. CASE isUnknown(A) /\ isUnknown(B)
    BY <1>2 DEF Covers
<1>3. CASE /\ hasSameAVLLatticeValue(A, B)
           /\ A.SEWLMULRatioOnly = B.SEWLMULRatioOnly
           /\ IF A.SEWLMULRatioOnly THEN hasSameVLMAX(A, B) ELSE A.vt = B.vt
    <2>1. isKnown(A)
        BY <1>3 DEF hasSameAVLLatticeValue
    <2>2. hasSameAVLLatticeValue(B, A)
        BY <1>3, <2>1, KnownState, LatticeSymmetric
    <2>3. hasSameVLMAX(A, B) /\ hasSameVLMAX(B, A)
        BY <1>3 DEF hasSameVLMAX
    <2>4. A.SEWLMULRatioOnly \/ (~A.SEWLMULRatioOnly /\ A.vt = B.vt)
        BY <1>3
    <2>. QED  BY <1>3, <2>2, <2>3, <2>4, Zenon DEF Covers
<1>. QED  BY <1>1, <1>2, <1>3 DEF SameInfo

LEMMA CoversReflexive ==
    ASSUME NEW A \in States
    PROVE  Covers(A, A)
BY StateInfo, SameReflexive, SameCovers

\* Only Uninitialized is covered by Uninitialized, and Unknown by Unknown.
LEMMA CoversValid ==
    ASSUME NEW A, NEW C, Covers(A, C)
    PROVE  isValid(C) => isValid(A)
<1>1. ASSUME isValid(C), ~isValid(A) PROVE FALSE
    <2>1. ~isUnknown(A) /\ ~isKnown(A)
        BY <1>1 DEF isValid, isUnknown, isKnown
    <2>. QED  BY <1>1, <2>1, Zenon DEF Covers, hasSameAVLLatticeValue
<1>. QED  BY <1>1

LEMMA RankType == ASSUME NEW A PROVE Rank(A) \in 0..3
BY DEF Rank

\* A function has finitely many blocks, and none leads to the first.
LEMMA BlocksType ==
    ASSUME WellFormed(fn)
    PROVE  /\ Len(fn.code) \in Nat /\ Len(fn.code) >= 1 /\ 1 \in Blocks /\ IsFiniteSet(Blocks)
           /\ Cardinality(Blocks) = Len(fn.code) /\ predecessors(1) = {}
           /\ \A b \in Blocks : fn.code[b] \in Seq(Instruction) /\ fn.succ[b] \in SUBSET Blocks
<1>1. Len(fn.code) \in Nat /\ Len(fn.code) >= 1
    BY FunctionType DEF Blocks
<1>2. IsFiniteSet(Blocks) /\ Cardinality(Blocks) = Len(fn.code)
    BY <1>1, FS_Interval DEF Blocks
<1>3. \A b \in Blocks : fn.succ[b] \in SUBSET (2..Len(fn.code))
    BY FunctionType
<1>4. predecessors(1) = {}
    BY <1>3 DEF predecessors
<1>5. 1 \in Blocks /\ \A b \in Blocks : fn.succ[b] \in SUBSET Blocks
    BY <1>1, <1>3 DEF Blocks
<1>6. \A b \in Blocks : fn.code[b] \in Seq(Instruction)
    BY FunctionType
<1>. QED  BY <1>1, <1>2, <1>4, <1>5, <1>6

\* What is known at the start of a block covers what is known at the end of
\* each predecessor, and is what was known there, or less.
LEMMA IncomingCovers ==
    ASSUME WellFormed(fn), Pred \in [Blocks -> States], Exit \in [Blocks -> States],
           NEW b \in Blocks
    PROVE  /\ incomingInfo(b) \in States
           /\ SameInfo(incomingInfo(b), Pred[b]) \/ Rank(incomingInfo(b)) > Rank(Pred[b])
           /\ \A p \in predecessors(b) : Covers(incomingInfo(b), Exit[p])
<1> DEFINE S == predecessors(b)
           F == [q \in S \X States |-> intersect(q[2], Exit[q[1]])]
           any(s) == CHOOSE x \in s : TRUE
           ch == [s \in SUBSET S |-> any(s)]
           Ascends(A) == A = Pred[b] \/ Rank(A) > Rank(Pred[b])
           W == [s \in SUBSET S |-> {A \in States : Ascends(A) /\ \A p \in s : Covers(A, Exit[p])}]
           Eq(h) == h = [s \in SUBSET S |->
                            IF s = {} THEN Pred[b] ELSE intersect(h[s \ {any(s)}], Exit[any(s)])]
           met == CHOOSE h : Eq(h)
<1>1. IsFiniteSet(S) /\ \A p \in S : Exit[p] \in States
    <2>1. S \in SUBSET Blocks
        BY DEF predecessors
    <2>. QED  BY <2>1, BlocksType, FS_Subset
<1>2. F \in [S \X States -> States]
    <2> HIDE DEF S
    <2>. QED  BY <1>1, JoinStates
<1>3. \A s \in SUBSET S : s # {} => any(s) \in s
    OBVIOUS
<1>4. \A s \in SUBSET S : s # {} => ch[s] \in s
    BY <1>3
<1>5. Pred[b] \in States
    OBVIOUS
<1>6. Eq(met)
    <2>1. PICK g \in [SUBSET S -> States] : FoldEq(S, Pred[b], ch, F, g)
        <3> HIDE DEF S, F, ch
        <3>. QED  BY <1>1, <1>2, <1>4, <1>5, FoldSolution
    <2>2. ASSUME NEW s \in SUBSET S
          PROVE  g[s] = IF s = {} THEN Pred[b] ELSE intersect(g[s \ {any(s)}], Exit[any(s)])
        <3>1. CASE s = {}
            BY <2>1, <3>1 DEF FoldEq
        <3>2. CASE s # {}
            <4>1. ch[s] = any(s) /\ any(s) \in S /\ s \ {any(s)} \in SUBSET S
                BY <1>3, <3>2
            <4>2. g[s \ {any(s)}] \in States
                BY <4>1
            <4> HIDE DEF any
            <4>3. g[s] = F[<<any(s), g[s \ {any(s)}]>>]
                <5> HIDE DEF S, F
                <5>. QED  BY <2>1, <3>2, <4>1 DEF FoldEq
            <4> HIDE DEF S, ch
            <4>. QED  BY <3>2, <4>1, <4>2, <4>3
        <3>. QED  BY <3>1, <3>2
    <2>3. Eq(g)
        <3> HIDE DEF S, any
        <3>. QED  BY <2>2
    <2> HIDE DEF Eq
    <2>. QED  BY <2>3
<1>7. \A s \in SUBSET S : met[s] = IF s = {} THEN Pred[b]
                                   ELSE intersect(met[s \ {any(s)}], Exit[any(s)])
    <2> HIDE DEF met, any, S
    <2>. QED  BY <1>6
<1>8. incomingInfo(b) = IF S = {} THEN Unknown ELSE met[S]
    BY DEF incomingInfo, FoldSet, MapThenFoldSet
<1> HIDE DEF met, S, any
<1>9. met[{}] \in W[{}]
    BY <1>5, <1>7
<1>10. ASSUME NEW s \in SUBSET S, s # {}, met[s \ {ch[s]}] \in W[s \ {ch[s]}]
       PROVE  met[s] \in W[s]
    <2> DEFINE x == any(s)
               v == met[s \ {x}]
               J == intersect(v, Exit[x])
    <2>1. x \in s /\ x \in S /\ ch[s] = x /\ s \ {x} \in SUBSET S
        BY <1>3, <1>10
    <2>2. v \in States /\ Ascends(v) /\ \A p \in s \ {x} : Covers(v, Exit[p])
        BY <1>10, <2>1
    <2>3. met[s] = J
        BY <1>7, <1>10
    <2> HIDE DEF x, v
    <2>4. Exit[x] \in States
        BY <1>1, <2>1
    <2>5. J \in States /\ (J = v \/ Rank(J) > Rank(v))
        BY <2>2, <2>4, JoinStates
    <2>6. Covers(J, v) /\ Covers(J, Exit[x])
        BY <2>2, <2>4, JoinCovers, StateInfo
    <2> HIDE DEF J
    <2>7. Ascends(J)
        BY <2>2, <2>5, RankType
    <2>8. \A p \in s : Covers(J, Exit[p])
        <3>1. ASSUME NEW p \in s, p # x
              PROVE  Covers(J, Exit[p])
            <4>1. Covers(v, Exit[p]) /\ Exit[p] \in States
                BY <1>1, <2>2, <3>1
            <4>. QED  BY <2>2, <2>5, <2>6, <4>1, CoversTransitive
        <3>. QED  BY <2>6, <3>1
    <2>. QED  BY <2>3, <2>5, <2>7, <2>8
<1>11. \A s \in SUBSET S : met[s] \in W[s]
    <2> HIDE DEF W, ch
    <2>. QED  BY <1>1, <1>4, <1>9, <1>10, FoldWithin
<1>12. met[S] \in States /\ Ascends(met[S]) /\ \A p \in S : Covers(met[S], Exit[p])
    BY <1>11
<1>13. CASE S = {}
    <2>1. incomingInfo(b) = Unknown /\ Unknown \in States
        BY <1>8, <1>13, ConstantStates
    <2>2. SameInfo(Unknown, Pred[b]) \/ Rank(Unknown) > Rank(Pred[b])
        BY DEF SameInfo, Rank, Unknown, isValid, isUnknown
    <2>. QED  BY <1>13, <2>1, <2>2 DEF S
<1>14. CASE S # {}
    <2>1. incomingInfo(b) = met[S]
        BY <1>8, <1>14
    <2>2. SameInfo(Pred[b], Pred[b])
        BY <1>5, StateInfo, SameReflexive
    <2>. QED  BY <1>12, <2>1, <2>2 DEF S
<1>. QED  BY <1>13, <1>14
-----------------------------------------------------------------------------
(* The worklist.                                                            *)

\* The blocks of a queue.
Queued(q) == {q[i] : i \in 1..Len(q)}
\* A queue has each block once.
Queue(q) == q \in Seq(Blocks) /\ \A i, j \in 1..Len(q) : i # j => q[i] # q[j]

LEMMA SetToSeqType ==
    ASSUME NEW S, IsFiniteSet(S)
    PROVE  LET q == SetToSeq(S)
           IN  /\ q \in Seq(S) /\ \A i, j \in 1..Len(q) : i # j => q[i] # q[j]
               /\ \A x \in S : \E i \in 1..Len(q) : q[i] = x
<1> DEFINE n == Cardinality(S)
           q == SetToSeq(S)
<1>1. n \in Nat /\ \E f \in [1..n -> S] : IsInjective(f)
    BY FS_CardinalityType DEF ExistsBijection, Bijection, Injection
<1>2. q \in [1..n -> S] /\ IsInjective(q)
    BY <1>1 DEF SetToSeq
<1> HIDE DEF q
<1>3. q \in Seq(S) /\ Len(q) = n
    BY <1>1, <1>2
<1>4. \A i, j \in 1..Len(q) : i # j => q[i] # q[j]
    BY <1>2, <1>3 DEF IsInjective
<1>5. q \in Surjection(1..n, S)
    <2>1. q \in Injection(1..n, S)
        BY <1>2 DEF Injection
    <2>2. Cardinality(1..n) = n
        BY <1>1, FS_Interval
    <2>. QED  BY <1>1, <2>1, <2>2, FS_Injection
<1>6. \A x \in S : \E i \in 1..Len(q) : q[i] = x
    BY <1>3, <1>5 DEF Surjection
<1>. QED  BY <1>3, <1>4, <1>6 DEF q

LEMMA TailQueue ==
    ASSUME NEW q, Queue(q), q # <<>>
    PROVE  /\ Queue(Tail(q)) /\ Len(Tail(q)) = Len(q) - 1 /\ Head(q) \in Blocks
           /\ Head(q) \notin Queued(Tail(q)) /\ Queued(q) = Queued(Tail(q)) \cup {Head(q)}
<1> DEFINE t == Tail(q)
<1>0. q \in Seq(Blocks) /\ \A i, j \in 1..Len(q) : i # j => q[i] # q[j]
    BY DEF Queue
<1>1. /\ t \in Seq(Blocks) /\ Len(q) \in Nat /\ Len(q) > 0 /\ Len(t) = Len(q) - 1
      /\ Head(q) = q[1] /\ Head(q) \in Blocks
      /\ \A i \in 1..Len(t) : t[i] = q[i + 1]
    BY <1>0
<1> HIDE DEF t
<1>2. \A i \in 1..Len(t) : i + 1 \in 1..Len(q) /\ i + 1 # 1
    BY <1>1
<1>3. Queue(t)
    <2>1. ASSUME NEW i \in 1..Len(t), NEW j \in 1..Len(t), i # j
          PROVE  t[i] # t[j]
        <3>1. i + 1 # j + 1
            BY <1>1, <2>1
        <3>. QED  BY <1>0, <1>1, <1>2, <3>1
    <2>. QED  BY <1>1, <2>1 DEF Queue
<1>4. Head(q) \notin Queued(t)
    BY <1>0, <1>1, <1>2 DEF Queued
<1>5. Queued(q) = Queued(t) \cup {Head(q)}
    <2>1. ASSUME NEW i \in 1..Len(q), i # 1
          PROVE  i - 1 \in 1..Len(t) /\ t[i - 1] = q[i]
        BY <1>1, <2>1
    <2>2. 1 \in 1..Len(q)
        BY <1>1
    <2>. QED  BY <1>1, <1>2, <2>1, <2>2 DEF Queued
<1>. QED  BY <1>1, <1>3, <1>4, <1>5 DEF t

LEMMA EnqueuedQueue ==
    ASSUME WellFormed(fn), NEW q, Queue(q), NEW b \in Blocks
    PROVE  Queue(enqueued(q, b)) /\ Queued(enqueued(q, b)) = Queued(q) \cup fn.succ[b]
<1> DEFINE S == {s \in fn.succ[b] : \A i \in 1..Len(q) : q[i] # s}
           r == SetToSeq(S)
           e == enqueued(q, b)
<1>0. q \in Seq(Blocks) /\ \A i, j \in 1..Len(q) : i # j => q[i] # q[j]
    BY DEF Queue
<1>1. S \in SUBSET Blocks /\ IsFiniteSet(S)
    <2>1. S \in SUBSET Blocks
        BY BlocksType
    <2>. QED  BY <2>1, BlocksType, FS_Subset
<1>2. /\ r \in Seq(S) /\ \A i, j \in 1..Len(r) : i # j => r[i] # r[j]
      /\ \A x \in S : \E i \in 1..Len(r) : r[i] = x
    <2> HIDE DEF S
    <2>. QED  BY <1>1, SetToSeqType
<1>3. e = q \o r
    BY DEF enqueued
<1>4. /\ Len(q) \in Nat /\ Len(r) \in Nat /\ r \in Seq(Blocks)
      /\ \A i \in 1..Len(r) : r[i] \in S /\ r[i] \in Blocks
    <2> HIDE DEF r, S
    <2>. QED  BY <1>0, <1>1, <1>2
<1> HIDE DEF r, e
<1>5. /\ e \in Seq(Blocks) /\ Len(e) = Len(q) + Len(r)
      /\ \A i \in 1..Len(e) : e[i] = IF i <= Len(q) THEN q[i] ELSE r[i - Len(q)]
    BY <1>0, <1>3, <1>4
<1>6. ASSUME NEW i \in 1..Len(e)
      PROVE  IF i <= Len(q) THEN i \in 1..Len(q) ELSE i - Len(q) \in 1..Len(r)
    BY <1>4, <1>5
<1>7. ASSUME NEW i \in 1..Len(e), NEW j \in 1..Len(e), i # j
      PROVE  e[i] # e[j]
    <2>1. CASE i <= Len(q) /\ j <= Len(q)
        BY <1>0, <1>5, <1>6, <1>7, <2>1
    <2>2. CASE i <= Len(q) /\ ~(j <= Len(q))
        BY <1>4, <1>5, <1>6, <2>2
    <2>3. CASE ~(i <= Len(q)) /\ j <= Len(q)
        BY <1>4, <1>5, <1>6, <2>3
    <2>4. CASE ~(i <= Len(q)) /\ ~(j <= Len(q))
        <3>1. i - Len(q) # j - Len(q)
            BY <1>4, <1>5, <1>7
        <3>2. e[i] = r[i - Len(q)] /\ e[j] = r[j - Len(q)]
            BY <1>5, <2>4
        <3>3. i - Len(q) \in 1..Len(r) /\ j - Len(q) \in 1..Len(r)
            BY <1>6, <2>4
        <3>. QED  BY <1>2, <3>1, <3>2, <3>3
    <2>. QED  BY <2>1, <2>2, <2>3, <2>4
<1>8. Queue(e)
    BY <1>5, <1>7 DEF Queue
<1>9. \A i \in 1..Len(q) : i \in 1..Len(e) /\ e[i] = q[i]
    BY <1>4, <1>5
<1>10. \A i \in 1..Len(r) : i + Len(q) \in 1..Len(e) /\ e[i + Len(q)] = r[i]
    BY <1>4, <1>5
<1>11. Queued(e) \subseteq Queued(q) \cup fn.succ[b]
    BY <1>4, <1>5, <1>6 DEF Queued
<1>12. ASSUME NEW x \in Queued(q) \cup fn.succ[b]
       PROVE  x \in Queued(e)
    <2>1. CASE x \in Queued(q)
        BY <1>9, <2>1 DEF Queued
    <2>2. CASE x \notin Queued(q)
        <3>1. x \in S
            BY <2>2 DEF Queued
        <3>2. PICK i \in 1..Len(r) : r[i] = x
            BY <1>2, <3>1
        <3>. QED  BY <1>10, <3>2 DEF Queued
    <2>. QED  BY <2>1, <2>2
<1>. QED  BY <1>8, <1>11, <1>12 DEF e

\* A queue holds each block once at most.
LEMMA QueueLength ==
    ASSUME WellFormed(fn), NEW q, Queue(q)
    PROVE  Len(q) \in Nat /\ Len(q) <= Len(fn.code)
<1>1. q \in [1..Len(q) -> Blocks] /\ Len(q) \in Nat
    BY DEF Queue
<1>2. IsInjective(q)
    BY <1>1 DEF Queue, IsInjective
<1>3. q \in Injection(1..Len(q), Blocks)
    BY <1>1, <1>2 DEF Injection
<1>4. Cardinality(1..Len(q)) <= Cardinality(Blocks)
    BY <1>3, BlocksType, FS_Injection
<1>5. Cardinality(1..Len(q)) = Len(q)
    <2> DEFINE n == Len(q)
    <2>1. n \in Nat
        BY <1>1
    <2> HIDE DEF n
    <2>2. Cardinality(1..n) = n
        BY <2>1, FS_Interval
    <2>. QED  BY <2>2 DEF n
<1>. QED  BY <1>1, <1>4, <1>5, BlocksType
-----------------------------------------------------------------------------
(* While the function stays as it is, so does what its code does to a state. *)

LEMMA ChangesStable ==
    ASSUME fn' = fn, NEW code, NEW A
    PROVE  computeVLVTYPEChanges(code, A)' = computeVLVTYPEChanges(code, A)
BY DEF computeVLVTYPEChanges, FoldLeft, MapThenFoldSet, transferBefore, transferAfter,
       needVSETVLI, getDemanded, computeInfoForInstr, getInfoForVSETVLI, forwardVSETVLIAVL,
       operandAVL, isOutputVL, hasAVLDefMI, getAVLDefMI, Known, computeVLMAX
-----------------------------------------------------------------------------
(* The data flow of the pass.                                               *)

\* The start of block b is no more than what is known wherever it is entered.
Solved(b) ==
    /\ \A p \in predecessors(b) : Covers(Pred[b], Exit[p])
    /\ b = 1 => isUnknown(Pred[1])

\* The end of block b is what its code makes of its start.
ExitAgrees(b) == SameInfo(Exit[b], computeVLVTYPEChanges(Code[b], Pred[b]))

\* The data flow was solved: there are vector instructions, and the worklist is empty.
FlowDone ==
    phase \in {"pre", "emit", "coalesce"} \/ (phase \in {"run", "ended"} /\ isValid(Pred[1]))

\* The types of what the data flow reads and writes.
FlowType ==
    /\ fn \in Functions
    /\ phase \in {"collect", "incoming", "pre", "emit", "coalesce", "run", "ended"}
    /\ blk \in Blocks /\ Queue(WorkList)
    /\ Pred \in [Blocks -> States] /\ Exit \in [Blocks -> States]
    /\ phase \in {"collect", "incoming", "pre"} => Code \in [Blocks -> Seq(PlainItems)]

\* The inductive invariant of the data flow.
FlowInv ==
    /\ FlowType
    /\ phase \in {"collect", "incoming"} => blk = 1
    /\ phase = "collect" => \A b \in Blocks : Pred[b] = Uninitialized
    /\ phase = "incoming" => \A b \in Blocks : b \in Queued(WorkList) \/ Solved(b)
    /\ phase = "incoming" \/ (phase = "pre" /\ blk = 1) => \A b \in Blocks : ExitAgrees(b)
    /\ FlowDone => \A b \in Blocks : Solved(b) /\ (isValid(Pred[b]) => isValid(Exit[b]))

\* The function is well formed.
LEMMA FlowFunction ==
    ASSUME FlowType
    PROVE  WellFormed(fn)
BY FunctionsAssumption DEF FlowType

\* FlowInv holds before the pass.
LEMMA FlowInit ==
    ASSUME Init
    PROVE  FlowInv
<1>1. WellFormed(fn) /\ fn \in Functions /\ phase = "collect" /\ WorkList = <<>> /\ blk = 1
    BY FunctionsAssumption DEF Init
<1>2. /\ Pred = [b \in Blocks |-> Uninitialized] /\ Exit = Pred
      /\ Code = [b \in Blocks |-> [k \in 1..Len(fn.code[b]) |->
                    [was |-> fn.code[b][k], now |-> fn.code[b][k]]]]
    BY DEF Init
<1>3. Pred \in [Blocks -> States] /\ Exit \in [Blocks -> States]
    BY <1>1, <1>2, ConstantStates
<1>4. Queue(WorkList)
    BY <1>1 DEF Queue
<1>5. ASSUME NEW b \in Blocks
      PROVE  Code[b] \in Seq(PlainItems)
    <2> DEFINE n == Len(fn.code[b])
    <2>1. n \in Nat /\ \A k \in 1..n : fn.code[b][k] \in Instruction
        BY <1>1, BlocksType
    <2>2. ASSUME NEW k \in 1..n
          PROVE  [was |-> fn.code[b][k], now |-> fn.code[b][k]] \in PlainItems
        <3> DEFINE I == fn.code[b][k]
        <3>1. I \in Instruction
            BY <2>1
        <3>3. Plain(I)
            BY <1>1, InstructionPlain
        <3> HIDE DEF I
        <3>4. [was |-> I, now |-> I] \in PlainItems
            BY <3>1, <3>3 DEF PlainItems, Item
        <3>. QED  BY <3>4 DEF I
    <2>3. Code[b] = [k \in 1..n |-> [was |-> fn.code[b][k], now |-> fn.code[b][k]]]
        BY <1>2
    <2> HIDE DEF n
    <2>4. Code[b] \in [1..n -> PlainItems]
        BY <2>2, <2>3
    <2>. QED  BY <2>1, <2>4
<1>6. Code \in [Blocks -> Seq(PlainItems)]
    <2>1. Code = [b \in Blocks |-> Code[b]]
        BY <1>2
    <2>. QED  BY <1>5, <2>1
<1>7. 1 \in Blocks
    BY <1>1, BlocksType
<1>8. FlowType
    BY <1>1, <1>3, <1>4, <1>6, <1>7 DEF FlowType
<1>9. \A b \in Blocks : Pred[b] = Uninitialized
    BY <1>2
<1>. QED  BY <1>1, <1>8, <1>9 DEF FlowInv, FlowDone

\* The types belong to the function.
LEMMA TypesStable ==
    ASSUME fn' = fn
    PROVE  /\ Blocks' = Blocks /\ States' = States /\ PlainItems' = PlainItems
           /\ LegalType' = LegalType /\ PlainAVL' = PlainAVL
           /\ \A b : predecessors(b)' = predecessors(b)
           /\ \A q : Queue(q)' <=> Queue(q)
<1>1. LegalType' = LegalType
    BY DEF LegalType
<1>2. PlainAVL' = PlainAVL
    BY DEF PlainAVL, Canonical
<1>3. States' = States
    BY <1>1, <1>2 DEF States
<1>4. \A I : Plain(I)' <=> Plain(I)
    BY <1>1, <1>2 DEF Plain, operandAVL, Known
<1>5. PlainItems' = PlainItems
    BY <1>4 DEF PlainItems
<1>. QED  BY <1>1, <1>2, <1>3, <1>5 DEF Blocks, predecessors, Queue

\* Collecting what each block needs keeps FlowInv.
LEMMA FlowCollect ==
    ASSUME FlowInv, CollectBlocks
    PROVE  FlowInv'
<1>1. WellFormed(fn) /\ FlowType
    BY FlowFunction DEF FlowInv
<1>2. /\ phase = "collect" /\ blk = 1 /\ UNCHANGED <<fn, Code, Pred, blk>>
      /\ phase' \in {"incoming", "run"}
      /\ phase' = "incoming" => WorkList' = [b \in Blocks |-> b]
      /\ phase' # "incoming" => WorkList' = <<>>
      /\ Exit' = [b \in Blocks |-> computeVLVTYPEChanges(Code[b], Uninitialized)]
    BY DEF CollectBlocks, FlowInv, hartVars
<1>3. \A b \in Blocks : Pred[b] = Uninitialized
    BY <1>2 DEF FlowInv
<1>4. \A b \in Blocks : Exit'[b] \in States
    <2>1. \A b \in Blocks : Code[b] \in Seq(PlainItems)
        BY <1>1, <1>2 DEF FlowType
    <2>. QED  BY <1>1, <1>2, <2>1, ChangesType, ConstantStates
<1>5. (Queue(WorkList) /\ (phase = "incoming" => \A b \in Blocks : b \in Queued(WorkList)))'
    <2> DEFINE q == [b \in Blocks |-> b]
    <2>1. Queue(q) /\ \A b \in Blocks : b \in Queued(q)
        BY <1>1, BlocksType DEF Queue, Queued, Blocks
    <2>2. Queue(<<>>)
        BY DEF Queue
    <2>3. Queue(q)' = Queue(q) /\ Queue(<<>>)' = Queue(<<>>) /\ Blocks' = Blocks
        BY <1>2 DEF Queue, Blocks
    <2>4. CASE phase' = "incoming"
        <3>1. WorkList' = q
            BY <1>2, <2>4
        <3> HIDE DEF q
        <3>2. Queue(WorkList)' /\ \A b \in Blocks : b \in Queued(WorkList)'
            BY <1>2, <2>1, <3>1 DEF Queue, Queued, Blocks
        <3>. QED  BY <2>3, <3>2
    <2>5. CASE phase' # "incoming"
        BY <1>2, <2>2, <2>5 DEF Queue, Blocks
    <2>. QED  BY <2>4, <2>5
<1>6. FlowType'
    <2>1. Exit' \in [Blocks -> States]
        BY <1>2, <1>4
    <2>2. Blocks' = Blocks /\ States' = States /\ PlainItems' = PlainItems
        BY <1>2, TypesStable
    <2>. QED  BY <1>1, <1>2, <1>5, <2>1, <2>2 DEF FlowType
<1>7. \A b \in Blocks : SameInfo(Exit'[b], computeVLVTYPEChanges(Code[b], Pred[b]))
    BY <1>2, <1>3, <1>4, StateInfo, SameReflexive
<1>8. (\A b \in Blocks : ExitAgrees(b))'
    <2>1. \A b \in Blocks : ExitAgrees(b)'
        BY <1>2, <1>7, ChangesStable DEF ExitAgrees
    <2>. QED  BY <1>2, <2>1 DEF Blocks
<1>9. ~FlowDone'
    <2>1. Pred'[1] = Uninitialized
        BY <1>1, <1>2, <1>3, BlocksType
    <2>. QED  BY <1>2, <2>1 DEF FlowDone, isValid, Uninitialized
<1>. QED  BY <1>2, <1>5, <1>6, <1>8, <1>9 DEF FlowInv

\* In a step of the worklist b is its block, J is known at the start of b and T
\* then at its end, and q is the rest of the queue.  The step changes what is
\* known at the start of b.
Changes(b, J) == isValid(J) /\ ~SameInfo(J, Pred[b])
\* The step changes what is known at the end of b.
Propagates(b, J, T) == Changes(b, J) /\ ~SameInfo(Exit[b], T)
\* What the step leaves behind.
Step(b, J, T, q) ==
    /\ b \in Blocks /\ J \in States /\ T \in States /\ (isValid(J) => isValid(T))
    /\ Queue(q) /\ b \notin Queued(q) /\ Queued(WorkList) = Queued(q) \cup {b}
    /\ Len(q) = Len(WorkList) - 1
    /\ SameInfo(J, Pred[b]) \/ Rank(J) > Rank(Pred[b])
    /\ \A p \in predecessors(b) : Covers(J, Exit[p])
    /\ b = 1 => J = Unknown
    /\ T = computeVLVTYPEChanges(Code[b], J)
    /\ Pred' = IF Changes(b, J) THEN [Pred EXCEPT ![b] = J] ELSE Pred
    /\ Exit' = IF Propagates(b, J, T) THEN [Exit EXCEPT ![b] = T] ELSE Exit
    /\ WorkList' = IF Propagates(b, J, T) THEN enqueued(q, b) ELSE q
    /\ phase = "incoming" /\ UNCHANGED <<fn, phase, Code, blk>>

\* computeIncomingVLVTYPE is such a step.
LEMMA IncomingStep ==
    ASSUME FlowInv, ComputeIncomingVLVTYPE
    PROVE  \E b, J, T, q : Step(b, J, T, q)
<1> DEFINE b == Head(WorkList)
           J == incomingInfo(b)
           T == computeVLVTYPEChanges(Code[b], J)
           q == Tail(WorkList)
<1>1. WellFormed(fn) /\ FlowType /\ phase = "incoming" /\ WorkList # <<>>
    BY FlowFunction DEF FlowInv, ComputeIncomingVLVTYPE
<1>2. Queue(WorkList)
    BY <1>1 DEF FlowType
<1>3. /\ b \in Blocks /\ Queue(q) /\ b \notin Queued(q)
      /\ Queued(WorkList) = Queued(q) \cup {b} /\ Len(q) = Len(WorkList) - 1
    BY <1>1, <1>2, TailQueue
<1>4. /\ J \in States
      /\ SameInfo(J, Pred[b]) \/ Rank(J) > Rank(Pred[b])
      /\ \A p \in predecessors(b) : Covers(J, Exit[p])
    <2> HIDE DEF b
    <2>. QED  BY <1>1, <1>3, IncomingCovers DEF FlowType
<1>5. T \in States /\ (isValid(J) => isValid(T))
    <2>1. Code[b] \in Seq(PlainItems)
        BY <1>1, <1>3 DEF FlowType
    <2> HIDE DEF b, J
    <2>. QED  BY <1>1, <1>4, <2>1, ChangesType
<1>6. b = 1 => J = Unknown
    BY <1>1, BlocksType DEF incomingInfo
<1>7. /\ Pred' = IF Changes(b, J) THEN [Pred EXCEPT ![b] = J] ELSE Pred
      /\ Exit' = IF Propagates(b, J, T) THEN [Exit EXCEPT ![b] = T] ELSE Exit
      /\ WorkList' = IF Propagates(b, J, T) THEN enqueued(q, b) ELSE q
      /\ UNCHANGED <<fn, phase, Code, blk>>
    BY DEF ComputeIncomingVLVTYPE, hartVars, Changes, Propagates
<1>8. T = computeVLVTYPEChanges(Code[b], J)
    OBVIOUS
<1> HIDE DEF b, J, T, q
<1>9. Step(b, J, T, q)
    BY <1>1, <1>3, <1>4, <1>5, <1>6, <1>7, <1>8 DEF Step
<1>. QED  BY <1>9

\* computeIncomingVLVTYPE keeps FlowInv.
LEMMA FlowIncoming ==
    ASSUME FlowInv, ComputeIncomingVLVTYPE
    PROVE  FlowInv'
<1>0. PICK b, J, T, q : Step(b, J, T, q)
    BY IncomingStep
<1> DEFINE changes == Changes(b, J)
           propagates == Propagates(b, J, T)
           w == enqueued(q, b)
<1>1. /\ WellFormed(fn) /\ b \in Blocks /\ J \in States /\ T \in States
      /\ isValid(J) => isValid(T)
      /\ Queue(q) /\ b \notin Queued(q) /\ Queued(WorkList) = Queued(q) \cup {b}
      /\ \A p \in predecessors(b) : Covers(J, Exit[p])
      /\ b = 1 => J = Unknown
      /\ T = computeVLVTYPEChanges(Code[b], J)
      /\ Pred' = IF changes THEN [Pred EXCEPT ![b] = J] ELSE Pred
      /\ Exit' = IF propagates THEN [Exit EXCEPT ![b] = T] ELSE Exit
      /\ WorkList' = IF propagates THEN w ELSE q
      /\ phase = "incoming" /\ blk = 1 /\ UNCHANGED <<fn, phase, Code, blk>>
      /\ propagates <=> changes /\ ~SameInfo(Exit[b], T)
      /\ changes <=> isValid(J) /\ ~SameInfo(J, Pred[b])
    BY <1>0, FlowFunction DEF Step, FlowInv, Changes, Propagates
<1>9. Unknown.State = "Unknown" /\ isUnknown(Unknown) /\ isValid(Unknown)
    BY DEF Unknown, isUnknown, isValid
<1>2. /\ FlowType /\ Pred \in [Blocks -> States] /\ Exit \in [Blocks -> States]
      /\ \A c \in Blocks : c \in Queued(WorkList) \/ Solved(c)
      /\ \A c \in Blocks : ExitAgrees(c)
    BY <1>1 DEF FlowInv, FlowType
<1>3. Queue(w) /\ Queued(w) = Queued(q) \cup fn.succ[b]
    BY <1>1, EnqueuedQueue
<1> HIDE DEF w, changes, propagates
<1>4. fn' = fn /\ Blocks' = Blocks /\ States' = States /\ PlainItems' = PlainItems
      /\ (\A c : predecessors(c)' = predecessors(c)) /\ (\A r : Queue(r)' <=> Queue(r))
    BY <1>1, TypesStable
<1>5. WorkList' = IF propagates THEN w ELSE q
    BY <1>1
<1>6. FlowType'
    <2>1. Pred' \in [Blocks -> States] /\ Exit' \in [Blocks -> States]
        BY <1>1, <1>2
    <2>2. Queue(WorkList)'
        BY <1>1, <1>3, <1>4, <1>5 DEF Queue
    <2>. QED  BY <1>1, <1>2, <1>4, <2>1, <2>2 DEF FlowType
<1>7. ASSUME NEW c \in Blocks
      PROVE  c \in Queued(WorkList)' \/ Solved(c)'
    <2>1. Solved(c)' <=> /\ \A p \in predecessors(c) : Covers(Pred'[c], Exit'[p])
                         /\ c = 1 => isUnknown(Pred'[1])
        BY <1>4 DEF Solved
    <2>2. Queued(WorkList)' = IF propagates THEN Queued(w) ELSE Queued(q)
        BY <1>5 DEF Queued
    <2>3. ASSUME c \notin Queued(WorkList)'
          PROVE  Solved(c)'
        <3>1. c \notin Queued(q) /\ (propagates => c \notin fn.succ[b])
            BY <1>3, <2>2, <2>3
        <3>2. ASSUME NEW p \in predecessors(c)
              PROVE  Exit'[p] = Exit[p] /\ p \in Blocks /\ Exit[p] \in States
            <4>1. p \in Blocks /\ c \in fn.succ[p]
                BY <3>2 DEF predecessors
            <4>2. propagates => p # b
                BY <3>1, <4>1
            <4>. QED  BY <1>1, <1>2, <4>1, <4>2
        <3>3. CASE c # b
            <4>1. Solved(c)
                BY <1>1, <1>2, <3>1, <3>3
            <4>2. Pred'[c] = Pred[c] /\ (c = 1 => Pred'[1] = Pred[1])
                BY <1>1, <1>2, <3>3
            <4>. QED  BY <2>1, <3>2, <4>1, <4>2 DEF Solved
        <3>4. CASE c = b /\ changes
            <4>1. Pred'[c] = J
                BY <1>1, <1>2, <3>4
            <4>2. c = 1 => isUnknown(Pred'[1])
                BY <1>1, <1>9, <3>4, <4>1
            <4>. QED  BY <1>1, <2>1, <3>2, <3>4, <4>1, <4>2
        <3>5. CASE c = b /\ ~changes
            <4>1. Pred'[c] = Pred[c] /\ Pred[c] \in States /\ Pred' = Pred
                BY <1>1, <1>2, <3>5
            <4>2. CASE ~isValid(J)
                <5>1. ASSUME NEW p \in predecessors(c)
                      PROVE  Covers(Pred'[c], Exit'[p])
                    <6>1. ~isValid(Exit[p])
                        BY <1>1, <3>5, <4>2, <5>1, CoversValid
                    <6>. QED  BY <3>2, <6>1 DEF Covers
                <5>2. c # 1
                    BY <1>1, <1>9, <3>5, <4>2
                <5>. QED  BY <2>1, <5>1, <5>2
            <4>3. CASE isValid(J)
                <5>1. SameInfo(J, Pred[c])
                    BY <1>1, <3>5, <4>3
                <5>2. Covers(Pred[c], J)
                    BY <1>1, <4>1, <5>1, SameCovers
                <5>3. ASSUME NEW p \in predecessors(c)
                      PROVE  Covers(Pred'[c], Exit'[p])
                    BY <1>1, <3>2, <3>5, <4>1, <5>2, CoversTransitive
                <5>4. c = 1 => isUnknown(Pred'[1])
                    <6>1. SameInfo(Unknown, Pred[c]) => isUnknown(Pred[c])
                        BY DEF SameInfo, Unknown, isValid, isUnknown, isKnown,
                               hasSameAVLLatticeValue
                    <6>. QED  BY <1>1, <3>5, <4>1, <5>1, <6>1
                <5>. QED  BY <2>1, <5>3, <5>4
            <4>. QED  BY <4>2, <4>3
        <3>. QED  BY <3>3, <3>4, <3>5
    <2>. QED  BY <2>3
<1>8. ASSUME NEW c \in Blocks
      PROVE  ExitAgrees(c)'
    <2>1. ExitAgrees(c)' <=> SameInfo(Exit'[c], computeVLVTYPEChanges(Code[c], Pred'[c]))
        BY <1>1, <1>4, ChangesStable DEF ExitAgrees
    <2>2. CASE c # b
        <3>1. Exit'[c] = Exit[c] /\ Pred'[c] = Pred[c]
            BY <1>1, <1>2, <2>2
        <3>. QED  BY <1>2, <2>1, <3>1 DEF ExitAgrees
    <2>3. CASE c = b /\ changes
        <3>1. Pred'[c] = J /\ computeVLVTYPEChanges(Code[c], J) = T
            BY <1>1, <1>2, <2>3
        <3>2. SameInfo(Exit'[c], T)
            <4>1. CASE propagates
                <5>1. Exit'[c] = T
                    BY <1>1, <1>2, <2>3, <4>1
                <5>. QED  BY <1>1, <5>1, StateInfo, SameReflexive
            <4>2. CASE ~propagates
                BY <1>1, <2>3, <4>2
            <4>. QED  BY <4>1, <4>2
        <3>. QED  BY <2>1, <3>1, <3>2
    <2>4. CASE c = b /\ ~changes
        <3>1. Exit'[c] = Exit[c] /\ Pred'[c] = Pred[c]
            BY <1>1, <1>2, <2>4
        <3>. QED  BY <1>2, <2>1, <3>1 DEF ExitAgrees
    <2>. QED  BY <2>2, <2>3, <2>4
<1>. QED  BY <1>1, <1>4, <1>6, <1>7, <1>8 DEF FlowInv, FlowDone

\* How far the states at the starts of the blocks are from saying nothing.
Headroom == {z \in Blocks \X (1..3) : z[2] > Rank(Pred[z[1]])}
\* What each step of the worklist makes smaller.
Variant == Cardinality(Headroom) * (Len(fn.code) + 1) + Len(WorkList)

\* Where the headroom shrinks, the worklist may grow by a block for each block.
LEMMA SmallerVariant ==
    ASSUME NEW c \in Nat, NEW d \in Nat, d < c, NEW n \in Nat, NEW k \in Nat, NEW l \in Nat,
           k > 0, l <= n
    PROVE  d * (n + 1) + l < c * (n + 1) + k
<1> DEFINE e == c - d - 1
           m == n + 1
<1>1. e \in Nat /\ c = d + 1 + e /\ m \in Nat /\ l < m
    OBVIOUS
<1> HIDE DEF e, m
<1>2. c * m = d * m + m + e * m
    BY <1>1
<1>3. e * m \in Nat /\ d * m \in Nat
    BY <1>1
<1>4. d * m + l < c * m + k
    BY <1>1, <1>2, <1>3
<1>. QED  BY <1>4 DEF m

LEMMA HeadroomFinite ==
    ASSUME WellFormed(fn)
    PROVE  IsFiniteSet(Headroom)
<1>1. IsFiniteSet(1..3)
    <2>1. \A n \in Nat : IsFiniteSet(1..n)
        BY FS_Interval
    <2>. QED  BY <2>1
<1>2. IsFiniteSet(Blocks \X (1..3))
    BY <1>1, BlocksType, FS_Product
<1>. QED  BY <1>2, FS_Subset DEF Headroom

\* Each step of the worklist makes the variant smaller.
LEMMA VariantSmaller ==
    ASSUME FlowInv, ComputeIncomingVLVTYPE
    PROVE  /\ Variant' < Variant
           /\ \A b \in Blocks : Pred'[b] = Pred[b] \/ Rank(Pred'[b]) > Rank(Pred[b])
<1>1. PICK b, J, T, q : Step(b, J, T, q)
    BY IncomingStep
<1>2. /\ WellFormed(fn) /\ b \in Blocks /\ Queue(q) /\ Len(q) = Len(WorkList) - 1 /\ fn' = fn
      /\ Queue(WorkList) /\ Pred \in [Blocks -> States]
      /\ SameInfo(J, Pred[b]) \/ Rank(J) > Rank(Pred[b])
      /\ Pred' = IF Changes(b, J) THEN [Pred EXCEPT ![b] = J] ELSE Pred
      /\ WorkList' = IF Propagates(b, J, T) THEN enqueued(q, b) ELSE q
    BY <1>1, FlowFunction DEF Step, FlowInv, FlowType
<1>3. \A c : Rank(c) \in 0..3
    BY RankType
<1>4. /\ Len(WorkList) \in Nat /\ Len(q) \in Nat /\ Len(enqueued(q, b)) \in Nat
      /\ Len(enqueued(q, b)) <= Len(fn.code) /\ Len(q) <= Len(fn.code) /\ Len(fn.code) \in Nat
    BY <1>2, QueueLength, EnqueuedQueue, BlocksType
<1>5. IsFiniteSet(Headroom) /\ Cardinality(Headroom) \in Nat
    BY <1>2, HeadroomFinite, FS_CardinalityType
<1>6. Headroom' = {z \in Blocks \X (1..3) : z[2] > Rank(Pred'[z[1]])}
    BY <1>2 DEF Headroom, Blocks
<1>7. Variant' = Cardinality(Headroom') * (Len(fn.code) + 1) + Len(WorkList')
    BY <1>2 DEF Variant
<1>8. CASE Changes(b, J)
    <2>1. Pred' = [Pred EXCEPT ![b] = J] /\ Rank(J) > Rank(Pred[b])
        BY <1>2, <1>8 DEF Changes
    <2>2. \A c \in Blocks : Pred'[c] = Pred[c] \/ Rank(Pred'[c]) > Rank(Pred[c])
        BY <1>2, <2>1
    <2> DEFINE z == <<b, Rank(J)>>
    <2>3. Rank(J) \in 1..3
        BY <1>3, <2>1
    <2>4. z \in Headroom
        BY <1>2, <2>1, <2>3 DEF Headroom
    <2>5. z \notin Headroom'
        <3>1. Pred'[b] = J
            BY <1>2, <2>1
        <3>. QED  BY <1>3, <1>6, <3>1
    <2>6. ASSUME NEW y \in Headroom'
          PROVE  y \in Headroom
        <3>1. y \in Blocks \X (1..3) /\ y[2] > Rank(Pred'[y[1]])
            BY <1>6
        <3>2. y[1] \in Blocks /\ y[2] \in 1..3
            BY <3>1
        <3>3. y[2] > Rank(Pred[y[1]])
            BY <1>3, <2>2, <3>1, <3>2
        <3>. QED  BY <3>1, <3>3 DEF Headroom
    <2> HIDE DEF z
    <2>7. Headroom' \in SUBSET (Headroom \ {z})
        BY <2>5, <2>6
    <2>8. IsFiniteSet(Headroom \ {z}) /\ Cardinality(Headroom \ {z}) = Cardinality(Headroom) - 1
        BY <1>5, <2>4, FS_RemoveElement
    <2>9. /\ Cardinality(Headroom') \in Nat
          /\ Cardinality(Headroom') <= Cardinality(Headroom \ {z})
        BY <2>7, <2>8, FS_Subset, FS_CardinalityType
    <2>10. Len(WorkList') \in Nat /\ Len(WorkList') <= Len(fn.code) /\ Len(WorkList) > 0
        BY <1>2, <1>4
    <2>11. Cardinality(Headroom') < Cardinality(Headroom)
        BY <1>5, <2>8, <2>9
    <2>12. Variant' < Variant
        BY <1>4, <1>5, <1>7, <2>9, <2>10, <2>11, SmallerVariant DEF Variant
    <2>. QED  BY <2>2, <2>12
<1>9. CASE ~Changes(b, J)
    <2>1. Pred' = Pred /\ WorkList' = q
        BY <1>2, <1>9 DEF Propagates
    <2>2. Headroom' = Headroom
        BY <1>6, <2>1 DEF Headroom
    <2>3. Cardinality(Headroom) * (Len(fn.code) + 1) \in Nat
        BY <1>4, <1>5
    <2>4. Variant' = Cardinality(Headroom) * (Len(fn.code) + 1) + Len(q)
        BY <1>7, <2>1, <2>2
    <2> HIDE DEF Headroom
    <2>5. Variant' < Variant
        <3> DEFINE m == Cardinality(Headroom) * (Len(fn.code) + 1)
        <3>1. m \in Nat /\ Variant = m + Len(WorkList) /\ Variant' = m + Len(q)
            BY <2>3, <2>4 DEF Variant
        <3> HIDE DEF m
        <3>. QED  BY <1>2, <1>4, <3>1
    <2>. QED  BY <2>1, <2>5
<1>. QED  BY <1>8, <1>9

\* The end of the data flow keeps FlowInv.
LEMMA FlowStartPRE ==
    ASSUME FlowInv, StartPRE
    PROVE  FlowInv'
<1>1. /\ WellFormed(fn) /\ FlowType /\ phase = "incoming" /\ phase' = "pre" /\ WorkList = <<>>
      /\ fn' = fn /\ UNCHANGED <<Code, Pred, Exit, WorkList, blk>> /\ blk = 1
    BY FlowFunction DEF StartPRE, FlowInv, passVars
<1>2. \A b \in Blocks : Solved(b) /\ ExitAgrees(b)
    BY <1>1 DEF FlowInv, Queued
<1>3. fn' = fn /\ Blocks' = Blocks /\ States' = States /\ PlainItems' = PlainItems
      /\ (\A c : predecessors(c)' = predecessors(c)) /\ (\A r : Queue(r)' <=> Queue(r))
    BY <1>1, TypesStable
<1>4. FlowType'
    <2>1. Queue(WorkList)'
        BY <1>1 DEF FlowType, Queue, Blocks
    <2>. QED  BY <1>1, <1>3, <2>1 DEF FlowType
<1>5. ASSUME NEW b \in Blocks
      PROVE  Solved(b)' /\ ExitAgrees(b)' /\ (isValid(Pred[b]) => isValid(Exit[b]))
    <2>1. Solved(b)'
        BY <1>1, <1>2, <1>3 DEF Solved
    <2>2. ExitAgrees(b)'
        BY <1>1, <1>2, ChangesStable DEF ExitAgrees
    <2>3. isValid(Pred[b]) => isValid(Exit[b])
        <3> DEFINE T == computeVLVTYPEChanges(Code[b], Pred[b])
        <3>1. Pred[b] \in States /\ Exit[b] \in States /\ Code[b] \in Seq(PlainItems)
            BY <1>1 DEF FlowType
        <3>2. T \in States /\ (isValid(Pred[b]) => isValid(T))
            BY <1>1, <3>1, ChangesType
        <3>3. SameInfo(Exit[b], T)
            BY <1>2 DEF ExitAgrees
        <3> HIDE DEF T
        <3>4. Covers(Exit[b], T)
            BY <3>1, <3>2, <3>3, SameCovers
        <3>. QED  BY <3>2, <3>4, CoversValid
    <2>. QED  BY <2>1, <2>2, <2>3
<1>. QED  BY <1>1, <1>3, <1>4, <1>5 DEF FlowInv, FlowDone

\* A copy of a value is one that an AVL may have.
LEMMA AvailableType ==
    ASSUME NEW p, NEW a \in PlainAVL
    PROVE  availableAVL(p, a) \in PlainAVL
<1>1. CASE a.kind = "reg" /\ fn.out[p][a.vn.reg] # a.vn.def
    <2> DEFINE v == [a.vn EXCEPT !.copy = TRUE, !.nonZero = FALSE]
    <2>1. availableAVL(p, a) = [a EXCEPT !.vn = v]
        BY <1>1 DEF availableAVL
    <2>2. a \in AVL /\ a = AVLReg(a.vn) /\ a.vn \in Value
        BY <1>1 DEF PlainAVL, Canonical, AVL
    <2>3. v \in Value /\ v.reg = a.vn.reg /\ v.def = a.vn.def /\ v.copy /\ ~v.nonZero
        BY <2>2 DEF Value
    <2> HIDE DEF v
    <2>4. availableAVL(p, a) = AVLReg(v)
        BY <2>1, <2>2 DEF AVLReg
    <2>5. AVLReg(v) \in AVL /\ AVLReg(v).kind = "reg" /\ AVLReg(v).vn = v
        BY <2>3 DEF AVLReg, AVL
    <2>. QED  BY <1>1, <2>3, <2>4, <2>5 DEF PlainAVL, Canonical
<1>2. CASE ~(a.kind = "reg" /\ fn.out[p][a.vn.reg] # a.vn.def)
    BY <1>2 DEF availableAVL
<1>. QED  BY <1>1, <1>2

\* The operand of a vset that is inserted.
LEMMA OperandAgain ==
    ASSUME NEW a \in PlainAVL
    PROVE  operandAVL(a) \in PlainAVL
<1>1. CASE a.kind = "reg"
    <2> DEFINE v == Known(a.vn)
    <2>1. operandAVL(a) = AVLReg(v) /\ a.vn \in Value
        BY <1>1 DEF operandAVL, PlainAVL, AVL
    <2>2. /\ v \in Value /\ v.reg = a.vn.reg /\ v.copy = a.vn.copy
          /\ fn.LIS => v = a.vn
          /\ ~fn.LIS => v.def = NoPlace /\ ~v.nonZero
        BY <2>1, KnownType DEF Known, Value
    <2> HIDE DEF v
    <2>3. v.nonZero <=> ~v.copy /\ v.def \in NonZerosOf(fn)
        BY <1>1, <2>2, NoPlaceDefined DEF PlainAVL, Canonical
    <2>4. AVLReg(v) \in AVL /\ AVLReg(v).kind = "reg" /\ AVLReg(v).vn = v
        BY <2>2 DEF AVLReg, AVL
    <2>. QED  BY <1>1, <2>1, <2>2, <2>3, <2>4 DEF PlainAVL, Canonical
<1>2. CASE a.kind # "reg"
    BY <1>2 DEF operandAVL, PlainAVL
<1>. QED  BY <1>1, <1>2

LEMMA NoInstructionType ==
    /\ NoInstruction \in Instruction /\ NoInstruction.kind = "none"
    /\ NoInstruction.avl = NoAVL /\ NoInstruction.vt = NoVType
    /\ NoInstruction.dst = NoValue /\ ~NoInstruction.readsVL
BY ValueTypes DEF NoInstruction, Instruction, VectorOps, NoVType, VType

\* A vset that is inserted.
LEMMA VsetType ==
    ASSUME NEW a \in AVL, NEW vt \in VType
    PROVE  /\ Vset(a, vt) \in Instruction /\ Vset(a, vt).kind = "vset"
           /\ Vset(a, vt).avl = a /\ Vset(a, vt).vt = vt /\ Vset(a, vt).dst = NoValue
           /\ Vset(a, vt).readsVL <=> a.kind = "keep"
<1>1. Vset(a, vt) = [NoInstruction EXCEPT !.kind = "vset", !.avl = a, !.vt = vt,
                                          !.readsVL = (a.kind = "keep")]
    BY DEF Vset
<1>2. (a.kind = "keep") \in BOOLEAN
    OBVIOUS
<1>. QED  BY <1>1, <1>2, NoInstructionType DEF Instruction

LEMMA VsetPlain ==
    ASSUME NEW a \in PlainAVL, NEW vt \in LegalType
    PROVE  Vset(a, vt) \in Instruction /\ Plain(Vset(a, vt))
<1>1. a \in AVL /\ vt \in VType /\ a.kind # "keep"
    BY DEF PlainAVL, LegalType
<1>. QED  BY <1>1, VsetType, OperandAgain DEF Plain

\* What partial redundancy elimination finds: p is the one predecessor at the
\* end of which nothing is known, and A is known at the end of the others.
LEMMA PREAvailable ==
    ASSUME FlowInv, phase = "pre", canPRE(blk)
    PROVE  LET A == availableInfo(blk)
           IN  /\ A \in States /\ A.State = "AVL" /\ blk # 1 /\ isUnknown(Pred[blk])
               /\ \E p \in Blocks :
                     /\ unavailable(blk) = {p} /\ fn.succ[p] = {blk}
                     /\ Vset(availableAVL(p, A.avl), A.vt) \in Instruction
                     /\ Plain(Vset(availableAVL(p, A.avl), A.vt))
               /\ \A q \in predecessors(blk) \ unavailable(blk) : SameInfo(A, Exit[q])
<1> DEFINE A == availableInfo(blk)
           others == predecessors(blk) \ unavailable(blk)
<1>1. /\ WellFormed(fn) /\ blk \in Blocks /\ Exit \in [Blocks -> States]
    BY FlowFunction DEF FlowInv, FlowType
<1>2. /\ isUnknown(Pred[blk]) /\ Cardinality(unavailable(blk)) = 1 /\ isValid(A)
      /\ \A q \in others : SameInfo(A, Exit[q])
      /\ \A p \in unavailable(blk) : fn.succ[p] = {blk}
    BY DEF canPRE
<1>3. unavailable(blk) \in SUBSET Blocks /\ IsFiniteSet(unavailable(blk))
    <2>1. unavailable(blk) \in SUBSET Blocks
        BY DEF unavailable, predecessors
    <2>. QED  BY <1>1, <2>1, BlocksType, FS_Subset
<1>4. PICK p : unavailable(blk) = {p}
    BY <1>2, <1>3, FS_Singleton
<1>5. blk # 1
    BY <1>1, <1>4, BlocksType DEF unavailable
<1>6. others # {} /\ A = Exit[Min(others)]
    <2>1. ~isValid(Uninitialized)
        BY DEF isValid, Uninitialized
    <2>. QED  BY <1>2, <2>1 DEF availableInfo
<1>7. Min(others) \in others
    <2>1. others \in SUBSET (1..Len(fn.code)) /\ Len(fn.code) \in Nat
        BY <1>1, BlocksType DEF predecessors, Blocks
    <2> HIDE DEF others
    <2>. QED  BY <1>6, <2>1, MinMax
<1>8. A \in States /\ ~isUnknown(A)
    <2>1. Min(others) \in Blocks /\ ~isUnknown(Exit[Min(others)])
        BY <1>7 DEF unavailable, predecessors
    <2>. QED  BY <1>1, <1>6, <2>1
<1>9. A.State = "AVL" /\ A.avl \in PlainAVL /\ A.vt \in LegalType
    BY <1>2, <1>8 DEF States, isUnknown, isValid
<1> HIDE DEF A, others
<1> DEFINE a == availableAVL(p, A.avl)
           V == Vset(a, A.vt)
<1>10. a \in PlainAVL
    BY <1>9, AvailableType
<1> HIDE DEF a
<1>11. V \in Instruction /\ Plain(V)
    BY <1>9, <1>10, VsetPlain
<1>. QED  BY <1>2, <1>3, <1>4, <1>5, <1>8, <1>9, <1>11 DEF A, V, a, others

LEMMA NextBlockType ==
    ASSUME WellFormed(fn), blk \in Blocks, NEW this, NEW next, NextBlock(this, next)
    PROVE  /\ blk' \in Blocks /\ phase' \in {this, next}
           /\ phase' = this => next = this \/ blk' # 1
<1>1. blk \in Nat /\ blk >= 1 /\ blk <= Len(fn.code) /\ Len(fn.code) \in Nat
    BY BlocksType DEF Blocks
<1>2. CASE blk = Len(fn.code)
    BY <1>2, BlocksType DEF NextBlock
<1>3. CASE blk # Len(fn.code)
    <2>1. blk' = blk + 1 /\ phase' = this
        BY <1>3 DEF NextBlock
    <2>2. blk + 1 \in 1..Len(fn.code) /\ blk + 1 # 1
        BY <1>1, <1>3
    <2>. QED  BY <2>1, <2>2 DEF Blocks
<1>. QED  BY <1>2, <1>3

\* doPRE keeps FlowInv.
LEMMA FlowPRE ==
    ASSUME FlowInv, DoPRE
    PROVE  FlowInv'
<1>1. /\ WellFormed(fn) /\ FlowType /\ phase = "pre" /\ fn' = fn /\ WorkList' = WorkList
      /\ NextBlock("pre", "emit") /\ blk \in Blocks
    BY FlowFunction DEF DoPRE, FlowInv, FlowType
<1>2. /\ blk' \in Blocks /\ phase' \in {"pre", "emit"} /\ (phase' = "pre" => blk' # 1)
    BY <1>1, NextBlockType
<1>3. fn' = fn /\ Blocks' = Blocks /\ States' = States /\ PlainItems' = PlainItems
      /\ (\A c : predecessors(c)' = predecessors(c)) /\ (\A r : Queue(r)' <=> Queue(r))
    BY <1>1, TypesStable
<1>4. Queue(WorkList)'
    BY <1>1 DEF FlowType, Queue, Blocks
<1>5. /\ Pred \in [Blocks -> States] /\ Exit \in [Blocks -> States]
      /\ Code \in [Blocks -> Seq(PlainItems)]
      /\ \A b \in Blocks : Solved(b) /\ (isValid(Pred[b]) => isValid(Exit[b]))
    BY <1>1 DEF FlowInv, FlowType, FlowDone
<1>6. \A b : Solved(b)' <=> /\ \A p \in predecessors(b) : Covers(Pred'[b], Exit'[p])
                            /\ b = 1 => isUnknown(Pred'[1])
    BY <1>3 DEF Solved
<1>7. ASSUME Pred' \in [Blocks -> States], Exit' \in [Blocks -> States],
             Code' \in [Blocks -> Seq(PlainItems)],
             \A b \in Blocks : Solved(b)' /\ (isValid(Pred'[b]) => isValid(Exit'[b]))
      PROVE  FlowInv'
    <2>1. FlowType'
        BY <1>1, <1>2, <1>3, <1>4, <1>7 DEF FlowType
    <2>. QED  BY <1>2, <1>3, <1>7, <2>1 DEF FlowInv, FlowDone
<1>8. CASE ~canPRE(blk)
    <2>1. UNCHANGED <<Code, Exit, Pred>>
        BY <1>8 DEF DoPRE
    <2>2. \A b \in Blocks : Solved(b)' /\ (isValid(Pred'[b]) => isValid(Exit'[b]))
        BY <1>5, <1>6, <2>1 DEF Solved
    <2>. QED  BY <1>5, <1>7, <2>1, <2>2
<1>9. CASE canPRE(blk)
    <2> DEFINE A == availableInfo(blk)
    <2>1. /\ A \in States /\ A.State = "AVL" /\ blk # 1 /\ isUnknown(Pred[blk])
          /\ \A q \in predecessors(blk) \ unavailable(blk) : SameInfo(A, Exit[q])
          /\ \E p \in Blocks :
                /\ unavailable(blk) = {p} /\ fn.succ[p] = {blk}
                /\ Vset(availableAVL(p, A.avl), A.vt) \in Instruction
                /\ Plain(Vset(availableAVL(p, A.avl), A.vt))
        BY <1>1, <1>9, PREAvailable
    <2> HIDE DEF A
    <2>2. PICK p \in Blocks : /\ unavailable(blk) = {p} /\ fn.succ[p] = {blk}
                              /\ Vset(availableAVL(p, A.avl), A.vt) \in Instruction
                              /\ Plain(Vset(availableAVL(p, A.avl), A.vt))
        BY <2>1
    <2> DEFINE I == Vset(availableAVL(p, A.avl), A.vt)
    <2>3. /\ Code' = [Code EXCEPT ![p] = Append(@, Inserted(I))]
          /\ Exit' = [Exit EXCEPT ![p] = A] /\ Pred' = [Pred EXCEPT ![blk] = A]
        BY <1>9, <2>2 DEF DoPRE, A
    <2>4. Inserted(I) \in PlainItems
        <3>1. NoInstruction \in Instruction
            BY ValueTypes DEF NoInstruction, Instruction, VectorOps, NoVType, VType
        <3>2. I \in Instruction /\ Plain(I)
            BY <2>2
        <3> HIDE DEF I
        <3>. QED  BY <3>1, <3>2 DEF Inserted, PlainItems, Item
    <2> HIDE DEF I
    <2>5. Code' \in [Blocks -> Seq(PlainItems)]
        <3>1. Append(Code[p], Inserted(I)) \in Seq(PlainItems)
            BY <1>5, <2>4
        <3>. QED  BY <1>5, <2>3, <3>1
    <2>6. Pred' \in [Blocks -> States] /\ Exit' \in [Blocks -> States]
        BY <1>5, <2>1, <2>3
    <2>7. isValid(A)
        BY <2>1 DEF isValid
    <2>8. /\ Pred'[blk] = A /\ \A b \in Blocks \ {blk} : Pred'[b] = Pred[b]
          /\ Exit'[p] = A /\ \A q \in Blocks \ {p} : Exit'[q] = Exit[q]
        BY <1>1, <1>5, <2>3
    <2>9. ASSUME NEW b \in Blocks, NEW q \in predecessors(b)
          PROVE  Covers(Pred'[b], Exit'[q])
        <3>1. q \in Blocks /\ b \in fn.succ[q]
            BY DEF predecessors
        <3>2. CASE b = blk /\ q = p
            BY <2>1, <2>8, <3>2, CoversReflexive
        <3>3. CASE b = blk /\ q # p
            <4>1. SameInfo(A, Exit[q])
                BY <2>1, <2>2, <3>3
            <4>. QED  BY <1>5, <2>1, <2>8, <3>1, <3>3, <4>1, SameCovers
        <3>4. CASE b # blk
            <4>1. q # p
                BY <2>2, <3>1, <3>4
            <4>. QED  BY <1>5, <2>8, <3>1, <3>4, <4>1 DEF Solved
        <3>. QED  BY <3>2, <3>3, <3>4
    <2>10. ASSUME NEW b \in Blocks
           PROVE  isValid(Pred'[b]) => isValid(Exit'[b])
        <3>1. CASE b = p
            BY <2>7, <2>8, <3>1
        <3>2. CASE b # p /\ b = blk
            <4>1. isValid(Pred[blk])
                BY <2>1 DEF isValid, isUnknown
            <4>. QED  BY <1>5, <2>8, <3>2, <4>1
        <3>3. CASE b # p /\ b # blk
            BY <1>5, <2>8, <3>3
        <3>. QED  BY <3>1, <3>2, <3>3
    <2>11. isUnknown(Pred'[1])
        BY <1>1, <1>5, <2>1, <2>8, BlocksType DEF Solved
    <2>. QED  BY <1>6, <1>7, <2>5, <2>6, <2>9, <2>10, <2>11
<1>. QED  BY <1>8, <1>9

\* The rest of the pass and the hart leave the data flow as it is.
LEMMA FlowLater ==
    ASSUME FlowInv, UNCHANGED <<fn, Pred, Exit, WorkList>>, blk' \in Blocks,
           \/ phase \in {"emit", "coalesce"} /\ phase' \in {"emit", "coalesce", "run", "ended"}
           \/ phase \in {"run", "ended"} /\ phase' \in {"run", "ended"}
    PROVE  FlowInv'
<1>1. /\ WellFormed(fn) /\ FlowType /\ fn' = fn
    BY FlowFunction DEF FlowInv
<1>2. fn' = fn /\ Blocks' = Blocks /\ States' = States /\ PlainItems' = PlainItems
      /\ (\A c : predecessors(c)' = predecessors(c)) /\ (\A r : Queue(r)' <=> Queue(r))
    BY <1>1, TypesStable
<1>3. Queue(WorkList)'
    BY <1>1 DEF FlowType, Queue, Blocks
<1>4. FlowType'
    BY <1>1, <1>2, <1>3 DEF FlowType
<1>5. FlowDone' => FlowDone
    BY DEF FlowDone
<1>6. FlowDone => \A b \in Blocks : Solved(b)' /\ (isValid(Pred'[b]) => isValid(Exit'[b]))
    BY <1>2 DEF FlowInv, Solved
<1>. QED  BY <1>2, <1>4, <1>5, <1>6 DEF FlowInv

\* Every step keeps FlowInv.
LEMMA FlowNext ==
    ASSUME FlowInv, [Next]_vars
    PROVE  FlowInv'
<1>1. WellFormed(fn) /\ blk \in Blocks /\ FlowType
    BY FlowFunction DEF FlowInv, FlowType
<1>2. CASE CollectBlocks
    BY <1>2, FlowCollect
<1>3. CASE ComputeIncomingVLVTYPE
    BY <1>3, FlowIncoming
<1>4. CASE StartPRE
    BY <1>4, FlowStartPRE
<1>5. CASE DoPRE
    BY <1>5, FlowPRE
<1>6. CASE EmitVSETVLIs
    <2>1. phase = "emit" /\ NextBlock("emit", "coalesce") /\ UNCHANGED <<fn, Pred, Exit, WorkList>>
        BY <1>6 DEF EmitVSETVLIs
    <2>2. blk' \in Blocks /\ phase' \in {"emit", "coalesce"}
        BY <1>1, <2>1, NextBlockType
    <2>. QED  BY <2>1, <2>2, FlowLater
<1>7. CASE CoalesceVSETVLIs
    <2>1. /\ phase = "coalesce" /\ NextBlock("coalesce", "run")
          /\ UNCHANGED <<fn, Pred, Exit, WorkList>>
        BY <1>7 DEF CoalesceVSETVLIs
    <2>2. blk' \in Blocks /\ phase' \in {"coalesce", "run"}
        BY <1>1, <2>1, NextBlockType
    <2>. QED  BY <2>1, <2>2, FlowLater
<1>8. CASE StartHart
    BY <1>1, <1>8, FlowLater DEF StartHart, passVars
<1>9. CASE Execute
    BY <1>1, <1>9, FlowLater DEF Execute, passVars, InBlock
<1>10. CASE Branch
    BY <1>1, <1>10, FlowLater DEF Branch, passVars
<1>11. CASE UNCHANGED vars
    <2>1. /\ UNCHANGED <<fn, phase, Code, Pred, Exit, WorkList, blk>>
        BY <1>11 DEF vars, passVars
    <2>2. CASE phase \in {"emit", "coalesce", "run", "ended"}
        <3>1. blk' \in Blocks /\ phase' = phase
            BY <1>1, <2>1
        <3>. QED  BY <2>1, <2>2, <3>1, FlowLater
    <2>3. CASE phase \notin {"emit", "coalesce", "run", "ended"}
        <3>1. Blocks' = Blocks /\ States' = States /\ PlainItems' = PlainItems
              /\ (\A c : predecessors(c)' = predecessors(c)) /\ (\A r : Queue(r)' <=> Queue(r))
            BY <2>1, TypesStable
        <3>2. FlowType'
            <4>1. Queue(WorkList)'
                BY <1>1, <2>1 DEF FlowType, Queue, Blocks
            <4>. QED  BY <1>1, <2>1, <3>1, <4>1 DEF FlowType
        <3>3. \A b : (Solved(b)' <=> Solved(b)) /\ (ExitAgrees(b)' <=> ExitAgrees(b))
            BY <2>1, <3>1, ChangesStable DEF Solved, ExitAgrees
        <3>4. Queued(WorkList)' = Queued(WorkList)
            BY <2>1 DEF Queued
        <3>. QED  BY <2>1, <3>1, <3>2, <3>3, <3>4 DEF FlowInv, FlowDone
    <2>. QED  BY <2>2, <2>3
<1>12. CASE Ended
    BY <1>11, <1>12 DEF Ended
<1>. QED  BY <1>2, <1>3, <1>4, <1>5, <1>6, <1>7, <1>8, <1>9, <1>10, <1>11, <1>12
          DEF Next, Pass

\* The blocks that any set of blocks with block 1 and with the successors of
\* its blocks has: those some path from the entry leads to.
Reached ==
    {b \in Blocks : \A S \in SUBSET Blocks :
                        1 \in S /\ (\A p \in S : fn.succ[p] \subseteq S) => b \in S}

\* Once the worklist is empty, and whatever partial redundancy elimination
\* does then, the start of each block is no more than what is known at the end
\* of each of its predecessors; nothing is known where the function is entered;
\* and each block that is reached has a state.
DataflowSolved ==
    FlowDone =>
        /\ isUnknown(Pred[1])
        /\ \A b \in Blocks : \A p \in predecessors(b) : Covers(Pred[b], Exit[p])
        /\ \A b \in Reached : isValid(Pred[b])

\* While the worklist is worked off, and when it is empty, the end of each
\* block is what its code makes of its start.
ExitsAgree ==
    phase = "incoming" \/ (phase = "pre" /\ blk = 1) => \A b \in Blocks : ExitAgrees(b)

\* Each step of the worklist makes the variant smaller, and a state at the
\* start of a block only ever changes upwards.
WorklistDrains ==
    /\ [](Variant \in Nat)
    /\ [][phase = "incoming" /\ phase' = "incoming" =>
             /\ Variant' < Variant
             /\ \A b \in Blocks : Pred'[b] = Pred[b] \/ Rank(Pred'[b]) > Rank(Pred[b])]_vars

\* FlowInv holds throughout the pass and the run of the code it emits.
LEMMA FlowInvariant == Spec => []FlowInv
<1>1. Init => FlowInv
    BY FlowInit
<1>2. FlowInv /\ [Next]_vars => FlowInv'
    BY FlowNext
<1>. QED  BY <1>1, <1>2, PTL DEF Spec

\* computeIncomingVLVTYPE ends with a solution of the data flow and doPRE keeps
\* it one: on every function, no block is taken to start with more than each of its
\* predecessors ends with.
THEOREM DataflowIsSolved == Spec => []DataflowSolved
<1>1. FlowInv => DataflowSolved
    <2>. SUFFICES ASSUME FlowInv, FlowDone
                  PROVE  /\ isUnknown(Pred[1])
                         /\ \A b \in Blocks : \A p \in predecessors(b) : Covers(Pred[b], Exit[p])
                         /\ \A b \in Reached : isValid(Pred[b])
        BY DEF DataflowSolved
    <2>1. WellFormed(fn) /\ \A b \in Blocks : Solved(b) /\ (isValid(Pred[b]) => isValid(Exit[b]))
        BY FlowFunction DEF FlowInv
    <2>2. 1 \in Blocks /\ isUnknown(Pred[1])
        BY <2>1, BlocksType DEF Solved
    <2> DEFINE S == {b \in Blocks : isValid(Pred[b])}
    <2>3. 1 \in S
        BY <2>2 DEF isUnknown, isValid
    <2>4. ASSUME NEW p \in S, NEW b \in fn.succ[p]
          PROVE  b \in S
        <3>1. b \in Blocks /\ p \in predecessors(b)
            BY <2>1, BlocksType DEF predecessors
        <3>2. Covers(Pred[b], Exit[p]) /\ isValid(Exit[p])
            BY <2>1, <3>1 DEF Solved
        <3>. QED  BY <3>1, <3>2, CoversValid
    <2>5. \A b \in Reached : b \in S
        <3>1. S \in SUBSET Blocks
            OBVIOUS
        <3> HIDE DEF S
        <3>. QED  BY <2>3, <2>4, <3>1 DEF Reached
    <2>. QED  BY <2>1, <2>2, <2>5 DEF Solved
<1>. QED  BY <1>1, FlowInvariant, PTL

\* computeIncomingVLVTYPE skips a block whose start did not change, and keeps the
\* old end of a block when the new one is the same: the ends stay those the
\* starts lead to.
THEOREM ExitsAgreeAlways == Spec => []ExitsAgree
<1>1. FlowInv => ExitsAgree
    BY DEF FlowInv, ExitsAgree
<1>. QED  BY <1>1, FlowInvariant, PTL

\* The worklist of runOnMachineFunction ends: each step of
\* computeIncomingVLVTYPE makes a natural number smaller, on every function.
THEOREM WorklistDrainsAlways == Spec => WorklistDrains
<1>1. FlowInv /\ [Next]_vars =>
         [phase = "incoming" /\ phase' = "incoming" =>
             /\ Variant' < Variant
             /\ \A b \in Blocks : Pred'[b] = Pred[b] \/ Rank(Pred'[b]) > Rank(Pred[b])]_vars
    <2>. SUFFICES ASSUME FlowInv, Next, phase = "incoming", phase' = "incoming"
                  PROVE  /\ Variant' < Variant
                         /\ \A b \in Blocks :
                               Pred'[b] = Pred[b] \/ Rank(Pred'[b]) > Rank(Pred[b])
        OBVIOUS
    <2>1. ComputeIncomingVLVTYPE
        BY DEF Next, Pass, CollectBlocks, StartPRE, DoPRE, EmitVSETVLIs, CoalesceVSETVLIs,
               StartHart, Execute, InBlock, Branch, Ended
    <2>. QED  BY <2>1, VariantSmaller
<1>2. FlowInv => Variant \in Nat
    <2>1. FlowInv => Cardinality(Headroom) \in Nat
        BY FlowFunction, HeadroomFinite, FS_CardinalityType DEF FlowInv
    <2>2. FlowInv => Len(fn.code) \in Nat /\ Len(WorkList) \in Nat
        BY FlowFunction, BlocksType, QueueLength DEF FlowInv, FlowType
    <2>. QED  BY <2>1, <2>2 DEF Variant
<1>. QED  BY <1>1, <1>2, FlowInvariant, PTL DEF Spec, WorklistDrains
-----------------------------------------------------------------------------
(* Folds, by the index of the element.                                      *)

\* What holds before the first of n elements, and after each if it does before
\* it, holds after all of them.
LEMMA IndexInduction ==
    ASSUME NEW n \in Nat, NEW P, 0 \in P, \A k \in 1..n : k - 1 \in P => k \in P
    PROVE  \A k \in 0..n : k \in P
<1> DEFINE S == {k \in 0..n : k \notin P}
<1>. SUFFICES ASSUME S # {} PROVE FALSE
    OBVIOUS
<1>1. PICK k \in S : \A y \in S : k <= y
    <2>1. S \in SUBSET Nat
        OBVIOUS
    <2> HIDE DEF S
    <2>. QED  BY <2>1, Least
<1>2. k # 0 /\ k \in 1..n /\ k - 1 \in 0..n
    BY <1>1
<1>3. k - 1 \notin S
    <2>1. ~(k <= k - 1)
        BY <1>2
    <2> HIDE DEF S
    <2>. QED  BY <1>1, <2>1
<1>. QED  BY <1>1, <1>2, <1>3

\* The last and the first of some numbers in a row.
LEMMA Intervals ==
    ASSUME NEW n \in Nat
    PROVE  /\ 1..0 = {} /\ (n + 1)..n = {}
           /\ \A k \in 1..n :
                 /\ Max(1..k) = k /\ (1..k) \ {k} = 1..(k - 1)
                 /\ 1..k # {} /\ 1..k \in SUBSET (1..n)
                 /\ Min(k..n) = k /\ (k..n) \ {k} = (k + 1)..n
                 /\ k..n # {} /\ k..n \in SUBSET (1..n)
<1>1. ASSUME NEW k \in 1..n PROVE Max(1..k) = k
    <2>1. k \in 1..k /\ \A y \in 1..k : k >= y
        OBVIOUS
    <2>2. \A x \in 1..k : (\A y \in 1..k : x >= y) => x = k
        BY <2>1
    <2>. QED  BY <2>1, <2>2 DEF Max
<1>2. ASSUME NEW k \in 1..n PROVE Min(k..n) = k
    <2>1. k \in k..n /\ \A y \in k..n : k =< y
        OBVIOUS
    <2>2. \A x \in k..n : (\A y \in k..n : x =< y) => x = k
        BY <2>1
    <2>. QED  BY <2>1, <2>2 DEF Min
<1>3. 1..0 = {} /\ (n + 1)..n = {}
    OBVIOUS
<1>4. ASSUME NEW k \in 1..n
      PROVE  /\ (1..k) \ {k} = 1..(k - 1) /\ 1..k # {} /\ 1..k \in SUBSET (1..n)
             /\ (k..n) \ {k} = (k + 1)..n /\ k..n # {} /\ k..n \in SUBSET (1..n)
    OBVIOUS
<1>. QED  BY <1>1, <1>2, <1>3, <1>4

\* A set of numbers up to n is finite and has a first and a last one.
LEMMA Rows ==
    ASSUME NEW n \in Nat
    PROVE  /\ IsFiniteSet(1..n)
           /\ \A s \in SUBSET (1..n) : s # {} => Max(s) \in s /\ Min(s) \in s
<1>1. IsFiniteSet(1..n)
    BY FS_Interval
<1>2. \A s \in SUBSET (1..n) : s # {} => Max(s) \in s /\ Min(s) \in s
    BY MinMax
<1>. QED  BY <1>1, <1>2

\* The equation of a fold over 1..n from the left, as far as its values are in V.
LeftEq(n, V, base, F, g) ==
    /\ g[{}] = base
    /\ \A s \in SUBSET (1..n) :
          s # {} /\ g[s \ {Max(s)}] \in V => g[s] = F[<<Max(s), g[s \ {Max(s)}]>>]
\* That of a fold from the right.
RightEq(n, V, base, F, g) ==
    /\ g[{}] = base
    /\ \A s \in SUBSET (1..n) :
          s # {} /\ g[s \ {Min(s)}] \in V => g[s] = F[<<Min(s), g[s \ {Min(s)}]>>]
\* The values of a fold, one after the other: at[k] is the k-th element.
Row(n, V, base, F, at, h) ==
    /\ h \in [0..n -> V] /\ h[0] = base
    /\ \A k \in 1..n : h[k - 1] \in V /\ h[k] = F[<<at[k], h[k - 1]>>]

\* The equation of a fold has a solution.
LEMMA LeftSolution ==
    ASSUME NEW n \in Nat, NEW V, NEW base \in V, NEW F, F \in [(1..n) \X V -> V]
    PROVE  \E g : g \in [SUBSET (1..n) -> V] /\ LeftEq(n, V, base, F, g)
<1> DEFINE S == 1..n
           ch == [s \in SUBSET S |-> Max(s)]
<1>1. \A s \in SUBSET S : ch[s] = Max(s)
    OBVIOUS
<1>2. IsFiniteSet(S) /\ \A s \in SUBSET S : s # {} => Max(s) \in s
    BY Rows
<1>0. F \in [S \X V -> V]
    OBVIOUS
<1> HIDE DEF S, ch
<1>3. PICK g \in [SUBSET S -> V] : FoldEq(S, base, ch, F, g)
    <2>1. \A s \in SUBSET S : s # {} => ch[s] \in s
        BY <1>1, <1>2
    <2>. QED  BY <1>0, <1>2, <2>1, FoldSolution
<1>4. g[{}] = base
    BY <1>3 DEF FoldEq
<1>5. ASSUME NEW s \in SUBSET S, s # {}
      PROVE  g[s] = F[<<Max(s), g[s \ {Max(s)}]>>]
    BY <1>1, <1>3, <1>5 DEF FoldEq
<1>. QED  BY <1>3, <1>4, <1>5 DEF S, LeftEq

LEMMA RightSolution ==
    ASSUME NEW n \in Nat, NEW V, NEW base \in V, NEW F, F \in [(1..n) \X V -> V]
    PROVE  \E g : g \in [SUBSET (1..n) -> V] /\ RightEq(n, V, base, F, g)
<1> DEFINE S == 1..n
           ch == [s \in SUBSET S |-> Min(s)]
<1>1. \A s \in SUBSET S : ch[s] = Min(s)
    OBVIOUS
<1>2. IsFiniteSet(S) /\ \A s \in SUBSET S : s # {} => Min(s) \in s
    BY Rows
<1>0. F \in [S \X V -> V]
    OBVIOUS
<1> HIDE DEF S, ch
<1>3. PICK g \in [SUBSET S -> V] : FoldEq(S, base, ch, F, g)
    <2>1. \A s \in SUBSET S : s # {} => ch[s] \in s
        BY <1>1, <1>2
    <2>. QED  BY <1>0, <1>2, <2>1, FoldSolution
<1>4. g[{}] = base
    BY <1>3 DEF FoldEq
<1>5. ASSUME NEW s \in SUBSET S, s # {}
      PROVE  g[s] = F[<<Min(s), g[s \ {Min(s)}]>>]
    BY <1>1, <1>3, <1>5 DEF FoldEq
<1>. QED  BY <1>3, <1>4, <1>5 DEF S, RightEq

\* A row of values each of which is in V if the one before it is.
LEMMA RowWithin ==
    ASSUME NEW n \in Nat, NEW V, NEW h, h[0] \in V,
           \A k \in 1..n : h[k - 1] \in V => h[k] \in V
    PROVE  \A k \in 0..n : h[k] \in V
<1> DEFINE P == {k \in 0..n : h[k] \in V}
<1>1. 0 \in P /\ \A k \in 1..n : k - 1 \in P => k \in P
    OBVIOUS
<1> HIDE DEF P
<1>2. \A k \in 0..n : k \in P
    BY <1>1, IndexInduction
<1>. QED  BY <1>2 DEF P

\* The values of a fold from the left are those for the first k elements.
LEMMA LeftIndex ==
    ASSUME NEW n \in Nat, NEW V, NEW base \in V, NEW F, F \in [(1..n) \X V -> V],
           NEW g, LeftEq(n, V, base, F, g)
    PROVE  /\ Row(n, V, base, F, [k \in 1..n |-> k], [k \in 0..n |-> g[1..k]])
           /\ [k \in 0..n |-> g[1..k]][n] = g[1..n]
<1> DEFINE h == [k \in 0..n |-> g[1..k]]
           at == [k \in 1..n |-> k]
<1>1. h[0] = base /\ h[n] = g[1..n]
    BY Intervals DEF LeftEq
<1>2. ASSUME NEW k \in 1..n, h[k - 1] \in V
      PROVE  h[k] = F[<<k, h[k - 1]>>] /\ h[k] \in V
    <2>1. h[k] = g[1..k] /\ h[k - 1] = g[1..(k - 1)]
        OBVIOUS
    <2>2. Max(1..k) = k /\ (1..k) \ {k} = 1..(k - 1) /\ 1..k # {} /\ 1..k \in SUBSET (1..n)
        BY Intervals
    <2> HIDE DEF h
    <2>3. h[k] = F[<<k, h[k - 1]>>]
        BY <1>2, <2>1, <2>2 DEF LeftEq
    <2>. QED  BY <1>2, <2>3
<1>3. \A k \in 0..n : h[k] \in V
    <2> HIDE DEF h
    <2>. QED  BY <1>1, <1>2, RowWithin
<1>4. h \in [0..n -> V]
    BY <1>3
<1>5. \A k \in 1..n : at[k] = k
    OBVIOUS
<1> HIDE DEF h, at
<1>6. \A k \in 1..n : h[k - 1] \in V /\ h[k] = F[<<at[k], h[k - 1]>>]
    BY <1>2, <1>3, <1>5
<1>7. Row(n, V, base, F, at, h)
    BY <1>1, <1>4, <1>6 DEF Row
<1>. QED  BY <1>1, <1>7 DEF h, at

\* From the last of n numbers to the first, and the values for the last k of them.
Backwards(n) == [k \in 1..n |-> n + 1 - k]
FromLast(n, g) == [k \in 0..n |-> g[(n + 1 - k)..n]]

\* The values of a fold from the right are those for the last k elements.
LEMMA RightIndex ==
    ASSUME NEW n \in Nat, NEW V, NEW base \in V, NEW F, F \in [(1..n) \X V -> V],
           NEW g, RightEq(n, V, base, F, g)
    PROVE  Row(n, V, base, F, Backwards(n), FromLast(n, g)) /\ FromLast(n, g)[n] = g[1..n]
<1> DEFINE h == [k \in 0..n |-> g[(n + 1 - k)..n]]
           at == [k \in 1..n |-> n + 1 - k]
<1>1. h[0] = base /\ h[n] = g[1..n]
    <2>1. h[0] = g[(n + 1 - 0)..n] /\ h[n] = g[(n + 1 - n)..n]
        OBVIOUS
    <2>2. n + 1 - 0 = n + 1 /\ n + 1 - n = 1
        OBVIOUS
    <2> HIDE DEF h
    <2>. QED  BY <2>1, <2>2, Intervals DEF RightEq
<1>2. ASSUME NEW k \in 1..n, h[k - 1] \in V
      PROVE  h[k] = F[<<n + 1 - k, h[k - 1]>>] /\ h[k] \in V
    <2> DEFINE i == n + 1 - k
    <2>1. i \in 1..n /\ n + 1 - (k - 1) = i + 1
        OBVIOUS
    <2>2. h[k] = g[i..n] /\ h[k - 1] = g[(i + 1)..n]
        BY <2>1
    <2> HIDE DEF i, h
    <2>3. Min(i..n) = i /\ (i..n) \ {i} = (i + 1)..n /\ i..n # {} /\ i..n \in SUBSET (1..n)
        BY <2>1, Intervals
    <2>4. g[(i..n) \ {Min(i..n)}] \in V
        BY <1>2, <2>2, <2>3
    <2>5. g[i..n] = F[<<Min(i..n), g[(i..n) \ {Min(i..n)}]>>]
        BY <2>3, <2>4 DEF RightEq
    <2>6. h[k] = F[<<i, h[k - 1]>>]
        BY <2>2, <2>3, <2>5
    <2>. QED  BY <1>2, <2>1, <2>6 DEF i
<1>3. \A k \in 0..n : h[k] \in V
    <2> HIDE DEF h
    <2>. QED  BY <1>1, <1>2, RowWithin
<1>4. h \in [0..n -> V]
    BY <1>3
<1>5. \A k \in 1..n : at[k] = n + 1 - k
    OBVIOUS
<1> HIDE DEF h, at
<1>6. \A k \in 1..n : h[k - 1] \in V /\ h[k] = F[<<at[k], h[k - 1]>>]
    BY <1>2, <1>3, <1>5
<1>7. Row(n, V, base, F, at, h)
    BY <1>1, <1>4, <1>6 DEF Row
<1>8. Backwards(n) = at /\ FromLast(n, g) = h
    BY DEF Backwards, FromLast, h, at
<1>. QED  BY <1>1, <1>7, <1>8

\* The states a block leads through from a state.
LEMMA ChangesFold ==
    ASSUME WellFormed(fn), NEW A \in States, NEW code \in Seq(PlainItems)
    PROVE  \E h \in [0..Len(code) -> States] :
              /\ h[0] = A /\ h[Len(code)] = computeVLVTYPEChanges(code, A)
              /\ \A k \in 1..Len(code) :
                    h[k] = transferAfter(transferBefore(h[k - 1], code[k].now), code[k].now)
<1> DEFINE n == Len(code)
           T(i, B) == transferAfter(transferBefore(B, code[i].now), code[i].now)
           F == [q \in (1..n) \X States |-> T(q[1], q[2])]
           Eq(g) == g = [s \in SUBSET DOMAIN code |->
                            IF s = {} THEN A ELSE T(Max(s), g[s \ {Max(s)}])]
           end == CHOOSE g : Eq(g)
           h == [k \in 0..n |-> end[1..k]]
<1>1. DOMAIN code = 1..n /\ n \in Nat
    OBVIOUS
<1>2. \A i \in 1..n : \A B \in States : T(i, B) \in States
    BY TransferType DEF PlainItems
<1>3. computeVLVTYPEChanges(code, A) = end[DOMAIN code]
    BY DEF computeVLVTYPEChanges, FoldLeft, MapThenFoldSet
<1> HIDE DEF T, n
<1>4. n \in Nat /\ A \in States /\ F \in [(1..n) \X States -> States]
    BY <1>1, <1>2
<1>5. \A i \in 1..n : \A B \in States : F[<<i, B>>] = T(i, B)
    OBVIOUS
<1> HIDE DEF F
<1>6. Eq(end)
    <2>1. PICK g : g \in [SUBSET (1..n) -> States] /\ LeftEq(n, States, A, F, g)
        BY <1>4, LeftSolution
    <2>2. ASSUME NEW s \in SUBSET (1..n), s # {} PROVE g[s] = T(Max(s), g[s \ {Max(s)}])
        <3>1. Max(s) \in 1..n /\ g[s \ {Max(s)}] \in States
            BY <1>4, <2>1, <2>2, Rows
        <3>. QED  BY <1>5, <2>1, <2>2, <3>1 DEF LeftEq
    <2>3. Eq(g)
        BY <1>1, <2>1, <2>2 DEF LeftEq
    <2> HIDE DEF Eq
    <2>. QED  BY <2>3
<1> HIDE DEF end
<1>7. LeftEq(n, States, A, F, end)
    <2>1. ASSUME NEW s \in SUBSET (1..n), s # {}, end[s \ {Max(s)}] \in States
          PROVE  end[s] = F[<<Max(s), end[s \ {Max(s)}]>>]
        <3>1. Max(s) \in 1..n
            BY <1>4, <2>1, Rows
        <3>2. end[s] = T(Max(s), end[s \ {Max(s)}])
            BY <1>1, <1>6, <2>1
        <3>. QED  BY <1>5, <2>1, <3>1, <3>2
    <2>. QED  BY <1>1, <1>6, <2>1 DEF LeftEq
<1>8. Row(n, States, A, F, [k \in 1..n |-> k], h) /\ h[n] = end[1..n]
    BY <1>4, <1>7, LeftIndex
<1> HIDE DEF h
<1>9. \A k \in 1..n : h[k] = T(k, h[k - 1])
    BY <1>5, <1>8 DEF Row
<1>10. h \in [0..n -> States] /\ h[0] = A /\ h[n] = computeVLVTYPEChanges(code, A)
    BY <1>1, <1>3, <1>8 DEF Row
<1>. QED  BY <1>9, <1>10 DEF T, n
-----------------------------------------------------------------------------
(* Equal states.                                                            *)

\* States that lead to the same changes: they are one, or only VL and the ratio
\* are known, and are the same.
Alike(A, B) ==
    \/ A = B
    \/ /\ A.State = "AVL" /\ B.State = "AVL" /\ A.avl = B.avl
       /\ A.SEWLMULRatioOnly /\ B.SEWLMULRatioOnly /\ hasSameVLMAX(A, B)

\* Two AVLs that are the same to the lattice are one.
LEMMA SameAVL ==
    ASSUME NEW A \in States, NEW B \in States, hasSameAVLLatticeValue(A, B)
    PROVE  A.State = "AVL" /\ B.State = "AVL" /\ A.avl = B.avl
<1>1. isKnown(A) /\ isKnown(B) /\ A.avl.kind = B.avl.kind
    BY Zenon DEF hasSameAVLLatticeValue
<1>2. A.State = "AVL" /\ B.State = "AVL"
    BY <1>1, KnownState
<1>3. A.avl \in PlainAVL /\ B.avl \in PlainAVL
    BY <1>2 DEF States
<1>4. CASE A.avl.kind = "reg"
    <2>1. \A part \in {"reg", "def", "copy"} : A.avl.vn[part] = B.avl.vn[part]
        BY <1>4, Zenon DEF hasSameAVLLatticeValue
    <2>2. A.avl.vn.reg = B.avl.vn.reg /\ A.avl.vn.def = B.avl.vn.def
          /\ A.avl.vn.copy = B.avl.vn.copy
        BY <2>1
    <2>3. A.avl.vn.nonZero <=> B.avl.vn.nonZero
        BY <1>1, <1>3, <1>4, <2>2 DEF PlainAVL, Canonical
    <2>4. A.avl.vn \in Value /\ B.avl.vn \in Value
        BY <1>3 DEF PlainAVL, AVL
    <2>5. A.avl.vn = B.avl.vn
        BY <2>2, <2>3, <2>4 DEF Value
    <2>6. A.avl = AVLReg(A.avl.vn) /\ B.avl = AVLReg(B.avl.vn)
        BY <1>1, <1>3, <1>4 DEF PlainAVL, Canonical
    <2>. QED  BY <1>2, <2>5, <2>6
<1>5. CASE A.avl.kind # "reg"
    <2>1. A.avl.vn = NoValue /\ B.avl.vn = NoValue
        BY <1>1, <1>3, <1>5 DEF PlainAVL, Canonical
    <2>2. A.avl.n = B.avl.n
        <3>1. CASE A.avl.kind = "imm"
            BY <1>5, <3>1, Zenon DEF hasSameAVLLatticeValue
        <3>2. CASE A.avl.kind # "imm"
            BY <1>1, <1>3, <1>5, <3>2 DEF PlainAVL, Canonical
        <3>. QED  BY <3>1, <3>2
    <2>. QED  BY <1>1, <1>2, <1>3, <2>1, <2>2 DEF PlainAVL, AVL
<1>. QED  BY <1>4, <1>5

\* operator== holds of states that are alike.
LEMMA SameAlike ==
    ASSUME NEW A \in States, NEW B \in States, SameInfo(A, B)
    PROVE  Alike(A, B)
<1>1. CASE ~isValid(A) /\ ~isValid(B)
    BY <1>1 DEF States, isValid, Alike
<1>2. CASE isUnknown(A) /\ isUnknown(B)
    BY <1>2 DEF States, isUnknown, Alike
<1>3. CASE /\ hasSameAVLLatticeValue(A, B)
           /\ A.SEWLMULRatioOnly = B.SEWLMULRatioOnly
           /\ IF A.SEWLMULRatioOnly THEN hasSameVLMAX(A, B) ELSE A.vt = B.vt
    <2>1. A.State = "AVL" /\ B.State = "AVL" /\ A.avl = B.avl
        BY <1>3, SameAVL
    <2>2. CASE A.SEWLMULRatioOnly
        BY <1>3, <2>1, <2>2 DEF Alike, States
    <2>3. CASE ~A.SEWLMULRatioOnly
        BY <1>3, <2>1, <2>3 DEF Alike, States
    <2>. QED  BY <2>2, <2>3
<1>. QED  BY <1>1, <1>2, <1>3 DEF SameInfo

\* An instruction changes states that are alike to states that are.
LEMMA AlikeBefore ==
    ASSUME NEW A \in States, NEW B \in States, Alike(A, B), NEW I
    PROVE  Alike(transferBefore(A, I), transferBefore(B, I))
<1>1. CASE A = B
    BY <1>1 DEF Alike
<1>2. CASE A # B
    <2>1. /\ A.State = "AVL" /\ B.State = "AVL" /\ A.avl = B.avl
          /\ A.SEWLMULRatioOnly /\ B.SEWLMULRatioOnly /\ hasSameVLMAX(A, B)
        BY <1>2 DEF Alike
    <2>2. isKnown(A) /\ isKnown(B)
        BY <2>1 DEF isKnown, isValid, isUnknown
    <2> DEFINE D == getDemanded(I, FALSE)
               New == computeInfoForInstr(I)
    <2>3. CASE hasSEWOp(I)
        <3>1. /\ transferBefore(A, I) = changedFor(A, New, D)
              /\ transferBefore(B, I) = changedFor(B, New, D)
            BY <2>1, <2>3 DEF transferBefore, needVSETVLI, isCompatible
        <3> HIDE DEF D, New
        <3> DEFINE J == adjustIncoming(A, New, D)
        <3>2. adjustIncoming(B, New, D) = J /\ adjustedDemand(B, D) = adjustedDemand(A, D)
            BY <2>1, <2>2 DEF adjustIncoming, adjustedDemand, getSameRatioLMUL, hasSameVLMAX
        <3> HIDE DEF J
        <3>3. hasSameVLMAX(J, A) <=> hasSameVLMAX(J, B)
            BY <2>1 DEF hasSameVLMAX
        <3>4. hasNonZeroAVL(A) <=> hasNonZeroAVL(B)
            BY <2>1, <2>2, NonZeroOfAVL
        <3>5. hasSameVLMAX(J, A) => (hasSameAVLLatticeValue(J, A) <=> hasSameAVLLatticeValue(J, B))
            BY <2>1, <2>2, <3>3, Zenon DEF hasSameAVLLatticeValue
        <3>6. hasSameVLMAX(J, A) => (hasEquallyZeroAVL(J, A) <=> hasEquallyZeroAVL(J, B))
            BY <2>1, <3>4, <3>5 DEF hasEquallyZeroAVL, hasSameAVL
        <3>7. (hasEquallyZeroAVL(J, A) /\ hasSameVLMAX(J, A))
                  <=> (hasEquallyZeroAVL(J, B) /\ hasSameVLMAX(J, B))
            BY <3>3, <3>6
        <3>8. changedFor(A, New, D) = changedFor(B, New, D)
            BY <2>1, <2>2, <3>2, <3>7 DEF changedFor, J
        <3>. QED  BY <3>1, <3>8 DEF Alike
    <2>4. CASE ~hasSEWOp(I)
        BY <2>4 DEF transferBefore
    <2>. QED  BY <2>3, <2>4
<1>. QED  BY <1>1, <1>2

LEMMA AlikeAfter ==
    ASSUME NEW A \in States, NEW B \in States, Alike(A, B), NEW I
    PROVE  Alike(transferAfter(A, I), transferAfter(B, I))
<1>1. CASE A = B
    BY <1>1 DEF Alike
<1>2. CASE A # B
    <2>1. /\ A.State = "AVL" /\ B.State = "AVL" /\ A.avl = B.avl
          /\ A.SEWLMULRatioOnly /\ B.SEWLMULRatioOnly /\ hasSameVLMAX(A, B)
        BY <1>2 DEF Alike
    <2>2. CASE isVectorConfigInstr(I) \/ I.kind = "call"
        <3>1. transferAfter(A, I) = transferAfter(B, I)
            BY <2>2 DEF transferAfter, isVectorConfigInstr
        <3>. QED  BY <3>1 DEF Alike
    <2>3. CASE I.kind = "ff"
        <3> DEFINE a == AVLReg(Known(I.dst))
                   C == [A EXCEPT !.avl = a]
                   E == [B EXCEPT !.avl = a]
        <3>1. transferAfter(A, I) = C /\ transferAfter(B, I) = E
            BY <2>3 DEF transferAfter, isVectorConfigInstr
        <3> HIDE DEF a
        <3>2. /\ C.State = "AVL" /\ C.avl = a /\ C.vt = A.vt /\ C.SEWLMULRatioOnly
              /\ E.State = "AVL" /\ E.avl = a /\ E.vt = B.vt /\ E.SEWLMULRatioOnly
            BY <2>1 DEF States
        <3> HIDE DEF C, E
        <3>. QED  BY <2>1, <3>1, <3>2 DEF Alike, hasSameVLMAX
    <2>4. CASE ~isVectorConfigInstr(I) /\ I.kind \notin {"ff", "call"}
        BY <2>4 DEF transferAfter, isVectorConfigInstr
    <2>. QED  BY <2>2, <2>3, <2>4
<1>. QED  BY <1>1, <1>2

-----------------------------------------------------------------------------
(* The types VTYPE may hold.                                                *)

\* Where A is known.
TypesOf(A) ==
    {t \in VType :
        /\ isValid(A)
        /\ isUnknown(A) \/ (/\ getSEWLMULRatio(t) = getSEWLMULRatio(A.vt)
                            /\ A.SEWLMULRatioOnly \/ t = A.vt)}

\* Less is known where more types are possible.
LEMMA CoversTypes ==
    ASSUME NEW A \in States, NEW C \in States, Covers(A, C)
    PROVE  TypesOf(C) \subseteq TypesOf(A)
<1>1. CASE ~isValid(C)
    BY <1>1 DEF TypesOf
<1>2. CASE isUnknown(A)
    BY <1>2 DEF TypesOf, isValid, isUnknown
<1>3. CASE /\ hasSameAVLLatticeValue(A, C) /\ hasSameVLMAX(A, C)
           /\ A.SEWLMULRatioOnly \/ (~C.SEWLMULRatioOnly /\ A.vt = C.vt)
    <2>1. A.State = "AVL" /\ C.State = "AVL"
        BY <1>3, SameAVL
    <2>. QED  BY <1>3, <2>1 DEF TypesOf, isValid, isUnknown, hasSameVLMAX
<1>. QED  BY <1>1, <1>2, <1>3 DEF Covers

LEMMA AlikeTypes ==
    ASSUME NEW A \in States, NEW B \in States, Alike(A, B)
    PROVE  TypesOf(A) = TypesOf(B)
<1>1. CASE A = B
    BY <1>1
<1>2. CASE A # B
    BY <1>2 DEF Alike, TypesOf, isValid, isUnknown, hasSameVLMAX
<1>. QED  BY <1>1, <1>2

\* A state of which all is known has one type.
LEMMA FullTypes ==
    ASSUME NEW A, Full(A)
    PROVE  TypesOf(A) = {A.vt} /\ A.vt \in VType
<1>1. A.vt \in VType
    BY DEF Full, States, LegalType
<1>. QED  BY <1>1 DEF Full, TypesOf, isValid, isUnknown

LEMMA UnknownTypes == TypesOf(Unknown) = VType
BY DEF TypesOf, Unknown, isValid, isUnknown
-----------------------------------------------------------------------------
(* Partial redundancy elimination.                                          *)

\* The step of the fold of preTransitions, and the values it goes through.
preStep(S, I) ==
    IF S.done THEN S
    ELSE LET cur == transferBefore(S.cur, I)
             old == transferBefore(S.old, I)
             cur2 == transferAfter(cur, I)
             old2 == transferAfter(old, I)
         IN  [cur |-> cur2, old |-> old2,
              removed |-> S.removed + (IF SameInfo(cur, S.cur) THEN 1 ELSE 0)
                                    - (IF SameInfo(old, S.old) THEN 1 ELSE 0),
              done |-> SameInfo(cur2, old2)]
PreStates == [cur: States, old: States, removed: Int, done: BOOLEAN]

LEMMA PreStepFields ==
    ASSUME NEW S, NEW I, ~S.done
    PROVE  LET cur == transferAfter(transferBefore(S.cur, I), I)
               old == transferAfter(transferBefore(S.old, I), I)
           IN  /\ preStep(S, I).cur = cur /\ preStep(S, I).old = old
               /\ preStep(S, I).done = SameInfo(cur, old)
BY DEF preStep

LEMMA PreStepType ==
    ASSUME WellFormed(fn), NEW S \in PreStates, NEW I, Plain(I)
    PROVE  preStep(S, I) \in PreStates
<1>1. CASE S.done
    BY <1>1 DEF preStep
<1>2. CASE ~S.done
    <2> DEFINE cur == transferBefore(S.cur, I)
               old == transferBefore(S.old, I)
               cur2 == transferAfter(cur, I)
               old2 == transferAfter(old, I)
               r == S.removed + (IF SameInfo(cur, S.cur) THEN 1 ELSE 0)
                              - (IF SameInfo(old, S.old) THEN 1 ELSE 0)
               d == SameInfo(cur2, old2)
    <2>1. S.cur \in States /\ S.old \in States /\ S.removed \in Int
        BY DEF PreStates
    <2>2. cur2 \in States /\ old2 \in States
        BY <2>1, TransferType
    <2>3. preStep(S, I) = [cur |-> cur2, old |-> old2, removed |-> r, done |-> d]
        BY <1>2 DEF preStep
    <2>4. d \in BOOLEAN
        BY DEF SameInfo
    <2> HIDE DEF cur, old, d
    <2>5. r \in Int
        BY <2>1
    <2> HIDE DEF r, cur2, old2
    <2>. QED  BY <2>2, <2>3, <2>4, <2>5 DEF PreStates
<1>. QED  BY <1>1, <1>2

LEMMA PreFold ==
    ASSUME WellFormed(fn), NEW b, NEW A \in States, Pred[b] \in States,
           Code[b] \in Seq(PlainItems)
    PROVE  \E h \in [0..Len(Code[b]) -> PreStates] :
              /\ h[0] = [cur |-> A, old |-> Pred[b], removed |-> 0, done |-> FALSE]
              /\ h[Len(Code[b])] = preTransitions(b, A)
              /\ \A k \in 1..Len(Code[b]) : h[k] = preStep(h[k - 1], Code[b][k].now)
<1> DEFINE code == Code[b]
           n == Len(code)
           base == [cur |-> A, old |-> Pred[b], removed |-> 0, done |-> FALSE]
           T(i, S) == preStep(S, code[i].now)
           F == [q \in (1..n) \X PreStates |-> T(q[1], q[2])]
           Eq(g) == g = [s \in SUBSET DOMAIN code |->
                            IF s = {} THEN base ELSE T(Max(s), g[s \ {Max(s)}])]
           end == CHOOSE g : Eq(g)
           h == [k \in 0..n |-> end[1..k]]
<1>1. DOMAIN code = 1..n /\ n \in Nat
    OBVIOUS
<1>2. \A i \in 1..n : \A S \in PreStates : T(i, S) \in PreStates
    BY PreStepType DEF PlainItems
<1>3. preTransitions(b, A) = end[DOMAIN code]
    BY DEF preTransitions, FoldLeft, MapThenFoldSet, preStep
<1>0. base \in PreStates
    BY DEF PreStates
<1> HIDE DEF T, n, base
<1>4. n \in Nat /\ base \in PreStates /\ F \in [(1..n) \X PreStates -> PreStates]
    BY <1>0, <1>1, <1>2
<1>5. \A i \in 1..n : \A S \in PreStates : F[<<i, S>>] = T(i, S)
    OBVIOUS
<1> HIDE DEF F, code
<1>6. Eq(end)
    <2>1. PICK g : g \in [SUBSET (1..n) -> PreStates] /\ LeftEq(n, PreStates, base, F, g)
        BY <1>4, LeftSolution
    <2>2. ASSUME NEW s \in SUBSET (1..n), s # {} PROVE g[s] = T(Max(s), g[s \ {Max(s)}])
        <3>1. Max(s) \in 1..n /\ g[s \ {Max(s)}] \in PreStates
            BY <1>4, <2>1, <2>2, Rows
        <3>. QED  BY <1>5, <2>1, <2>2, <3>1 DEF LeftEq
    <2>3. Eq(g)
        BY <1>1, <2>1, <2>2 DEF LeftEq
    <2> HIDE DEF Eq
    <2>. QED  BY <2>3
<1> HIDE DEF end
<1>7. LeftEq(n, PreStates, base, F, end)
    <2>1. ASSUME NEW s \in SUBSET (1..n), s # {}, end[s \ {Max(s)}] \in PreStates
          PROVE  end[s] = F[<<Max(s), end[s \ {Max(s)}]>>]
        <3>1. Max(s) \in 1..n
            BY <1>4, <2>1, Rows
        <3>2. end[s] = T(Max(s), end[s \ {Max(s)}])
            BY <1>1, <1>6, <2>1
        <3>. QED  BY <1>5, <2>1, <3>1, <3>2
    <2>. QED  BY <1>1, <1>6, <2>1 DEF LeftEq
<1>8. Row(n, PreStates, base, F, [k \in 1..n |-> k], h) /\ h[n] = end[1..n]
    BY <1>4, <1>7, LeftIndex
<1> HIDE DEF h
<1>9. \A k \in 1..n : h[k] = T(k, h[k - 1])
    BY <1>5, <1>8 DEF Row
<1>10. h \in [0..n -> PreStates] /\ h[0] = base /\ h[n] = preTransitions(b, A)
    BY <1>1, <1>3, <1>8 DEF Row
<1>. QED  BY <1>9, <1>10 DEF T, n, base, code

\* Where the transitions come to the same state, the block ends with types that
\* it ended with before.
LEMMA PreSame ==
    ASSUME WellFormed(fn), NEW b, NEW A \in States, Pred[b] \in States,
           Code[b] \in Seq(PlainItems),
           SameInfo(preTransitions(b, A).cur, preTransitions(b, A).old)
    PROVE  Alike(computeVLVTYPEChanges(Code[b], A), computeVLVTYPEChanges(Code[b], Pred[b]))
<1> DEFINE code == Code[b]
           n == Len(code)
           T(k, B) == transferAfter(transferBefore(B, code[k].now), code[k].now)
<1>1. n \in Nat /\ \A k \in 1..n : Plain(code[k].now)
    BY DEF PlainItems
<1>2. PICK f \in [0..n -> States] :
         /\ f[0] = A /\ f[n] = computeVLVTYPEChanges(code, A)
         /\ \A k \in 1..n : f[k] = T(k, f[k - 1])
    BY ChangesFold
<1>3. PICK g \in [0..n -> States] :
         /\ g[0] = Pred[b] /\ g[n] = computeVLVTYPEChanges(code, Pred[b])
         /\ \A k \in 1..n : g[k] = T(k, g[k - 1])
    BY ChangesFold
<1>4. PICK h \in [0..n -> PreStates] :
         /\ h[0] = [cur |-> A, old |-> Pred[b], removed |-> 0, done |-> FALSE]
         /\ h[n] = preTransitions(b, A)
         /\ \A k \in 1..n : h[k] = preStep(h[k - 1], code[k].now)
    BY PreFold
<1> HIDE DEF code, n
<1> DEFINE P == {k \in 0..n : /\ ~h[k].done => h[k].cur = f[k] /\ h[k].old = g[k]
                              /\ h[k].done => Alike(f[k], g[k])}
<1>5. 0 \in P
    BY <1>1, <1>2, <1>3, <1>4
<1>6. ASSUME NEW k \in 1..n, k - 1 \in P
      PROVE  k \in P
    <2>1. k - 1 \in 0..n /\ k \in 0..n
        BY <1>1
    <2>2. f[k - 1] \in States /\ g[k - 1] \in States /\ f[k] \in States /\ g[k] \in States
        BY <1>2, <1>3, <2>1
    <2>3. CASE h[k - 1].done
        <3>1. h[k] = h[k - 1]
            BY <1>4, <2>3 DEF preStep
        <3>2. Alike(f[k - 1], g[k - 1])
            BY <1>6, <2>3
        <3>3. transferBefore(f[k - 1], code[k].now) \in States
              /\ transferBefore(g[k - 1], code[k].now) \in States
            BY <1>1, <2>2, BeforeType
        <3>4. Alike(T(k, f[k - 1]), T(k, g[k - 1]))
            BY <2>2, <3>2, <3>3, AlikeBefore, AlikeAfter
        <3> HIDE DEF T
        <3>5. Alike(f[k], g[k])
            BY <1>2, <1>3, <3>4
        <3>. QED  BY <2>1, <2>3, <3>1, <3>5
    <2>4. CASE ~h[k - 1].done
        <3>1. h[k - 1].cur = f[k - 1] /\ h[k - 1].old = g[k - 1]
            BY <1>6, <2>4
        <3>2. /\ h[k].cur = T(k, f[k - 1]) /\ h[k].old = T(k, g[k - 1])
              /\ h[k].done = SameInfo(T(k, f[k - 1]), T(k, g[k - 1]))
            <4>1. h[k] = preStep(h[k - 1], code[k].now)
                BY <1>4
            <4>. QED  BY <2>4, <3>1, <4>1, PreStepFields
        <3> HIDE DEF T
        <3>3. /\ h[k].cur = f[k] /\ h[k].old = g[k] /\ h[k].done = SameInfo(f[k], g[k])
            BY <1>2, <1>3, <3>2
        <3>4. h[k].done => Alike(f[k], g[k])
            BY <2>2, <3>3, SameAlike
        <3>. QED  BY <2>1, <3>3, <3>4
    <2>. QED  BY <2>3, <2>4
<1> HIDE DEF P, T
<1>7. n \in P
    BY <1>1, <1>5, <1>6, IndexInduction
<1>8. f[n] \in States /\ g[n] \in States
    BY <1>1, <1>2, <1>3
<1>9. SameInfo(h[n].cur, h[n].old)
    BY <1>4 DEF code, n
<1>10. Alike(f[n], g[n])
    <2>1. CASE h[n].done
        BY <1>7, <2>1 DEF P
    <2>2. CASE ~h[n].done
        BY <1>7, <1>8, <1>9, <2>2, SameAlike DEF P
    <2>. QED  BY <2>1, <2>2
<1>. QED  BY <1>2, <1>3, <1>10 DEF code, n
-----------------------------------------------------------------------------
(* What of VTYPE an instruction depends on.                                 *)

\* A scalar is moved to or slid into the first element, and that is all of VL.
oneElement(I) ==
    I.kind \in {"slide", "splat"} /\ I.avl.kind = "imm" /\ I.avl.n = 1 /\ I.undefMerge

\* D asks of VTYPE what getDemanded does for I.
AsksVTYPE(I, D) ==
    LET wider == IF I.float /\ ~fn.F64 THEN SEWGreaterThanOrEqualAndLessThan64
                 ELSE SEWGreaterThanOrEqual
        masked == I.usesMaskPolicy /\ ~I.store
    IN  /\ I.kind \in {"arith", "ff"} \/ (I.kind \in {"slide", "splat"} /\ ~oneElement(I)) =>
              /\ D.SEW = SEWEqual /\ D.LMUL = LMULEqual /\ D.SEWLMULRatio
              /\ D.TailPolicy = ~I.store /\ D.MaskPolicy = masked
        /\ I.kind \in {"mem", "mask"} =>
              /\ D.SEW = SEWNone /\ D.LMUL = LMULNone /\ D.SEWLMULRatio
              /\ D.TailPolicy = ~I.store /\ D.MaskPolicy = masked
        /\ I.kind = "insert" =>
              /\ D.SEW = IF I.undefMerge THEN wider ELSE SEWEqual
              /\ D.LMUL = LMULNone /\ ~D.SEWLMULRatio
              /\ D.TailPolicy = ~I.undefMerge /\ D.MaskPolicy = masked
        /\ I.kind = "extract" =>
              /\ D.SEW = SEWEqual /\ D.LMUL = LMULNone /\ ~D.SEWLMULRatio
              /\ ~D.TailPolicy /\ ~D.MaskPolicy
        /\ I.kind = "slide" /\ oneElement(I) =>
              /\ D.SEW = SEWEqual /\ D.LMUL = LMULLessThanOrEqualToM1 /\ D.SEWLMULRatio
              /\ ~D.TailPolicy /\ D.MaskPolicy = masked
        /\ I.kind = "splat" /\ oneElement(I) =>
              /\ D.SEW = wider /\ D.LMUL = LMULLessThanOrEqualToM1 /\ ~D.SEWLMULRatio
              /\ ~D.TailPolicy /\ D.MaskPolicy = masked

\* It does so whether or not VL and VTYPE are among the operands already.
LEMMA DemandParts ==
    ASSUME NEW I \in Instruction, hasSEWOp(I), NEW explicit
    PROVE  AsksVTYPE(I, getDemanded(I, explicit))
<1> DEFINE vlAsked == hasVLOp(I) /\ (explicit \/ I.avl.kind # "undef")
           one == hasVLOp(I) /\ I.avl.kind = "imm" /\ I.avl.n = 1 /\ I.undefMerge
           wider == IF I.float /\ ~fn.F64 THEN SEWGreaterThanOrEqualAndLessThan64
                    ELSE SEWGreaterThanOrEqual
           tail == ~I.store
           masked == I.usesMaskPolicy /\ ~I.store
           start0 == IF vlAsked THEN All ELSE demandVTYPE(NothingDemanded)
           start == [start0 EXCEPT !.TailPolicy = tail, !.MaskPolicy = masked]
           D == getDemanded(I, explicit)
<1>1. start0 \in DemandedFields /\ start0.SEW = SEWEqual /\ start0.LMUL = LMULEqual
      /\ start0.SEWLMULRatio
    BY DemandedConstants DEF All, demandVTYPE, demandVL, NothingDemanded
<1>2. I.kind \in VectorOps /\ I.undefMerge \in BOOLEAN
    BY DEF hasSEWOp, Instruction
<1>4. tail \in BOOLEAN /\ masked \in BOOLEAN
    BY DEF Instruction
<1> HIDE DEF start0, tail, masked
<1>3. /\ start.SEW = SEWEqual /\ start.LMUL = LMULEqual /\ start.SEWLMULRatio
      /\ start.TailPolicy = tail /\ start.MaskPolicy = masked
      /\ start = [VLAny |-> start.VLAny, VLZeroness |-> start.VLZeroness, SEW |-> start.SEW,
                  LMUL |-> start.LMUL, SEWLMULRatio |-> start.SEWLMULRatio,
                  TailPolicy |-> start.TailPolicy, MaskPolicy |-> start.MaskPolicy]
    <2>1. start \in DemandedFields
        BY <1>1, <1>4 DEF DemandedFields
    <2>2. /\ start.SEW = start0.SEW /\ start.LMUL = start0.LMUL
          /\ start.SEWLMULRatio = start0.SEWLMULRatio
          /\ start.TailPolicy = tail /\ start.MaskPolicy = masked
        BY <1>1 DEF DemandedFields
    <2> HIDE DEF start
    <2>. QED  BY <1>1, <2>1, <2>2 DEF DemandedFields
<1> HIDE DEF wider, vlAsked
<1>5. D = CASE I.kind = "call" -> All
          [] I.kind = "vset" /\ I.readsVL -> demandVL(NothingDemanded)
          [] I.kind \in {"arith", "ff"} \/ (I.kind \in {"slide", "splat"} /\ ~one) -> start
          [] I.kind \in {"mem", "mask"} -> [start EXCEPT !.SEW = SEWNone, !.LMUL = LMULNone]
          [] I.kind = "insert" ->
                [start EXCEPT !.LMUL = LMULNone, !.SEWLMULRatio = FALSE, !.VLAny = FALSE,
                              !.SEW = IF I.undefMerge THEN wider ELSE @,
                              !.TailPolicy = ~I.undefMerge]
          [] I.kind = "extract" ->
                [start EXCEPT !.LMUL = LMULNone, !.SEWLMULRatio = FALSE,
                              !.TailPolicy = FALSE, !.MaskPolicy = FALSE]
          [] I.kind = "slide" /\ one ->
                [start EXCEPT !.VLAny = FALSE, !.VLZeroness = TRUE,
                              !.LMUL = LMULLessThanOrEqualToM1, !.TailPolicy = FALSE]
          [] I.kind = "splat" /\ one ->
                [start EXCEPT !.LMUL = LMULLessThanOrEqualToM1, !.SEWLMULRatio = FALSE,
                              !.VLAny = FALSE, !.SEW = wider, !.TailPolicy = FALSE]
          [] I.kind \in {"def", "li", "use", "none"} \/ (I.kind = "vset" /\ ~I.readsVL) ->
                NothingDemanded
    BY DEF getDemanded, wider, vlAsked, start0, tail, masked
<1>6. I.kind \in {"slide", "splat"} => (one <=> oneElement(I))
    BY DEF oneElement, hasVLOp, hasSEWOp, VectorOps
<1> HIDE DEF D, one, start
<1>7. CASE I.kind \in {"arith", "ff"} \/ (I.kind \in {"slide", "splat"} /\ ~one)
    <2>1. D = start
        BY <1>5, <1>7
    <2>. QED  BY <1>3, <1>6, <1>7, <2>1 DEF D, AsksVTYPE, tail, masked
<1>8. CASE I.kind \in {"mem", "mask"}
    <2>1. D = [start EXCEPT !.SEW = SEWNone, !.LMUL = LMULNone]
        BY <1>5, <1>8
    <2>2. /\ D.SEW = SEWNone /\ D.LMUL = LMULNone /\ D.SEWLMULRatio
          /\ D.TailPolicy = tail /\ D.MaskPolicy = masked
        BY <1>3, <2>1
    <2>. QED  BY <1>8, <2>2 DEF D, AsksVTYPE, tail, masked
<1>9. CASE I.kind = "insert"
    <2> DEFINE sew == IF I.undefMerge THEN wider ELSE start.SEW
               undisturbed == ~I.undefMerge
    <2>1. D = [start EXCEPT !.LMUL = LMULNone, !.SEWLMULRatio = FALSE, !.VLAny = FALSE,
                            !.SEW = sew, !.TailPolicy = undisturbed]
        BY <1>5, <1>9
    <2> HIDE DEF sew, undisturbed
    <2>2. /\ D.SEW = sew /\ D.LMUL = LMULNone /\ D.SEWLMULRatio = FALSE
          /\ D.TailPolicy = undisturbed /\ D.MaskPolicy = masked
        BY <1>3, <2>1
    <2>3. sew = IF I.undefMerge THEN wider ELSE SEWEqual
        BY <1>3 DEF sew
    <2>. QED  BY <1>9, <2>2, <2>3 DEF D, AsksVTYPE, undisturbed, masked, wider
<1>10. CASE I.kind = "extract"
    <2>1. D = [start EXCEPT !.LMUL = LMULNone, !.SEWLMULRatio = FALSE,
                            !.TailPolicy = FALSE, !.MaskPolicy = FALSE]
        BY <1>5, <1>10
    <2>2. /\ D.SEW = SEWEqual /\ D.LMUL = LMULNone /\ D.SEWLMULRatio = FALSE
          /\ D.TailPolicy = FALSE /\ D.MaskPolicy = FALSE
        BY <1>3, <2>1
    <2>. QED  BY <1>10, <2>2 DEF D, AsksVTYPE
<1>11. CASE I.kind = "slide" /\ one
    <2>1. D = [start EXCEPT !.VLAny = FALSE, !.VLZeroness = TRUE,
                            !.LMUL = LMULLessThanOrEqualToM1, !.TailPolicy = FALSE]
        BY <1>5, <1>11
    <2>2. /\ D.SEW = SEWEqual /\ D.LMUL = LMULLessThanOrEqualToM1 /\ D.SEWLMULRatio
          /\ D.TailPolicy = FALSE /\ D.MaskPolicy = masked
        BY <1>3, <2>1
    <2>. QED  BY <1>6, <1>11, <2>2 DEF D, AsksVTYPE, masked
<1>12. CASE I.kind = "splat" /\ one
    <2>1. D = [start EXCEPT !.LMUL = LMULLessThanOrEqualToM1, !.SEWLMULRatio = FALSE,
                            !.VLAny = FALSE, !.SEW = wider, !.TailPolicy = FALSE]
        BY <1>5, <1>12
    <2>2. /\ D.SEW = wider /\ D.LMUL = LMULLessThanOrEqualToM1 /\ D.SEWLMULRatio = FALSE
          /\ D.TailPolicy = FALSE /\ D.MaskPolicy = masked
        BY <1>3, <2>1
    <2>. QED  BY <1>6, <1>12, <2>2 DEF D, AsksVTYPE, masked, wider
<1>. QED  BY <1>2, <1>7, <1>8, <1>9, <1>10, <1>11, <1>12 DEF VectorOps

\* What an instruction depends on is read off it also when its AVL register is
\* erased.
LEMMA DemandErased ==
    ASSUME NEW I \in Instruction, hasSEWOp(I), NEW J,
           J = I \/ (J = [I EXCEPT !.avl = NoAVL] /\ I.avl.kind = "reg")
    PROVE  /\ J \in Instruction /\ hasSEWOp(J) /\ J.kind = I.kind
           /\ AsksVTYPE(I, getDemanded(J, TRUE))
<1>1. CASE J = I
    BY <1>1, DemandParts
<1>2. CASE J = [I EXCEPT !.avl = NoAVL] /\ I.avl.kind = "reg"
    <2>1. J \in Instruction
        BY <1>2, ValueTypes DEF Instruction
    <2>2. /\ J.kind = I.kind /\ J.float = I.float /\ J.usesMaskPolicy = I.usesMaskPolicy
          /\ J.store = I.store /\ J.undefMerge = I.undefMerge /\ J.avl = NoAVL
        BY <1>2 DEF Instruction
    <2>3. ~oneElement(I) /\ ~oneElement(J)
        BY <1>2, <2>2 DEF oneElement, NoAVL
    <2>4. AsksVTYPE(J, getDemanded(J, TRUE))
        BY <2>1, <2>2, DemandParts DEF hasSEWOp
    <2>5. AsksVTYPE(I, getDemanded(J, TRUE))
        BY <2>2, <2>3, <2>4 DEF AsksVTYPE
    <2>. QED  BY <2>1, <2>2, <2>5 DEF hasSEWOp
<1>. QED  BY <1>1, <1>2

\* A type has what an instruction asks for of New, as far as D says.  A type
\* of SEW 64 is not told from those of less, which doUnion forgets.
MeetsRoughly(t, New, D) ==
    /\ D.SEW = SEWEqual => t.sew = New.sew
    /\ D.SEW # SEWNone => t.sew >= New.sew
    /\ D.LMUL = LMULEqual => t.lmul = New.lmul
    /\ D.LMUL = LMULLessThanOrEqualToM1 => t.lmul = New.lmul \/ isLMUL1OrSmaller(t.lmul)
    /\ D.SEWLMULRatio => getSEWLMULRatio(t) = getSEWLMULRatio(New)
    /\ D.TailPolicy => t.ta = New.ta
    /\ D.MaskPolicy => t.ma = New.ma

\* The type t serves the vector instruction I of the function.
Fits(I, t) ==
    hasSEWOp(I) => MeetsRoughly(t, computeInfoForInstr(I).vt, getDemanded(I, FALSE))

LEMMA RoughlyMeets ==
    ASSUME NEW t \in VType, NEW New \in VType, NEW D \in DemandedFields, MeetsVTYPE(t, New, D)
    PROVE  MeetsRoughly(t, New, D)
BY DEF MeetsVTYPE, MeetsRoughly, VType, DemandedFields, SEWEqual, SEWGreaterThanOrEqual,
       SEWGreaterThanOrEqualAndLessThan64, SEWNone

\* The type known before an instruction serves it.
LEMMA BeforeFits ==
    ASSUME WellFormed(fn), NEW A \in States, NEW I, Plain(I)
    PROVE  /\ Fits(I, transferBefore(A, I).vt)
           /\ hasSEWOp(I) => Full(transferBefore(A, I))
<1> SUFFICES ASSUME hasSEWOp(I)
             PROVE  /\ Full(transferBefore(A, I))
                    /\ MeetsRoughly(transferBefore(A, I).vt, computeInfoForInstr(I).vt,
                                    getDemanded(I, FALSE))
    BY DEF Fits
<1> DEFINE New == computeInfoForInstr(I)
           D == getDemanded(I, FALSE)
           B == transferBefore(A, I)
<1>1. Full(New) /\ D \in DemandedFields /\ (D.SEW # SEWNone \/ D.SEWLMULRatio)
    BY RequiredInfo, DemandedType DEF Plain
<1>2. B = IF isCompatible(A, D, New) THEN A ELSE changedFor(A, New, D)
    BY DEF transferBefore, needVSETVLI
<1> HIDE DEF New, D, B
<1>3. IsInfo(A) /\ IsInfo(New) /\ New.State = "AVL" /\ New.vt \in VType /\ A.vt \in VType
    BY <1>1, StateInfo DEF Full, States, LegalType
<1>4. CASE isCompatible(A, D, New)
    <2>1. B = A /\ isKnown(A) /\ ~A.SEWLMULRatioOnly /\ areCompatibleVTYPEs(New.vt, A.vt, D)
        BY <1>2, <1>4 DEF isCompatible
    <2>2. Full(B)
        BY <2>1, KnownState DEF Full
    <2>3. MeetsRoughly(B.vt, New.vt, D)
        BY <1>1, <1>3, <2>1, CompatibleMeets, RoughlyMeets
    <2>. QED  BY <2>2, <2>3 DEF B, D, New
<1>5. CASE ~isCompatible(A, D, New)
    <2>1. B = changedFor(A, New, D)
        BY <1>2, <1>5
    <2>2. Full(B)
        BY <1>1, <2>1, ChangeFull
    <2>3. B.vt \in VType
        BY <2>2 DEF Full, States, LegalType
    <2>4. MeetsVTYPE(B.vt, New.vt, D)
        BY <1>1, <1>3, <2>1, ChangeMeets
    <2>5. MeetsRoughly(B.vt, New.vt, D)
        BY <1>1, <1>3, <2>3, <2>4, RoughlyMeets
    <2>. QED  BY <2>2, <2>5 DEF B, D, New
<1>. QED  BY <1>4, <1>5

\* A type that is what an instruction depends on serves it.
LEMMA FitsServes ==
    ASSUME NEW I, Plain(I), hasSEWOp(I), NEW t \in VType, Fits(I, t)
    PROVE  typeServes(I, t)
<1> DEFINE New == computeInfoForInstr(I).vt
           D == getDemanded(I, FALSE)
<1>1. MeetsRoughly(t, New, D) /\ AsksVTYPE(I, D)
    BY DemandParts DEF Fits, Plain
<1>2. /\ New.sew = I.vt.sew /\ New.lmul = I.vt.lmul
      /\ New.ta <=> I.vt.ta \/ I.undefMerge
      /\ New.ma <=> I.vt.ma \/ I.undefMerge \/ ~I.usesMaskPolicy
    <2> DEFINE vt == [I.vt EXCEPT !.ta = @ \/ I.undefMerge,
                                  !.ma = @ \/ I.undefMerge \/ ~I.usesMaskPolicy]
    <2>1. New = vt
        BY DEF computeInfoForInstr, Info
    <2>2. /\ vt.sew = I.vt.sew /\ vt.lmul = I.vt.lmul
          /\ vt.ta <=> I.vt.ta \/ I.undefMerge
          /\ vt.ma <=> I.vt.ma \/ I.undefMerge \/ ~I.usesMaskPolicy
        BY DEF Plain, Instruction, VType
    <2> HIDE DEF vt, New
    <2>. QED  BY <2>1, <2>2
<1>3. /\ I.vt \in VType /\ I.undefMerge \in BOOLEAN /\ I.store \in BOOLEAN
      /\ I.usesMaskPolicy \in BOOLEAN /\ I.kind \in VectorOps
    BY DEF Plain, Instruction, hasSEWOp
<1>4. I.kind \in {"splat", "slide"} => (single(I) <=> oneElement(I))
    <2>1. I.avl.kind = "imm" => I.avl = AVLImm(I.avl.n)
        <3>1. ASSUME I.avl.kind = "imm" PROVE I.avl = AVLImm(I.avl.n)
            <4>1. operandAVL(I.avl) = I.avl
                BY <3>1 DEF operandAVL
            <4>2. I.avl \in AVL /\ I.avl.vn = NoValue
                BY <3>1, <4>1 DEF Plain, PlainAVL, Canonical
            <4>. QED  BY <3>1, <4>2 DEF AVL, AVLImm
        <3>. QED  BY <3>1
    <2>2. AVLImm(1).kind = "imm" /\ AVLImm(1).n = 1
        BY DEF AVLImm
    <2>. QED  BY <2>1, <2>2 DEF single, oneElement
<1> HIDE DEF New, D
<1> DEFINE undisturbed ==
            ~I.undefMerge /\ ~I.store => /\ ~I.vt.ta => ~t.ta
                                         /\ I.usesMaskPolicy /\ ~I.vt.ma => ~t.ma
           sameRatio == getSEWLMULRatio(t) = getSEWLMULRatio(I.vt)
           small == t.lmul <= 0 \/ t.lmul <= I.vt.lmul
<1>5. ASSUME ~I.undefMerge /\ ~I.store => D.TailPolicy,
             D.MaskPolicy = (I.usesMaskPolicy /\ ~I.store)
      PROVE  undisturbed
    BY <1>1, <1>2, <1>3, <1>5 DEF MeetsRoughly, VType
<1>6. D.SEWLMULRatio => sameRatio
    BY <1>1, <1>2 DEF MeetsRoughly, getSEWLMULRatio
<1>7. D.LMUL = LMULLessThanOrEqualToM1 => small
    BY <1>1, <1>2, <1>3 DEF MeetsRoughly, isLMUL1OrSmaller, VType
<1>8. /\ D.SEW = SEWEqual => t.sew = I.vt.sew
      /\ D.SEW # SEWNone => t.sew >= I.vt.sew
      /\ D.LMUL = LMULEqual => t.lmul = I.vt.lmul
    BY <1>1, <1>2 DEF MeetsRoughly
<1>9. /\ SEWEqual # SEWNone /\ SEWGreaterThanOrEqual # SEWNone
      /\ SEWGreaterThanOrEqualAndLessThan64 # SEWNone
    BY DEF SEWEqual, SEWNone, SEWGreaterThanOrEqual, SEWGreaterThanOrEqualAndLessThan64
<1> HIDE DEF undisturbed, sameRatio, small
<1> DEFINE served == CASE I.kind \in {"mem", "mask"} -> sameRatio /\ undisturbed
          [] I.kind = "extract" -> t.sew = I.vt.sew
          [] I.kind = "insert" -> IF I.undefMerge THEN t.sew >= I.vt.sew
                                  ELSE t.sew = I.vt.sew /\ undisturbed
          [] I.kind = "splat" /\ single(I) -> t.sew >= I.vt.sew /\ small
          [] I.kind = "slide" /\ single(I) -> t.sew = I.vt.sew /\ sameRatio /\ small
          [] I.kind \in {"arith", "splat", "slide", "ff"} /\ ~single(I) ->
                undisturbed /\ t.sew = I.vt.sew /\ t.lmul = I.vt.lmul
<1>10. typeServes(I, t) <=> served
    BY DEF typeServes, undisturbed, sameRatio, small
<1>11. CASE I.kind \in {"mem", "mask"}
    BY <1>1, <1>3, <1>5, <1>6, <1>10, <1>11 DEF AsksVTYPE
<1>12. CASE I.kind = "extract"
    BY <1>1, <1>8, <1>10, <1>12 DEF AsksVTYPE
<1>13. CASE I.kind = "insert"
    BY <1>1, <1>3, <1>5, <1>8, <1>9, <1>10, <1>13 DEF AsksVTYPE
<1>14. CASE I.kind = "splat" /\ single(I)
    BY <1>1, <1>4, <1>7, <1>8, <1>9, <1>10, <1>14 DEF AsksVTYPE
<1>15. CASE I.kind = "slide" /\ single(I)
    BY <1>1, <1>4, <1>6, <1>7, <1>8, <1>10, <1>15 DEF AsksVTYPE
<1>16. CASE I.kind \in {"arith", "splat", "slide", "ff"} /\ ~single(I)
    <2>1. I.kind \in {"arith", "ff"} \/ (I.kind \in {"slide", "splat"} /\ ~oneElement(I))
        BY <1>4, <1>16
    <2>2. undisturbed /\ t.sew = I.vt.sew /\ t.lmul = I.vt.lmul
        BY <1>1, <1>3, <1>5, <1>8, <2>1 DEF AsksVTYPE
    <2>. QED  BY <1>10, <1>16, <2>2
<1>17. I.kind \in {"arith", "ff"} => ~single(I)
    BY DEF single
<1>. QED  BY <1>3, <1>11, <1>12, <1>13, <1>14, <1>15, <1>16, <1>17 DEF VectorOps
-----------------------------------------------------------------------------
(* Types an instruction cannot tell from one another.                       *)

LEMMA RoughlyTransitive ==
    ASSUME NEW t \in VType, NEW u \in VType, NEW New \in VType, NEW D \in DemandedFields,
           MeetsRoughly(u, t, D), MeetsRoughly(t, New, D)
    PROVE  MeetsRoughly(u, New, D)
BY DEF MeetsRoughly, VType, DemandedFields, isLMUL1OrSmaller, LMULEqual, LMULLessThanOrEqualToM1

\* What can be told by an instruction can be told by two of them.
LEMMA RoughlyUnion ==
    ASSUME NEW t \in VType, NEW u \in VType, NEW D \in DemandedFields, NEW E \in DemandedFields
    PROVE  /\ doUnion(D, E) \in DemandedFields
           /\ D.VLAny => doUnion(D, E).VLAny
           /\ MeetsRoughly(u, t, doUnion(D, E)) => MeetsRoughly(u, t, D) /\ MeetsRoughly(u, t, E)
<1> DEFINE U == doUnion(D, E)
<1>1. /\ U.SEW = Greater(D.SEW, E.SEW) /\ U.LMUL = Greater(D.LMUL, E.LMUL)
      /\ U.SEWLMULRatio = (D.SEWLMULRatio \/ E.SEWLMULRatio)
      /\ U.TailPolicy = (D.TailPolicy \/ E.TailPolicy)
      /\ U.MaskPolicy = (D.MaskPolicy \/ E.MaskPolicy)
      /\ D.VLAny => U.VLAny
    BY DEF doUnion
<1>2. U \in DemandedFields
    <2>1. Greater(D.SEW, E.SEW) \in 0..3 /\ Greater(D.LMUL, E.LMUL) \in 0..2
        BY DEF Greater, DemandedFields
    <2> DEFINE sew == Greater(D.SEW, E.SEW)
               lmul == Greater(D.LMUL, E.LMUL)
    <2>2. U = [VLAny |-> D.VLAny \/ E.VLAny, VLZeroness |-> D.VLZeroness \/ E.VLZeroness,
               SEW |-> sew, LMUL |-> lmul,
               SEWLMULRatio |-> D.SEWLMULRatio \/ E.SEWLMULRatio,
               TailPolicy |-> D.TailPolicy \/ E.TailPolicy,
               MaskPolicy |-> D.MaskPolicy \/ E.MaskPolicy]
        BY DEF doUnion
    <2> HIDE DEF sew, lmul, U
    <2>. QED  BY <2>1, <2>2 DEF DemandedFields, sew, lmul
<1> HIDE DEF U
<1>3. ASSUME MeetsRoughly(u, t, U) PROVE MeetsRoughly(u, t, D) /\ MeetsRoughly(u, t, E)
    <2>1. /\ D.SEW \in 0..3 /\ E.SEW \in 0..3 /\ D.LMUL \in 0..2 /\ E.LMUL \in 0..2
          /\ t.sew \in 3..6 /\ u.sew \in 3..6
        BY DEF DemandedFields, VType
    <2>2. /\ D.SEW = 3 \/ E.SEW = 3 => u.sew = t.sew
          /\ D.SEW # 0 \/ E.SEW # 0 => u.sew >= t.sew
        BY <1>1, <1>3, <2>1 DEF MeetsRoughly, Greater, SEWEqual, SEWNone
    <2>3. /\ D.LMUL = 2 \/ E.LMUL = 2 => u.lmul = t.lmul
          /\ D.LMUL = 1 \/ E.LMUL = 1 => u.lmul = t.lmul \/ isLMUL1OrSmaller(u.lmul)
        BY <1>1, <1>3, <2>1 DEF MeetsRoughly, Greater, LMULEqual, LMULLessThanOrEqualToM1
    <2>4. /\ D.SEWLMULRatio \/ E.SEWLMULRatio => getSEWLMULRatio(u) = getSEWLMULRatio(t)
          /\ D.TailPolicy \/ E.TailPolicy => u.ta = t.ta
          /\ D.MaskPolicy \/ E.MaskPolicy => u.ma = t.ma
        BY <1>1, <1>3 DEF MeetsRoughly
    <2>. QED  BY <2>2, <2>3, <2>4
              DEF MeetsRoughly, SEWEqual, SEWNone, LMULEqual, LMULLessThanOrEqualToM1
<1>. QED  BY <1>1, <1>2, <1>3 DEF U

LEMMA CompatibleRoughly ==
    ASSUME NEW t \in VType, NEW u \in VType, NEW D \in DemandedFields,
           areCompatibleVTYPEs(t, u, D)
    PROVE  MeetsRoughly(u, t, D)
BY CompatibleMeets, RoughlyMeets

\* Demands that ask the same of VTYPE are met by the same types.
LEMMA AsksSame ==
    ASSUME NEW I \in Instruction, hasSEWOp(I), NEW D, NEW E, AsksVTYPE(I, D), AsksVTYPE(I, E)
    PROVE  \A t, New : MeetsRoughly(t, New, D) <=> MeetsRoughly(t, New, E)
<1>1. I.kind \in VectorOps
    BY DEF hasSEWOp
<1>2. /\ D.SEW = E.SEW /\ D.LMUL = E.LMUL /\ (D.SEWLMULRatio <=> E.SEWLMULRatio)
      /\ (D.TailPolicy <=> E.TailPolicy) /\ (D.MaskPolicy <=> E.MaskPolicy)
    BY <1>1 DEF AsksVTYPE, VectorOps
<1>. QED  BY <1>2 DEF MeetsRoughly

\* The type may change for I where what is demanded is D.
Tolerates(I, D) ==
    \A t \in VType : \A u \in VType : Fits(I, t) /\ MeetsRoughly(u, t, D) => Fits(I, u)

LEMMA ToleratesOwn ==
    ASSUME WellFormed(fn), NEW I, Plain(I), NEW J,
           hasSEWOp(I) => J = I \/ (J = [I EXCEPT !.avl = NoAVL] /\ I.avl.kind = "reg")
    PROVE  Tolerates(I, getDemanded(J, TRUE))
<1>1. CASE hasSEWOp(I)
    <2> DEFINE New == computeInfoForInstr(I).vt
               D == getDemanded(I, FALSE)
               E == getDemanded(J, TRUE)
    <2>1. I \in Instruction /\ D \in DemandedFields /\ New \in VType
        BY DemandedType, RequiredInfo DEF Plain, Full, States, LegalType
    <2>2. AsksVTYPE(I, D) /\ AsksVTYPE(I, E)
        BY <1>1, <2>1, DemandParts, DemandErased
    <2>3. \A t, u : MeetsRoughly(t, u, D) <=> MeetsRoughly(t, u, E)
        BY <1>1, <2>1, <2>2, AsksSame
    <2>4. \A t : Fits(I, t) <=> MeetsRoughly(t, New, D)
        BY <1>1 DEF Fits
    <2> HIDE DEF New, D, E
    <2>5. Tolerates(I, E)
        BY <2>1, <2>3, <2>4, RoughlyTransitive DEF Tolerates
    <2>. QED  BY <2>5 DEF E
<1>2. CASE ~hasSEWOp(I)
    BY <1>2 DEF Tolerates, Fits
<1>. QED  BY <1>1, <1>2

LEMMA ToleratesUnion ==
    ASSUME NEW I, NEW D \in DemandedFields, NEW E \in DemandedFields,
           Tolerates(I, D) \/ Tolerates(I, E)
    PROVE  Tolerates(I, doUnion(D, E))
BY RoughlyUnion DEF Tolerates

-----------------------------------------------------------------------------
(* Places, and the types they lead through.                                 *)

\* A place of the function that the pass has not come to yet.
FreshItems ==
    {x \in PlainItems : /\ Plain(x.was)
                        /\ hasSEWOp(x.was) \/ hasSEWOp(x.now) => x.now = x.was}

\* A place of the code that the pass makes of it.
PlacedItems ==
    {x \in Item :
        /\ Plain(x.was) /\ x.now.vt \in LegalType
        /\ x.now.avl.kind = "keep" => x.now.kind = "vset" /\ x.now.readsVL
        /\ x.now.avl.kind # "keep" => operandAVL(x.now.avl) \in PlainAVL
        /\ hasSEWOp(x.was) \/ hasSEWOp(x.now) =>
              \/ x.now = x.was
              \/ x.now = [x.was EXCEPT !.avl = NoAVL] /\ x.was.avl.kind = "reg"}

\* From a type in X the place leads to one in Y, where it finds what it needs.
Passes(x, X, Y) ==
    /\ \A t \in X : Fits(x.was, t)
    /\ x.now.kind = "vset" =>
          /\ x.now.vt \in Y
          /\ x.now.avl.kind = "keep" => \A t \in X : getSEWLMULRatio(t) = getSEWLMULRatio(x.now.vt)
    /\ x.now.kind = "call" => VType \subseteq Y
    /\ x.now.kind \notin {"vset", "call"} => X \subseteq Y

\* K has types for each place of the code, and the places lead from one to the next.
Path(code, K) ==
    /\ K \in [1..(Len(code) + 1) -> SUBSET VType]
    /\ \A k \in 1..Len(code) : Passes(code[k], K[k], K[k + 1])

\* The code leads from the types in X to types in Y.
Leads(code, X, Y) == \E K : Path(code, K) /\ X \subseteq K[1] /\ K[Len(code) + 1] \subseteq Y

LEMMA PassesWithin ==
    ASSUME NEW x, NEW X, NEW Y, NEW U, NEW V, U \subseteq X, Y \subseteq V, Passes(x, X, Y)
    PROVE  Passes(x, U, V)
BY DEF Passes

LEMMA LeadsWithin ==
    ASSUME NEW code, NEW X, NEW Y, NEW V, Y \subseteq V, Leads(code, X, Y)
    PROVE  Leads(code, X, V)
BY DEF Leads

LEMMA LeadsNowhere ==
    ASSUME NEW X \in SUBSET VType
    PROVE  Leads(<<>>, X, X)
<1> DEFINE K == [k \in 1..1 |-> X]
<1>1. K \in [1..1 -> SUBSET VType] /\ K[1] = X
    OBVIOUS
<1> HIDE DEF K
<1>2. Len(<<>>) = 0
    OBVIOUS
<1>3. Path(<<>>, K)
    BY <1>1, <1>2 DEF Path
<1>. QED  BY <1>1, <1>2, <1>3 DEF Leads

LEMMA LeadsOn ==
    ASSUME NEW code \in Seq(Item), NEW x \in Item, NEW X, NEW Y, NEW Z \in SUBSET VType,
           Leads(code, X, Y), Passes(x, Y, Z)
    PROVE  Leads(Append(code, x), X, Z)
<1> DEFINE n == Len(code)
           c == Append(code, x)
<1>1. PICK K : /\ K \in [1..(n + 1) -> SUBSET VType]
               /\ \A k \in 1..n : Passes(code[k], K[k], K[k + 1])
               /\ X \subseteq K[1] /\ K[n + 1] \subseteq Y
    BY DEF Leads, Path
<1> DEFINE L == [k \in 1..(n + 2) |-> IF k = n + 2 THEN Z ELSE K[k]]
<1>2. n \in Nat /\ Len(c) = n + 1 /\ c[n + 1] = x /\ \A k \in 1..n : c[k] = code[k]
    OBVIOUS
<1> HIDE DEF n, c
<1>3. L \in [1..(n + 2) -> SUBSET VType] /\ L[n + 2] = Z /\ \A k \in 1..(n + 1) : L[k] = K[k]
    BY <1>1, <1>2
<1> HIDE DEF L
<1>4. ASSUME NEW k \in 1..(n + 1) PROVE Passes(c[k], L[k], L[k + 1])
    <2>1. CASE k = n + 1
        <3>1. L[k] = K[n + 1] /\ L[k + 1] = Z /\ c[k] = x
            BY <1>2, <1>3, <2>1
        <3>. QED  BY <1>1, <3>1, PassesWithin
    <2>2. CASE k # n + 1
        <3>1. k \in 1..n
            BY <1>2, <2>2
        <3>2. L[k] = K[k] /\ L[k + 1] = K[k + 1] /\ c[k] = code[k]
            BY <1>2, <1>3, <3>1
        <3>. QED  BY <1>1, <3>1, <3>2
    <2>. QED  BY <2>1, <2>2
<1>5. Path(c, L)
    <2>1. Len(c) + 1 = n + 2
        BY <1>2
    <2>. QED  BY <1>2, <1>3, <1>4, <2>1 DEF Path
<1>6. X \subseteq L[1] /\ L[Len(c) + 1] \subseteq Z
    BY <1>1, <1>2, <1>3
<1>. QED  BY <1>5, <1>6 DEF Leads, c
-----------------------------------------------------------------------------
(* What emitVSETVLIs makes of a block.                                      *)

\* The types block b may be entered with.
Entry(b) ==
    IF b = 1 THEN VType ELSE {t \in VType : \E p \in predecessors(b) : t \in TypesOf(Exit[p])}

\* The step of the fold of emitted, and the values it goes through.
emitStep(b, S, item) ==
    LET I == item.now
        before == transferBefore(S.cur, I)
        changes == hasSEWOp(I) /\ ~isCompatible(S.cur, All, before)
        inserts == changes /\ (~S.prefix \/ needVSETVLIPHI(before, b))
    IN  [cur |-> transferAfter(before, I),
         prefix |-> S.prefix /\ ~changes /\ ~isVectorConfigInstr(I) /\ ~clobbersVL(I),
         code |-> S.code \o (IF inserts THEN <<Inserted(insertVSETVLI(before, S.cur))>>
                             ELSE <<>>) \o <<erased(item)>>]
EmitStates == [cur: States, prefix: BOOLEAN, code: Seq(PlacedItems)]

\* What is emitted leads to the types of what is known; as long as nothing in
\* the block changes VL or VTYPE, to those the block is entered with.
EmitInv(b, S) ==
    /\ Leads(S.code, Entry(b), TypesOf(S.cur))
    /\ S.prefix => Leads(S.code, Entry(b), Entry(b)) /\ Entry(b) \subseteq TypesOf(S.cur)

LEMMA NoInstructionPlain ==
    ASSUME WellFormed(fn)
    PROVE  Plain(NoInstruction) /\ \A t : Fits(NoInstruction, t)
<1>1. NoVType \in LegalType
    BY FunctionType DEF NoVType, LegalType, VType, getSEWLMULRatio
<1>2. operandAVL(NoAVL) = AVLImm(1)
    BY DEF operandAVL, NoAVL
<1>3. AVLImm(1) \in PlainAVL
    BY ImmediateType
<1>4. NoAVL.kind # "keep"
    BY DEF NoAVL
<1>. QED  BY <1>1, <1>2, <1>3, <1>4, NoInstructionType DEF Plain, Fits, hasSEWOp, VectorOps

\* The vset inserted for A where P is known.
LEMMA InsertedPlaced ==
    ASSUME WellFormed(fn), NEW A, Full(A), NEW P \in States
    PROVE  LET x == Inserted(insertVSETVLI(A, P))
           IN  x \in PlacedItems /\ Passes(x, TypesOf(P), TypesOf(A))
<1> DEFINE V == insertVSETVLI(A, P)
           x == Inserted(V)
<1>1. A.avl \in PlainAVL /\ A.vt \in LegalType /\ A.avl \in AVL /\ A.vt \in VType
    BY DEF Full, States, PlainAVL, LegalType
<1>2. Keep \in AVL /\ Keep.kind = "keep"
    BY ValueTypes DEF Keep, AVL
<1>3. A.avl.kind # "keep"
    BY <1>1 DEF PlainAVL
<1>4. PICK a \in {Keep, A.avl} :
         V = Vset(a, A.vt) /\ (a = Keep => isKnown(P) /\ hasSameVLMAX(A, P))
    <2> DEFINE same == hasSameAVL(A, P) /\ hasSameVLMAX(A, P)
               sameAsOutput ==
                   /\ isKnown(P) /\ hasSameVLMAX(A, P)
                   /\ hasAVLDefMI(A.avl) /\ isVectorConfigInstr(getAVLDefMI(A.avl))
                   /\ LET Def == getInfoForVSETVLI(getAVLDefMI(A.avl))
                      IN  hasSameAVL(Def, P) /\ hasSameVLMAX(Def, P)
               keeps == same \/ sameAsOutput
    <2>1. hasSameAVL(A, P) => isKnown(P)
        BY Zenon DEF hasSameAVL, hasSameAVLLatticeValue
    <2>2. keeps => isKnown(P) /\ hasSameVLMAX(A, P)
        BY <2>1
    <2>3. V = Vset(IF keeps THEN Keep ELSE A.avl, A.vt)
        BY DEF insertVSETVLI
    <2> HIDE DEF keeps
    <2>. QED  BY <1>2, <1>3, <2>2, <2>3
<1>5. /\ V \in Instruction /\ V.kind = "vset" /\ V.avl = a /\ V.vt = A.vt
      /\ V.readsVL <=> a.kind = "keep"
    BY <1>1, <1>2, <1>4, VsetType
<1> HIDE DEF V
<1>6. x.was = NoInstruction /\ x.now = V /\ x \in Item
    BY <1>5, NoInstructionType DEF Inserted, Item
<1>7. a.kind # "keep" => operandAVL(a) \in PlainAVL
    BY <1>1, <1>2, <1>4, OperandAgain
<1>8. ~hasSEWOp(NoInstruction) /\ ~hasSEWOp(V)
    BY <1>5, NoInstructionType DEF hasSEWOp, VectorOps
<1> HIDE DEF x
<1>9. x \in PlacedItems
    BY <1>1, <1>5, <1>6, <1>7, <1>8, NoInstructionPlain DEF PlacedItems
<1>10. Passes(x, TypesOf(P), TypesOf(A))
    <2>1. A.vt \in TypesOf(A)
        BY FullTypes
    <2>2. ASSUME V.avl.kind = "keep", NEW t \in TypesOf(P)
          PROVE  getSEWLMULRatio(t) = getSEWLMULRatio(V.vt)
        <3>1. isKnown(P) /\ hasSameVLMAX(A, P)
            BY <1>3, <1>4, <1>5, <2>2
        <3>. QED  BY <1>5, <3>1, <2>2 DEF TypesOf, hasSameVLMAX, isKnown
    <2>. QED  BY <1>5, <1>6, <2>1, <2>2, NoInstructionPlain DEF Passes
<1>. QED  BY <1>9, <1>10 DEF x, V

\* Where a block is entered with the output VL and the type of a vset at the
\* end of each predecessor, no vset is needed.
LEMMA SkipPHI ==
    ASSUME WellFormed(fn), Exit \in [Blocks -> States], NEW b \in Blocks, NEW A, Full(A),
           ~needVSETVLIPHI(A, b)
    PROVE  Entry(b) \subseteq TypesOf(A)
<1>1. /\ A.avl.kind = "reg" /\ fn.LIS /\ A.avl.vn.def = <<b, 0>>
      /\ \A p \in predecessors(b) :
            /\ ~isUnknown(Exit[p]) /\ Exit[p].vt = A.vt
            /\ SameInfo(getInfoForVSETVLI(reachingDef(p, A.avl.vn.reg)), Exit[p])
    BY DEF needVSETVLIPHI
<1>2. b # 1
    <2>1. <<A.avl.vn.reg, A.avl.vn.def>> \in DefinitionsOf(fn)
        BY <1>1 DEF Full, States, PlainAVL, Canonical
    <2>2. A.avl.vn.def # <<1, 0>>
        BY <2>1, DefinedRegister
    <2>. QED  BY <1>1, <2>2
<1>3. ASSUME NEW p \in predecessors(b) PROVE TypesOf(Exit[p]) \subseteq {A.vt}
    <2> DEFINE C == getInfoForVSETVLI(reachingDef(p, A.avl.vn.reg))
    <2>1. C.State = "AVL" /\ C.SEWLMULRatioOnly = FALSE
        BY DEF getInfoForVSETVLI, Info
    <2>2. SameInfo(C, Exit[p])
        BY <1>1
    <2> HIDE DEF C
    <2>3. ~Exit[p].SEWLMULRatioOnly
        BY <2>1, <2>2 DEF SameInfo, isValid, isUnknown
    <2>. QED  BY <1>1, <2>3 DEF TypesOf
<1>. QED  BY <1>2, <1>3, FullTypes DEF Entry

\* An instruction of the function, as it is emitted.
LEMMA ErasedPlaced ==
    ASSUME WellFormed(fn), NEW x \in FreshItems
    PROVE  /\ erased(x) \in PlacedItems /\ erased(x).was = x.was
           /\ erased(x).now.kind = x.now.kind /\ erased(x).now.vt = x.now.vt
           /\ erased(x).now.avl.kind # "keep"
<1>1. /\ x \in Item /\ Plain(x.was) /\ Plain(x.now)
      /\ hasSEWOp(x.was) \/ hasSEWOp(x.now) => x.now = x.was
    BY DEF FreshItems, PlainItems
<1>2. CASE hasSEWOp(x.now) /\ x.now.avl.kind = "reg"
    <2> DEFINE J == [x.now EXCEPT !.avl = NoAVL]
               y == [x EXCEPT !.now = J]
    <2>1. erased(x) = y
        BY <1>2 DEF erased
    <2>2. J \in Instruction /\ J.kind = x.now.kind /\ J.vt = x.now.vt /\ J.avl = NoAVL
        BY <1>1, ValueTypes DEF Item, Instruction
    <2>3. J = [x.was EXCEPT !.avl = NoAVL] /\ x.was.avl.kind = "reg" /\ hasSEWOp(J)
        BY <1>1, <1>2, <2>2 DEF hasSEWOp
    <2>4. NoAVL.kind # "keep" /\ operandAVL(NoAVL) \in PlainAVL
        <3>1. operandAVL(NoAVL) = AVLImm(1) /\ NoAVL.kind = "none"
            BY DEF operandAVL, NoAVL
        <3>. QED  BY <3>1, ImmediateType
    <2> HIDE DEF J
    <2>5. y.was = x.was /\ y.now = J /\ y \in Item
        BY <1>1, <2>2 DEF Item
    <2> HIDE DEF y
    <2>6. y \in PlacedItems
        BY <1>1, <2>2, <2>3, <2>4, <2>5 DEF PlacedItems, Plain
    <2>. QED  BY <2>1, <2>2, <2>4, <2>5, <2>6
<1>3. CASE ~(hasSEWOp(x.now) /\ x.now.avl.kind = "reg")
    <2>1. erased(x) = x
        BY <1>3 DEF erased
    <2>2. x \in PlacedItems
        BY <1>1 DEF PlacedItems, Plain
    <2>. QED  BY <1>1, <2>1, <2>2 DEF Plain
<1>. QED  BY <1>2, <1>3

\* It leads from what is known before it to what is known after it.
LEMMA ErasedPasses ==
    ASSUME WellFormed(fn), NEW x \in FreshItems, NEW A \in States
    PROVE  LET B == transferBefore(A, x.now)
           IN  Passes(erased(x), TypesOf(B), TypesOf(transferAfter(B, x.now)))
<1> DEFINE I == x.now
           B == transferBefore(A, I)
           C == transferAfter(B, I)
<1>1. /\ x \in Item /\ Plain(x.was) /\ Plain(I)
      /\ hasSEWOp(x.was) \/ hasSEWOp(I) => I = x.was
    BY DEF FreshItems, PlainItems
<1>2. /\ B \in States /\ Fits(I, B.vt) /\ (hasSEWOp(I) => Full(B)) /\ I.vt \in VType
    BY <1>1, BeforeType, BeforeFits DEF Plain, Instruction
<1>3. \A t \in TypesOf(B) : Fits(x.was, t)
    <2>1. CASE hasSEWOp(x.was)
        <3>1. I = x.was /\ Full(B)
            BY <1>1, <1>2, <2>1
        <3>2. TypesOf(B) = {B.vt}
            BY <3>1, FullTypes
        <3>. QED  BY <1>2, <3>1, <3>2
    <2>2. CASE ~hasSEWOp(x.was)
        BY <2>2 DEF Fits
    <2>. QED  BY <2>1, <2>2
<1> HIDE DEF B
<1>4. I.kind = "vset" => I.vt \in TypesOf(C)
    <2> SUFFICES ASSUME I.kind = "vset" PROVE I.vt \in TypesOf(C)
        OBVIOUS
    <2>1. C = getInfoForVSETVLI(I)
        BY DEF transferAfter, isVectorConfigInstr
    <2>2. C.vt = I.vt
        BY <2>1 DEF getInfoForVSETVLI, Info
    <2>3. Full(C)
        BY <1>1, <2>1, VsetInfo
    <2>. QED  BY <2>2, <2>3, FullTypes
<1>5. I.kind = "call" => VType \subseteq TypesOf(C)
    <2>1. I.kind = "call" => C = Unknown
        BY DEF transferAfter, isVectorConfigInstr
    <2>. QED  BY <2>1, UnknownTypes
<1>6. I.kind \notin {"vset", "call"} => TypesOf(B) \subseteq TypesOf(C)
    <2>1. CASE I.kind = "ff"
        <3> DEFINE a == AVLReg(Known(I.dst))
        <3>1. C = [B EXCEPT !.avl = a]
            BY <2>1 DEF transferAfter, isVectorConfigInstr
        <3> HIDE DEF a
        <3>2. C.State = B.State /\ C.vt = B.vt /\ C.SEWLMULRatioOnly = B.SEWLMULRatioOnly
            BY <1>2, <3>1 DEF States
        <3>. QED  BY <3>2 DEF TypesOf, isValid, isUnknown
    <2>2. CASE I.kind \notin {"vset", "call", "ff"}
        <3>1. C = B
            BY <2>2 DEF transferAfter, isVectorConfigInstr
        <3>. QED  BY <3>1
    <2>. QED  BY <2>1, <2>2
<1> HIDE DEF C
<1>7. Passes(erased(x), TypesOf(B), TypesOf(C))
    BY <1>3, <1>4, <1>5, <1>6, ErasedPlaced DEF Passes
<1>. QED  BY <1>7 DEF B, C

\* An instruction is emitted, with a vset before it if it needs one.
LEMMA EmitStep ==
    ASSUME WellFormed(fn), Exit \in [Blocks -> States], NEW b \in Blocks,
           NEW S \in EmitStates, NEW x \in FreshItems
    PROVE  LET T == emitStep(b, S, x)
           IN  /\ T \in EmitStates
               /\ T.cur = transferAfter(transferBefore(S.cur, x.now), x.now)
               /\ EmitInv(b, S) => EmitInv(b, T)
<1> DEFINE I == x.now
           B == transferBefore(S.cur, I)
           C == transferAfter(B, I)
           changes == hasSEWOp(I) /\ ~isCompatible(S.cur, All, B)
           inserts == changes /\ (~S.prefix \/ needVSETVLIPHI(B, b))
           v == Inserted(insertVSETVLI(B, S.cur))
           e == erased(x)
           code1 == S.code \o (IF inserts THEN <<v>> ELSE <<>>)
           prefix == S.prefix /\ ~changes /\ ~isVectorConfigInstr(I) /\ ~clobbersVL(I)
           T == emitStep(b, S, x)
<1>1. T = [cur |-> C, prefix |-> prefix, code |-> code1 \o <<e>>]
    BY DEF emitStep
<1>2. S.cur \in States /\ S.prefix \in BOOLEAN /\ S.code \in Seq(PlacedItems)
    BY DEF EmitStates
<1>3. Plain(I)
    BY DEF FreshItems, PlainItems
<1>4. B \in States /\ (hasSEWOp(I) => Full(B)) /\ C \in States
    BY <1>2, <1>3, BeforeType, BeforeFits, TransferType
<1>5. e \in PlacedItems /\ Passes(e, TypesOf(B), TypesOf(C))
    BY <1>2, ErasedPlaced, ErasedPasses
<1>6. inserts => v \in PlacedItems /\ Passes(v, TypesOf(S.cur), TypesOf(B))
    BY <1>2, <1>4, InsertedPlaced
<1>7. hasSEWOp(I) /\ ~changes => TypesOf(S.cur) = TypesOf(B)
    <2> SUFFICES ASSUME hasSEWOp(I), ~changes PROVE TypesOf(S.cur) = TypesOf(B)
        OBVIOUS
    <2>1. isCompatible(S.cur, All, B)
        OBVIOUS
    <2>2. isKnown(S.cur) /\ ~S.cur.SEWLMULRatioOnly /\ areCompatibleVTYPEs(B.vt, S.cur.vt, All)
        BY <2>1 DEF isCompatible
    <2>3. Full(S.cur)
        BY <1>2, <2>2, KnownState DEF Full
    <2>4. S.cur.vt \in VType /\ B.vt \in VType
        BY <1>4, <2>3, FullTypes
    <2>5. S.cur.vt = B.vt
        <3>1. /\ All.SEW = SEWEqual /\ All.LMUL = LMULEqual /\ All.TailPolicy /\ All.MaskPolicy
            BY DEF All, demandVL, demandVTYPE, NothingDemanded
        <3>. QED  BY <2>2, <2>4, <3>1 DEF areCompatibleVTYPEs, VType
    <2>. QED  BY <1>4, <2>3, <2>5, FullTypes
<1>8. ~hasSEWOp(I) => B = S.cur
    BY DEF transferBefore
<1>9. changes /\ ~inserts => S.prefix /\ Entry(b) \subseteq TypesOf(B)
    <2> SUFFICES ASSUME changes, ~inserts PROVE S.prefix /\ Entry(b) \subseteq TypesOf(B)
        OBVIOUS
    <2>1. S.prefix /\ ~needVSETVLIPHI(B, b) /\ Full(B)
        BY <1>2, <1>4
    <2>. QED  BY <2>1, SkipPHI
<1>10. changes => hasSEWOp(I)
    OBVIOUS
<1>11. C = transferAfter(transferBefore(S.cur, x.now), x.now)
    OBVIOUS
<1>12. prefix => ~changes /\ S.prefix /\ TypesOf(B) \subseteq TypesOf(C)
                 /\ x.now.kind \notin {"vset", "call"}
    <2>1. prefix => x.now.kind \notin {"vset", "call"}
        BY DEF isVectorConfigInstr, clobbersVL
    <2>2. e.now.kind = x.now.kind
        BY ErasedPlaced
    <2>. QED  BY <1>5, <2>1, <2>2 DEF Passes
<1>13. inserts => changes
    OBVIOUS
<1>14. changes \in BOOLEAN /\ prefix \in BOOLEAN /\ (changes => hasSEWOp(I))
    BY <1>2 DEF hasSEWOp
<1>15. e.now.kind = x.now.kind
    BY ErasedPlaced
<1>16. IF inserts THEN code1 = Append(S.code, v) ELSE code1 = S.code
    <2> HIDE DEF v, inserts
    <2>1. CASE inserts
        <3>1. code1 = S.code \o <<v>> /\ v \in PlacedItems
            BY <1>6, <2>1
        <3>. QED  BY <1>2, <2>1, <3>1
    <2>2. CASE ~inserts
        <3>1. code1 = S.code \o <<>>
            BY <2>2
        <3>. QED  BY <1>2, <2>2, <3>1
    <2>. QED  BY <2>1, <2>2
<1> HIDE DEF B, C, changes, inserts, v, e, prefix, code1, T
<1>17. code1 \in Seq(PlacedItems) /\ code1 \o <<e>> = Append(code1, e)
    BY <1>2, <1>5, <1>6, <1>16
<1>18. /\ T.cur = C /\ T.prefix = prefix /\ T.code = Append(code1, e) /\ T \in EmitStates
    BY <1>1, <1>4, <1>5, <1>14, <1>17 DEF EmitStates
<1>19. PlacedItems \subseteq Item /\ \A A : TypesOf(A) \in SUBSET VType /\ Entry(b) \in SUBSET VType
    BY DEF PlacedItems, TypesOf, Entry
<1>20. ASSUME EmitInv(b, S) PROVE EmitInv(b, T)
    <2>1. Leads(S.code, Entry(b), TypesOf(S.cur))
        BY <1>20 DEF EmitInv
    <2>2. Leads(code1, Entry(b), TypesOf(B))
        <3>1. CASE inserts
            <4>1. code1 = Append(S.code, v) /\ v \in Item /\ S.code \in Seq(Item)
                BY <1>2, <1>6, <1>16, <1>19, <3>1
            <4>. QED  BY <1>6, <1>19, <2>1, <3>1, <4>1, LeadsOn
        <3>2. CASE ~inserts /\ changes
            <4>1. Leads(S.code, Entry(b), Entry(b))
                BY <1>9, <1>20, <3>2 DEF EmitInv
            <4>. QED  BY <1>9, <1>16, <3>2, <4>1, LeadsWithin
        <3>3. CASE ~inserts /\ ~changes
            BY <1>7, <1>8, <1>16, <2>1, <3>3
        <3>. QED  BY <3>1, <3>2, <3>3
    <2>3. Leads(T.code, Entry(b), TypesOf(T.cur))
        <3>1. code1 \in Seq(Item) /\ e \in Item
            BY <1>5, <1>17, <1>19
        <3>. QED  BY <1>5, <1>18, <1>19, <2>2, <3>1, LeadsOn
    <2>4. ASSUME T.prefix
          PROVE  Leads(T.code, Entry(b), Entry(b)) /\ Entry(b) \subseteq TypesOf(T.cur)
        <3>1. prefix /\ S.prefix /\ ~changes /\ ~inserts
            BY <1>12, <1>13, <1>18, <2>4
        <3>2. Leads(S.code, Entry(b), Entry(b)) /\ Entry(b) \subseteq TypesOf(S.cur)
            BY <1>20, <3>1 DEF EmitInv
        <3>3. TypesOf(S.cur) = TypesOf(B) /\ TypesOf(B) \subseteq TypesOf(C)
            BY <1>7, <1>8, <1>12, <3>1
        <3>4. Passes(e, Entry(b), Entry(b))
            <4>1. \A t \in Entry(b) : Fits(e.was, t)
                BY <1>5, <3>2, <3>3 DEF Passes
            <4>2. e.now.kind \notin {"vset", "call"}
                BY <1>12, <1>15, <3>1
            <4>. QED  BY <4>1, <4>2 DEF Passes
        <3>5. Leads(Append(S.code, e), Entry(b), Entry(b))
            <4>1. S.code \in Seq(Item) /\ e \in Item
                BY <1>2, <1>5, <1>19
            <4>. QED  BY <1>19, <3>2, <3>4, <4>1, LeadsOn
        <3>. QED  BY <1>16, <1>18, <3>1, <3>2, <3>3, <3>5
    <2>. QED  BY <2>3, <2>4 DEF EmitInv
<1>. QED  BY <1>11, <1>18, <1>20 DEF T

LEMMA EmitFold ==
    ASSUME WellFormed(fn), Exit \in [Blocks -> States], NEW b \in Blocks, Pred[b] \in States,
           Code[b] \in Seq(FreshItems)
    PROVE  \E h \in [0..Len(Code[b]) -> EmitStates] :
              /\ h[0] = [cur |-> Pred[b], prefix |-> TRUE, code |-> <<>>]
              /\ emitted(b) = h[Len(Code[b])].code
              /\ \A k \in 1..Len(Code[b]) : h[k] = emitStep(b, h[k - 1], Code[b][k])
<1> DEFINE code == Code[b]
           n == Len(code)
           base == [cur |-> Pred[b], prefix |-> TRUE, code |-> <<>>]
           T(i, S) == emitStep(b, S, code[i])
           F == [q \in (1..n) \X EmitStates |-> T(q[1], q[2])]
           Eq(g) == g = [s \in SUBSET DOMAIN code |->
                            IF s = {} THEN base ELSE T(Max(s), g[s \ {Max(s)}])]
           end == CHOOSE g : Eq(g)
           h == [k \in 0..n |-> end[1..k]]
<1>1. DOMAIN code = 1..n /\ n \in Nat
    OBVIOUS
<1>2. \A i \in 1..n : \A S \in EmitStates : T(i, S) \in EmitStates
    BY EmitStep
<1>3. emitted(b) = end[DOMAIN code].code
    BY DEF emitted, FoldLeft, MapThenFoldSet, emitStep
<1>0. base \in EmitStates
    BY DEF EmitStates
<1> HIDE DEF T, n, base
<1>4. n \in Nat /\ base \in EmitStates /\ F \in [(1..n) \X EmitStates -> EmitStates]
    BY <1>0, <1>1, <1>2
<1>5. \A i \in 1..n : \A S \in EmitStates : F[<<i, S>>] = T(i, S)
    OBVIOUS
<1> HIDE DEF F, code
<1>6. Eq(end)
    <2>1. PICK g : g \in [SUBSET (1..n) -> EmitStates] /\ LeftEq(n, EmitStates, base, F, g)
        BY <1>4, LeftSolution
    <2>2. ASSUME NEW s \in SUBSET (1..n), s # {} PROVE g[s] = T(Max(s), g[s \ {Max(s)}])
        <3>1. Max(s) \in 1..n /\ g[s \ {Max(s)}] \in EmitStates
            BY <1>4, <2>1, <2>2, Rows
        <3>. QED  BY <1>5, <2>1, <2>2, <3>1 DEF LeftEq
    <2>3. Eq(g)
        BY <1>1, <2>1, <2>2 DEF LeftEq
    <2> HIDE DEF Eq
    <2>. QED  BY <2>3
<1> HIDE DEF end
<1>7. LeftEq(n, EmitStates, base, F, end)
    <2>1. ASSUME NEW s \in SUBSET (1..n), s # {}, end[s \ {Max(s)}] \in EmitStates
          PROVE  end[s] = F[<<Max(s), end[s \ {Max(s)}]>>]
        <3>1. Max(s) \in 1..n
            BY <1>4, <2>1, Rows
        <3>2. end[s] = T(Max(s), end[s \ {Max(s)}])
            BY <1>1, <1>6, <2>1
        <3>. QED  BY <1>5, <2>1, <3>1, <3>2
    <2>. QED  BY <1>1, <1>6, <2>1 DEF LeftEq
<1>8. Row(n, EmitStates, base, F, [k \in 1..n |-> k], h) /\ h[n] = end[1..n]
    BY <1>4, <1>7, LeftIndex
<1> HIDE DEF h
<1>9. \A k \in 1..n : h[k] = T(k, h[k - 1])
    BY <1>5, <1>8 DEF Row
<1>10. h \in [0..n -> EmitStates] /\ h[0] = base /\ emitted(b) = h[n].code
    BY <1>1, <1>3, <1>8 DEF Row
<1>. QED  BY <1>9, <1>10 DEF T, n, base, code

\* What is emitted for a block leads from what it is entered with to what is
\* known at its end.
LEMMA EmittedLeads ==
    ASSUME WellFormed(fn), Exit \in [Blocks -> States], NEW b \in Blocks, Pred[b] \in States,
           Code[b] \in Seq(FreshItems), Entry(b) \subseteq TypesOf(Pred[b])
    PROVE  /\ emitted(b) \in Seq(PlacedItems)
           /\ Leads(emitted(b), Entry(b), TypesOf(computeVLVTYPEChanges(Code[b], Pred[b])))
<1> DEFINE code == Code[b]
           n == Len(code)
<1>1. n \in Nat /\ code \in Seq(PlainItems) /\ \A k \in 1..n : code[k] \in FreshItems
    BY DEF FreshItems
<1>2. PICK f \in [0..n -> States] :
         /\ f[0] = Pred[b] /\ f[n] = computeVLVTYPEChanges(code, Pred[b])
         /\ \A k \in 1..n : f[k] = transferAfter(transferBefore(f[k - 1], code[k].now), code[k].now)
    BY <1>1, ChangesFold
<1>3. PICK h \in [0..n -> EmitStates] :
         /\ h[0] = [cur |-> Pred[b], prefix |-> TRUE, code |-> <<>>]
         /\ emitted(b) = h[n].code
         /\ \A k \in 1..n : h[k] = emitStep(b, h[k - 1], code[k])
    BY EmitFold
<1> HIDE DEF code, n
<1> DEFINE P == {k \in 0..n : h[k].cur = f[k] /\ EmitInv(b, h[k])}
<1>4. 0 \in P
    <2>1. h[0].cur = Pred[b] /\ h[0].code = <<>>
        BY <1>3
    <2>2. Entry(b) \in SUBSET VType
        BY DEF Entry
    <2>3. Leads(<<>>, Entry(b), Entry(b))
        BY <2>2, LeadsNowhere
    <2>4. Leads(<<>>, Entry(b), TypesOf(Pred[b]))
        BY <2>3, LeadsWithin
    <2>. QED  BY <1>1, <1>2, <2>1, <2>3, <2>4 DEF EmitInv
<1>5. ASSUME NEW k \in 1..n, k - 1 \in P PROVE k \in P
    <2>1. k \in 0..n /\ k - 1 \in 0..n /\ h[k - 1] \in EmitStates /\ code[k] \in FreshItems
        BY <1>1, <1>3
    <2>2. h[k] = emitStep(b, h[k - 1], code[k])
        BY <1>3
    <2>3. /\ h[k].cur = transferAfter(transferBefore(h[k - 1].cur, code[k].now), code[k].now)
          /\ EmitInv(b, h[k - 1]) => EmitInv(b, h[k])
        BY <2>1, <2>2, EmitStep
    <2>4. h[k].cur = f[k]
        BY <1>2, <1>5, <2>3
    <2>. QED  BY <1>5, <2>1, <2>3, <2>4
<1> HIDE DEF P
<1>6. n \in P
    <2>1. n \in Nat /\ n \in 0..n
        BY <1>1
    <2>2. \A k \in 0..n : k \in P
        BY <1>4, <1>5, <2>1, IndexInduction
    <2>. QED  BY <2>1, <2>2
<1>7. h[n] \in EmitStates
    BY <1>1, <1>3
<1>. QED  BY <1>2, <1>3, <1>6, <1>7 DEF P, EmitInv, EmitStates, code, n
-----------------------------------------------------------------------------
(* What coalesceVSETVLIs makes of a block.                                  *)

\* The path K through the places D may take another way from place k to place m of
\* the places E: past both, and between them through the types in Z.
Detour(n, D, E, K, k, m, Z) ==
    /\ K \in [1..(n + 1) -> SUBSET VType]
    /\ \A j \in 1..n : Passes(D[j], K[j], K[j + 1])
    /\ k \in 1..n /\ m \in (k + 1)..n /\ Z \in SUBSET VType
    /\ \A j \in (1..n) \ {k, m} : E[j] = D[j]
    /\ Passes(E[k], K[k], Z) /\ Passes(E[m], Z, K[m + 1])
    /\ \A j \in (k + 1)..(m - 1) : Passes(D[j], Z, Z)

LEMMA Bypass ==
    ASSUME NEW n \in Nat, NEW D, NEW E, NEW K, NEW k, NEW m, NEW Z, Detour(n, D, E, K, k, m, Z)
    PROVE  \E L \in [1..(n + 1) -> SUBSET VType] :
              /\ L[1] = K[1] /\ L[n + 1] = K[n + 1]
              /\ \A j \in 1..n : Passes(E[j], L[j], L[j + 1])
<1>0. /\ K \in [1..(n + 1) -> SUBSET VType]
      /\ \A j \in 1..n : Passes(D[j], K[j], K[j + 1])
      /\ k \in 1..n /\ m \in (k + 1)..n /\ Z \in SUBSET VType
      /\ \A j \in (1..n) \ {k, m} : E[j] = D[j]
      /\ Passes(E[k], K[k], Z) /\ Passes(E[m], Z, K[m + 1])
      /\ \A j \in (k + 1)..(m - 1) : Passes(D[j], Z, Z)
    BY DEF Detour
<1> DEFINE L == [j \in 1..(n + 1) |-> IF j \in (k + 1)..m THEN Z ELSE K[j]]
<1>1. L \in [1..(n + 1) -> SUBSET VType]
    BY <1>0
<1>2. \A j \in 1..(n + 1) : L[j] = IF j \in (k + 1)..m THEN Z ELSE K[j]
    OBVIOUS
<1>3. k \in 1..n /\ m \in 1..n /\ k < m
    BY <1>0
<1> HIDE DEF L
<1>4. L[1] = K[1] /\ L[n + 1] = K[n + 1]
    BY <1>2, <1>3
<1>5. ASSUME NEW j \in 1..n PROVE Passes(E[j], L[j], L[j + 1])
    <2>1. CASE j = k
        <3>1. L[j] = K[k] /\ L[j + 1] = Z
            BY <1>2, <1>3, <2>1
        <3>. QED  BY <1>0, <2>1, <3>1
    <2>2. CASE j = m
        <3>1. L[j] = Z /\ L[j + 1] = K[m + 1]
            BY <1>2, <1>3, <2>2
        <3>. QED  BY <1>0, <2>2, <3>1
    <2>3. CASE j \in (k + 1)..(m - 1)
        <3>1. L[j] = Z /\ L[j + 1] = Z /\ E[j] = D[j]
            BY <1>0, <1>2, <1>3, <2>3
        <3>. QED  BY <1>0, <2>3, <3>1
    <2>4. CASE j < k \/ j > m
        <3>1. L[j] = K[j] /\ L[j + 1] = K[j + 1] /\ E[j] = D[j]
            BY <1>0, <1>2, <1>3, <2>4
        <3>. QED  BY <1>0, <3>1
    <2>. QED  BY <1>3, <2>1, <2>2, <2>3, <2>4
<1>. QED  BY <1>1, <1>4, <1>5

\* Where nothing from k + 1 to m - 1 sets VTYPE, a type is carried along.
LEMMA Carried ==
    ASSUME NEW n \in Nat, NEW D, NEW K,
           \A j \in 1..n : Passes(D[j], K[j], K[j + 1]),
           NEW k \in 1..n, NEW m \in (k + 1)..n, NEW t \in K[k + 1],
           \A j \in (k + 1)..(m - 1) : D[j].now.kind \notin {"vset", "call"}
    PROVE  \A j \in (k + 1)..m : t \in K[j]
<1> DEFINE P == {i \in 0..(m - k - 1) : t \in K[k + 1 + i]}
           l == m - k - 1
<1>1. l \in Nat /\ k + 1 + 0 = k + 1
    OBVIOUS
<1>2. 0 \in P
    BY <1>1
<1>3. ASSUME NEW i \in 1..l, i - 1 \in P PROVE i \in P
    <2> DEFINE j == k + 1 + (i - 1)
    <2>1. j \in 1..n /\ j \in (k + 1)..(m - 1) /\ j + 1 = k + 1 + i /\ i \in 0..l
        OBVIOUS
    <2>2. t \in K[j]
        BY <1>3
    <2> HIDE DEF j
    <2>3. K[j] \subseteq K[j + 1]
        BY <2>1 DEF Passes
    <2>. QED  BY <2>1, <2>2, <2>3
<1>4. ASSUME NEW j \in (k + 1)..m PROVE t \in K[j]
    <2> DEFINE i == j - k - 1
    <2>1. i \in 0..l /\ k + 1 + i = j
        OBVIOUS
    <2>2. \A q \in 0..l : q \in P
        <3> HIDE DEF P, l
        <3>. QED  BY <1>1, <1>2, <1>3, IndexInduction
    <2> HIDE DEF i
    <2>. QED  BY <2>1, <2>2
<1>. QED  BY <1>4

\* The step of the fold of coalesced, and the values it goes through.
coalStep(b, k, S) ==
    LET I == S.code[k].now
        Whole == [Code EXCEPT ![b] = S.code]
        Used == IF isDead(I.dst, Whole) THEN S.Used ELSE demandVL(S.Used)
        Nx == S.code[S.next].now
        M == mutated(I, Nx)
    IN  IF ~isVectorConfigInstr(I)
        THEN [S EXCEPT !.Used = doUnion(@, getDemanded(I, TRUE)),
                       !.next = IF clobbersVL(I) THEN 0 ELSE @]
        ELSE IF S.next # 0 /\ Used = NothingDemanded
        THEN [S EXCEPT !.ToDelete = @ \cup {k}]
        ELSE IF S.next # 0 /\ canMutatePriorConfig(I, Nx, Used, Whole)
        THEN [next |-> k, Used |-> getDemanded(M, TRUE),
              code |-> [S.code EXCEPT ![k].now = M],
              ToDelete |-> S.ToDelete \cup {S.next}]
        ELSE [S EXCEPT !.next = k, !.Used = getDemanded(I, TRUE)]
CoalStates(n) ==
    {S \in [next: 0..n, Used: DemandedFields, code: [1..n -> PlacedItems],
            ToDelete: SUBSET (1..n)] :
        S.next # 0 => S.code[S.next].now.kind = "vset"}

\* A place of which the instruction goes, and the places without the deleted ones.
Emptied(x) == [x EXCEPT !.now = NoInstruction]
Remaining(S, n) ==
    [i \in 1..n |-> IF i \in S.ToDelete THEN Emptied(S.code[i]) ELSE S.code[i]]

\* A vset is at a place of no vector instruction.
LEMMA PlacedVset ==
    ASSUME NEW x \in PlacedItems, x.now.kind = "vset" \/ ~(hasSEWOp(x.was) \/ hasSEWOp(x.now))
    PROVE  ~hasSEWOp(x.was) /\ \A t : Fits(x.was, t)
<1>1. CASE x.now.kind = "vset"
    <2>1. ~hasSEWOp(x.now)
        BY <1>1 DEF hasSEWOp, VectorOps
    <2>2. ASSUME hasSEWOp(x.was) PROVE FALSE
        <3>1. CASE x.now = x.was
            BY <2>1, <2>2, <3>1
        <3>2. CASE x.now = [x.was EXCEPT !.avl = NoAVL]
            <4>1. x.now.kind = x.was.kind
                BY <3>2 DEF PlacedItems, Item, Instruction
            <4>. QED  BY <2>1, <2>2, <4>1 DEF hasSEWOp
        <3>. QED  BY <2>2, <3>1, <3>2 DEF PlacedItems
    <2>. QED  BY <2>2 DEF Fits
<1>2. CASE ~(hasSEWOp(x.was) \/ hasSEWOp(x.now))
    BY <1>2 DEF Fits
<1>. QED  BY <1>1, <1>2

LEMMA EmptiedPlaced ==
    ASSUME WellFormed(fn), NEW x \in PlacedItems, ~hasSEWOp(x.was)
    PROVE  /\ Emptied(x) \in PlacedItems /\ Emptied(x).was = x.was
           /\ Emptied(x).now = NoInstruction
<1> DEFINE y == Emptied(x)
<1>1. y.was = x.was /\ y.now = NoInstruction /\ y \in Item
    BY NoInstructionType DEF Emptied, PlacedItems, Item
<1> HIDE DEF y
<1>2. ~hasSEWOp(NoInstruction)
    BY NoInstructionType DEF hasSEWOp, VectorOps
<1>3. /\ NoInstruction.vt \in LegalType /\ NoInstruction.avl.kind # "keep"
      /\ operandAVL(NoInstruction.avl) \in PlainAVL
    BY NoInstructionPlain DEF Plain
<1>4. y \in PlacedItems
    BY <1>1, <1>2, <1>3 DEF PlacedItems
<1>. QED  BY <1>1, <1>4 DEF y

\* A vset that becomes the next one.
LEMMA MutatedPlaced ==
    ASSUME NEW x \in PlacedItems, NEW y \in PlacedItems,
           x.now.kind = "vset", y.now.kind = "vset"
    PROVE  LET M == mutated(x.now, y.now)
           IN  /\ [x EXCEPT !.now = M] \in PlacedItems
               /\ [x EXCEPT !.now = M].now = M /\ [x EXCEPT !.now = M].was = x.was
               /\ M \in Instruction /\ M.kind = "vset" /\ M.vt = y.now.vt
               /\ M.avl.kind = "keep" => x.now.avl.kind = "keep" /\ y.now.avl.kind = "keep"
                                         /\ M.readsVL
<1> DEFINE I == x.now
           N == y.now
           M == mutated(I, N)
           z == [x EXCEPT !.now = M]
<1>1. x \in Item /\ I \in Instruction /\ N \in Instruction
    BY DEF PlacedItems, Item
<1>2. /\ M \in Instruction /\ M.kind = "vset" /\ M.vt = N.vt /\ M.readsVL = I.readsVL
      /\ M.avl = IF N.avl.kind = "keep" THEN I.avl ELSE N.avl
    <2>1. CASE N.avl.kind = "keep"
        <3>1. M = [I EXCEPT !.vt = N.vt]
            BY <2>1 DEF mutated, isVLPreservingConfig
        <3>. QED  BY <1>1, <2>1, <3>1 DEF Instruction
    <2>2. CASE N.avl.kind # "keep"
        <3>1. M = [I EXCEPT !.vt = N.vt, !.avl = N.avl, !.dst = N.dst]
            BY <2>2 DEF mutated, isVLPreservingConfig
        <3>. QED  BY <1>1, <2>2, <3>1 DEF Instruction
    <2>. QED  BY <2>1, <2>2
<1> HIDE DEF M
<1>3. z.was = x.was /\ z.now = M /\ z \in Item
    BY <1>1, <1>2 DEF Item
<1> HIDE DEF z
<1>4. ~hasSEWOp(x.was) /\ ~hasSEWOp(M)
    BY <1>2, PlacedVset DEF hasSEWOp, VectorOps
<1>5. M.avl.kind = "keep" => I.avl.kind = "keep" /\ N.avl.kind = "keep" /\ M.readsVL
    BY <1>2 DEF PlacedItems
<1>6. M.avl.kind # "keep" => operandAVL(M.avl) \in PlainAVL
    BY <1>2 DEF PlacedItems
<1>7. M.vt \in LegalType
    BY <1>2 DEF PlacedItems
<1>8. z \in PlacedItems
    BY <1>2, <1>3, <1>4, <1>5, <1>6, <1>7 DEF PlacedItems, Plain
<1>. QED  BY <1>2, <1>3, <1>5, <1>8 DEF M, z

\* What a step of the fold does at place k.  What is demanded grows by what the
\* instruction demands,
Grows(S, k, T) ==
    LET I == S.code[k].now
    IN  /\ I.kind # "vset"
        /\ T = [S EXCEPT !.Used = doUnion(S.Used, getDemanded(I, TRUE)),
                         !.next = IF clobbersVL(I) THEN 0 ELSE S.next]
\* or the vset there goes, of which nothing is demanded,
Goes(S, k, T) ==
    /\ S.code[k].now.kind = "vset" /\ S.next # 0 /\ S.Used = NothingDemanded
    /\ T = [S EXCEPT !.ToDelete = S.ToDelete \cup {k}]
\* or it becomes the next one, which goes,
Becomes(S, k, T) ==
    LET I == S.code[k].now
        N == S.code[S.next].now
        M == mutated(I, N)
    IN  /\ I.kind = "vset" /\ S.next # 0 /\ areCompatibleVTYPEs(I.vt, N.vt, S.Used)
        /\ T = [next |-> k, Used |-> getDemanded(M, TRUE), code |-> [S.code EXCEPT ![k].now = M],
                ToDelete |-> S.ToDelete \cup {S.next}]
\* or it stays.
Stays(S, k, T) ==
    LET I == S.code[k].now
    IN  I.kind = "vset" /\ T = [S EXCEPT !.next = k, !.Used = getDemanded(I, TRUE)]

LEMMA CoalCases ==
    ASSUME NEW b, NEW n \in Nat, NEW S \in CoalStates(n), NEW k \in 1..n
    PROVE  LET T == coalStep(b, k, S)
           IN  Grows(S, k, T) \/ Goes(S, k, T) \/ Becomes(S, k, T) \/ Stays(S, k, T)
<1> DEFINE I == S.code[k].now
           N == S.code[S.next].now
           T == coalStep(b, k, S)
           Whole == [Code EXCEPT ![b] = S.code]
           Used == IF isDead(I.dst, Whole) THEN S.Used ELSE demandVL(S.Used)
<1>1. S.Used \in DemandedFields
    BY DEF CoalStates
<1>2. Used = NothingDemanded => S.Used = NothingDemanded
    BY <1>1 DEF demandVL, NothingDemanded, DemandedFields
<1>3. canMutatePriorConfig(I, N, Used, Whole) => areCompatibleVTYPEs(I.vt, N.vt, S.Used)
    <2>1. canMutatePriorConfig(I, N, Used, Whole) => areCompatibleVTYPEs(I.vt, N.vt, Used)
        BY DEF canMutatePriorConfig
    <2>2. areCompatibleVTYPEs(I.vt, N.vt, demandVL(S.Used))
             => areCompatibleVTYPEs(I.vt, N.vt, S.Used)
        BY <1>1 DEF areCompatibleVTYPEs, demandVL, DemandedFields
    <2>. QED  BY <2>1, <2>2
<1> HIDE DEF Used, Whole
<1>4. CASE I.kind # "vset"
    BY <1>4 DEF coalStep, isVectorConfigInstr, Grows
<1>5. CASE I.kind = "vset" /\ S.next # 0 /\ Used = NothingDemanded
    <2>1. T = [S EXCEPT !.ToDelete = S.ToDelete \cup {k}]
        BY <1>5 DEF coalStep, isVectorConfigInstr, Used, Whole
    <2>. QED  BY <1>2, <1>5, <2>1 DEF Goes
<1>6. CASE /\ I.kind = "vset" /\ S.next # 0 /\ Used # NothingDemanded
           /\ canMutatePriorConfig(I, N, Used, Whole)
    <2>1. T = [next |-> k, Used |-> getDemanded(mutated(I, N), TRUE),
               code |-> [S.code EXCEPT ![k].now = mutated(I, N)],
               ToDelete |-> S.ToDelete \cup {S.next}]
        BY <1>6 DEF coalStep, isVectorConfigInstr, Used, Whole
    <2>. QED  BY <1>3, <1>6, <2>1 DEF Becomes
<1>7. CASE /\ I.kind = "vset"
           /\ S.next = 0 \/ (/\ Used # NothingDemanded
                             /\ ~canMutatePriorConfig(I, N, Used, Whole))
    <2>1. T = [S EXCEPT !.next = k, !.Used = getDemanded(I, TRUE)]
        BY <1>7 DEF coalStep, isVectorConfigInstr, Used, Whole
    <2>. QED  BY <1>7, <2>1 DEF Stays
<1>. QED  BY <1>4, <1>5, <1>6, <1>7

\* What the places and the demands are after a step.
LEMMA CoalType ==
    ASSUME WellFormed(fn), NEW b, NEW n \in Nat, NEW S \in CoalStates(n), NEW k \in 1..n
    PROVE  coalStep(b, k, S) \in CoalStates(n)
<1> DEFINE I == S.code[k].now
           N == S.code[S.next].now
           T == coalStep(b, k, S)
<1>1. /\ S.next \in 0..n /\ S.Used \in DemandedFields /\ S.code \in [1..n -> PlacedItems]
      /\ S.ToDelete \in SUBSET (1..n) /\ (S.next # 0 => S.code[S.next].now.kind = "vset")
      /\ S = [next |-> S.next, Used |-> S.Used, code |-> S.code, ToDelete |-> S.ToDelete]
    BY DEF CoalStates
<1>2. S.code[k] \in PlacedItems /\ I \in Instruction
    BY <1>1 DEF PlacedItems, Item
<1>3. getDemanded(I, TRUE) \in DemandedFields
    BY <1>2, DemandedType
<1>0. Grows(S, k, T) \/ Goes(S, k, T) \/ Becomes(S, k, T) \/ Stays(S, k, T)
    BY CoalCases
<1> HIDE DEF T
<1>4. ASSUME Grows(S, k, T) PROVE T \in CoalStates(n)
    <2> DEFINE U == doUnion(S.Used, getDemanded(I, TRUE))
               m == IF clobbersVL(I) THEN 0 ELSE S.next
    <2>1. U \in DemandedFields
        <3>1. NoVType \in VType
            BY DEF NoVType, VType
        <3>. QED  BY <1>1, <1>3, <3>1, RoughlyUnion
    <2>2. m \in 0..n /\ (m # 0 => m = S.next)
        BY <1>1
    <2>3. T = [S EXCEPT !.Used = U, !.next = m]
        BY <1>4 DEF Grows
    <2> HIDE DEF U, m
    <2>4. T = [next |-> m, Used |-> U, code |-> S.code, ToDelete |-> S.ToDelete]
        BY <1>1, <2>3
    <2>5. T \in CoalStates(n)
        BY <1>1, <2>1, <2>2, <2>4 DEF CoalStates
    <2>. QED  BY <2>5
<1>5. ASSUME Goes(S, k, T) PROVE T \in CoalStates(n)
    <2>1. T = [next |-> S.next, Used |-> S.Used, code |-> S.code, ToDelete |-> S.ToDelete \cup {k}]
        BY <1>1, <1>5 DEF Goes
    <2>2. T \in CoalStates(n)
        BY <1>1, <2>1 DEF CoalStates
    <2>. QED  BY <2>2
<1>6. ASSUME Becomes(S, k, T) PROVE T \in CoalStates(n)
    <2> DEFINE M == mutated(I, N)
               x == [S.code[k] EXCEPT !.now = M]
               c == [S.code EXCEPT ![k].now = M]
    <2>1. S.next \in 1..n /\ I.kind = "vset"
        BY <1>1, <1>6 DEF Becomes
    <2>2. S.code[S.next] \in PlacedItems /\ N.kind = "vset"
        BY <1>1, <2>1
    <2>3. x \in PlacedItems /\ x.now = M /\ M \in Instruction /\ M.kind = "vset"
        BY <1>2, <2>1, <2>2, MutatedPlaced
    <2>4. getDemanded(M, TRUE) \in DemandedFields
        BY <2>3, DemandedType
    <2>5. c \in [1..n -> PlacedItems] /\ c[k] = x
        BY <1>1, <2>3
    <2>6. T = [next |-> k, Used |-> getDemanded(M, TRUE), code |-> c,
               ToDelete |-> S.ToDelete \cup {S.next}]
        BY <1>6 DEF Becomes
    <2> HIDE DEF M, x, c
    <2>7. k \in 0..n
        OBVIOUS
    <2>8. T \in CoalStates(n)
        BY <1>1, <2>1, <2>3, <2>4, <2>5, <2>6, <2>7 DEF CoalStates
    <2>. QED  BY <2>8
<1>7. ASSUME Stays(S, k, T) PROVE T \in CoalStates(n)
    <2>1. T = [next |-> k, Used |-> getDemanded(I, TRUE), code |-> S.code, ToDelete |-> S.ToDelete]
        BY <1>1, <1>7 DEF Stays
    <2>2. k \in 0..n
        OBVIOUS
    <2>3. T \in CoalStates(n)
        BY <1>1, <1>3, <1>7, <2>1, <2>2 DEF CoalStates, Stays
    <2>. QED  BY <2>3
<1>8. T \in CoalStates(n)
    BY <1>0, <1>4, <1>5, <1>6, <1>7
<1>. QED  BY <1>8 DEF T

\* The values of the fold, for the last instructions of the block.
LEMMA CoalFold ==
    ASSUME WellFormed(fn), NEW b, Code[b] \in Seq(PlacedItems)
    PROVE  LET n == Len(Code[b]) IN
           \E h \in [0..n -> CoalStates(n)] :
              /\ h[0] = [next |-> 0, Used |-> All, code |-> Code[b], ToDelete |-> {}]
              /\ coalesced(b) = Remaining(h[n], n)
              /\ \A k \in 1..n : h[k] = coalStep(b, n + 1 - k, h[k - 1])
<1> DEFINE n == Len(Code[b])
           V == CoalStates(n)
           at == [k \in 1..n |-> k]
           base == [next |-> 0, Used |-> All, code |-> Code[b], ToDelete |-> {}]
           T(i, S) == coalStep(b, at[i], S)
           F == [q \in (1..n) \X V |-> T(q[1], q[2])]
           Eq(g) == g = [s \in SUBSET DOMAIN at |->
                            IF s = {} THEN base ELSE T(Min(s), g[s \ {Min(s)}])]
           end == CHOOSE g : Eq(g)
           h == FromLast(n, end)
           rev == Backwards(n)
<1>1. DOMAIN at = 1..n /\ n \in Nat /\ \A i \in 1..n : at[i] = i
    OBVIOUS
<1>2. \A i \in 1..n : \A S \in V : T(i, S) \in V
    BY <1>1, CoalType
<1>3. coalesced(b) = Remaining(end[DOMAIN at], n)
    BY DEF coalesced, FoldRight, MapThenFoldSet, coalStep, Remaining, Emptied
<1>4. base \in V
    <2>1. Code[b] \in [1..n -> PlacedItems]
        OBVIOUS
    <2>2. 0 \in 0..n /\ All \in DemandedFields
        BY <1>1, DemandedConstants
    <2> HIDE DEF n
    <2>. QED  BY <2>1, <2>2 DEF CoalStates
<1> HIDE DEF T, n, base, at, V
<1>5. F \in [(1..n) \X V -> V]
    BY <1>2
<1>6. \A i \in 1..n : \A S \in V : F[<<i, S>>] = T(i, S)
    OBVIOUS
<1> HIDE DEF F
<1>7. Eq(end)
    <2>1. PICK g : g \in [SUBSET (1..n) -> V] /\ RightEq(n, V, base, F, g)
        BY <1>1, <1>4, <1>5, RightSolution
    <2>2. ASSUME NEW s \in SUBSET (1..n), s # {} PROVE g[s] = T(Min(s), g[s \ {Min(s)}])
        <3>1. Min(s) \in 1..n /\ g[s \ {Min(s)}] \in V
            BY <1>1, <2>1, <2>2, Rows
        <3>. QED  BY <1>6, <2>1, <2>2, <3>1 DEF RightEq
    <2>3. Eq(g)
        BY <1>1, <2>1, <2>2 DEF RightEq
    <2> HIDE DEF Eq
    <2>. QED  BY <2>3
<1> HIDE DEF end
<1>8. RightEq(n, V, base, F, end)
    <2>1. ASSUME NEW s \in SUBSET (1..n), s # {}, end[s \ {Min(s)}] \in V
          PROVE  end[s] = F[<<Min(s), end[s \ {Min(s)}]>>]
        <3>1. Min(s) \in 1..n
            BY <1>1, <2>1, Rows
        <3>2. end[s] = T(Min(s), end[s \ {Min(s)}])
            BY <1>1, <1>7, <2>1
        <3>. QED  BY <1>6, <2>1, <3>1, <3>2
    <2>. QED  BY <1>1, <1>7, <2>1 DEF RightEq
<1>9. Row(n, V, base, F, rev, h) /\ h[n] = end[1..n]
    BY <1>1, <1>4, <1>5, <1>8, RightIndex
<1>10. ASSUME NEW k \in 1..n PROVE h[k] = coalStep(b, n + 1 - k, h[k - 1])
    <2>1. rev[k] = n + 1 - k /\ n + 1 - k \in 1..n
        BY <1>1 DEF Backwards
    <2> HIDE DEF h, rev
    <2>2. h[k] = F[<<rev[k], h[k - 1]>>] /\ h[k - 1] \in V
        BY <1>9 DEF Row
    <2>3. h[k] = T(n + 1 - k, h[k - 1])
        BY <1>6, <2>1, <2>2
    <2>. QED  BY <1>1, <2>1, <2>3 DEF T
<1> HIDE DEF h, rev
<1>11. h \in [0..n -> V] /\ h[0] = base /\ coalesced(b) = Remaining(h[n], n)
    BY <1>1, <1>3, <1>9 DEF Row
<1>. QED  BY <1>10, <1>11 DEF n, base, V

\* The places from k on are done.  What remains leads from the types in X to types
\* in Y, and where there is a next vset, what is demanded says what the places
\* before it can tell.
CoalInv(n, k, X, Y, S) ==
    /\ S.ToDelete \subseteq k..n
    /\ \A i \in 1..n : Remaining(S, n)[i] \in PlacedItems
    /\ \E K \in [1..(n + 1) -> SUBSET VType] :
          /\ X \subseteq K[1] /\ K[n + 1] \subseteq Y
          /\ \A i \in 1..n : Passes(Remaining(S, n)[i], K[i], K[i + 1])
    /\ S.next # 0 =>
          /\ S.next \in k..n /\ S.next \notin S.ToDelete
          /\ S.code[S.next].now.avl.kind = "keep" => S.Used.VLAny
          /\ \A i \in k..(S.next - 1) :
                /\ Remaining(S, n)[i].now.kind \notin {"vset", "call"}
                /\ Tolerates(Remaining(S, n)[i].was, S.Used)

LEMMA RemainingPlaces ==
    ASSUME NEW n \in Nat, NEW S \in CoalStates(n)
    PROVE  /\ \A i \in (1..n) \cap S.ToDelete : Remaining(S, n)[i] = Emptied(S.code[i])
           /\ \A i \in (1..n) \ S.ToDelete : Remaining(S, n)[i] = S.code[i]
           /\ S.Used \in DemandedFields /\ S.code \in [1..n -> PlacedItems]
           /\ S.next \in 0..n /\ (S.next # 0 => S.code[S.next].now.kind = "vset")
           /\ S.ToDelete \in SUBSET (1..n)
BY DEF Remaining, CoalStates

\* A vset that stays: a vset that keeps VL reads it.
LEMMA KeepDemands ==
    ASSUME NEW I, I.kind = "vset", I.readsVL
    PROVE  getDemanded(I, TRUE).VLAny
<1>1. getDemanded(I, TRUE) = demandVL(NothingDemanded)
    BY DEF getDemanded
<1>. QED  BY <1>1 DEF demandVL, NothingDemanded

LEMMA GrowsKeeps ==
    ASSUME WellFormed(fn), NEW n \in Nat, NEW S \in CoalStates(n), NEW k \in 1..n, NEW X, NEW Y,
           CoalInv(n, k + 1, X, Y, S), NEW T \in CoalStates(n), Grows(S, k, T)
    PROVE  CoalInv(n, k, X, Y, T)
<1> DEFINE I == S.code[k].now
           E == getDemanded(I, TRUE)
           D == Remaining(S, n)
<1>1. /\ I.kind # "vset" /\ T.Used = doUnion(S.Used, E) /\ T.code = S.code
      /\ T.ToDelete = S.ToDelete /\ T.next = IF clobbersVL(I) THEN 0 ELSE S.next
    BY DEF Grows, CoalStates
<1>2. Remaining(T, n) = D
    BY <1>1 DEF Remaining
<1>3. /\ S.Used \in DemandedFields /\ S.code[k] \in PlacedItems /\ S.next \in 0..n
      /\ S.ToDelete \subseteq (k + 1)..n /\ D[k] = S.code[k]
    BY RemainingPlaces DEF CoalInv
<1>4. E \in DemandedFields
    <2>1. I \in Instruction
        BY <1>3 DEF PlacedItems, Item
    <2>. QED  BY <2>1, DemandedType
<1>5. Tolerates(D[k].was, E)
    <2>1. /\ Plain(S.code[k].was)
          /\ hasSEWOp(S.code[k].was) =>
                I = S.code[k].was \/ (I = [S.code[k].was EXCEPT !.avl = NoAVL]
                                      /\ S.code[k].was.avl.kind = "reg")
        BY <1>3 DEF PlacedItems
    <2> HIDE DEF I
    <2>2. Tolerates(S.code[k].was, getDemanded(I, TRUE))
        BY <2>1, ToleratesOwn
    <2>. QED  BY <1>3, <2>2
<1>6. D[k].now = I
    BY <1>3
<1> HIDE DEF I, E, D
<1>7. /\ S.Used.VLAny => T.Used.VLAny
      /\ \A i : Tolerates(D[i].was, S.Used) \/ Tolerates(D[i].was, E) => Tolerates(D[i].was, T.Used)
    <2>1. NoVType \in VType
        BY DEF NoVType, VType
    <2>. QED  BY <1>1, <1>3, <1>4, <2>1, RoughlyUnion, ToleratesUnion
<1>8. T.next # 0 => /\ T.next = S.next /\ S.next \in (k + 1)..n /\ S.next \notin S.ToDelete
                    /\ S.code[S.next].now.avl.kind = "keep" => S.Used.VLAny
                    /\ I.kind \notin {"vset", "call"}
                    /\ \A i \in (k + 1)..(S.next - 1) :
                          /\ D[i].now.kind \notin {"vset", "call"}
                          /\ Tolerates(D[i].was, S.Used)
    BY <1>1 DEF CoalInv, clobbersVL, D
<1>9. T.next # 0 => /\ T.next \in k..n /\ T.next \notin T.ToDelete
                    /\ T.code[T.next].now.avl.kind = "keep" => T.Used.VLAny
    <2>1. T.next # 0 => T.next = S.next /\ T.next \in k..n
        BY <1>8
    <2>. QED  BY <1>1, <1>7, <1>8, <2>1
<1>10. ASSUME T.next # 0, NEW i \in k..(T.next - 1)
       PROVE  D[i].now.kind \notin {"vset", "call"} /\ Tolerates(D[i].was, T.Used)
    <2>1. CASE i = k
        BY <1>5, <1>6, <1>7, <1>8, <1>10, <2>1
    <2>2. CASE i # k
        <3>1. i \in (k + 1)..(S.next - 1)
            BY <1>3, <1>8, <1>10, <2>2
        <3>. QED  BY <1>7, <1>8, <1>10, <3>1
    <2>. QED  BY <2>1, <2>2
<1>11. T.ToDelete \subseteq k..n
    BY <1>1, <1>3
<1>12. /\ \A i \in 1..n : D[i] \in PlacedItems
       /\ \E K \in [1..(n + 1) -> SUBSET VType] :
             /\ X \subseteq K[1] /\ K[n + 1] \subseteq Y
             /\ \A i \in 1..n : Passes(D[i], K[i], K[i + 1])
    BY DEF CoalInv, D
<1>. QED  BY <1>2, <1>9, <1>10, <1>11, <1>12 DEF CoalInv

LEMMA StaysKeeps ==
    ASSUME WellFormed(fn), NEW n \in Nat, NEW S \in CoalStates(n), NEW k \in 1..n, NEW X, NEW Y,
           CoalInv(n, k + 1, X, Y, S), NEW T \in CoalStates(n), Stays(S, k, T)
    PROVE  CoalInv(n, k, X, Y, T)
<1> DEFINE I == S.code[k].now
           D == Remaining(S, n)
<1>1. /\ I.kind = "vset" /\ T.Used = getDemanded(I, TRUE) /\ T.code = S.code
      /\ T.ToDelete = S.ToDelete /\ T.next = k
    BY DEF Stays, CoalStates
<1>2. Remaining(T, n) = D
    BY <1>1 DEF Remaining
<1>3. S.code[k] \in PlacedItems /\ S.ToDelete \subseteq (k + 1)..n
    BY RemainingPlaces DEF CoalInv
<1>4. I.avl.kind = "keep" => T.Used.VLAny
    <2>1. I.avl.kind = "keep" => I.readsVL
        BY <1>3 DEF PlacedItems
    <2>. QED  BY <1>1, <2>1, KeepDemands
<1>5. /\ T.next \in k..n /\ T.next \notin T.ToDelete /\ T.ToDelete \subseteq k..n
      /\ T.code[T.next].now = I /\ k..(T.next - 1) = {}
    BY <1>1, <1>3
<1> HIDE DEF I, D
<1>6. /\ \A i \in 1..n : D[i] \in PlacedItems
      /\ \E K \in [1..(n + 1) -> SUBSET VType] :
            /\ X \subseteq K[1] /\ K[n + 1] \subseteq Y
            /\ \A i \in 1..n : Passes(D[i], K[i], K[i + 1])
    BY DEF CoalInv, D
<1>. QED  BY <1>2, <1>4, <1>5, <1>6 DEF CoalInv

\* A vset that goes.
LEMMA GoesKeeps ==
    ASSUME WellFormed(fn), NEW n \in Nat, NEW S \in CoalStates(n), NEW k \in 1..n, NEW X, NEW Y,
           CoalInv(n, k + 1, X, Y, S), NEW T \in CoalStates(n), Goes(S, k, T)
    PROVE  CoalInv(n, k, X, Y, T)
<1> DEFINE I == S.code[k].now
           D == Remaining(S, n)
           E == Remaining(T, n)
           m == S.next
<1>1. /\ I.kind = "vset" /\ m # 0 /\ S.Used = NothingDemanded
      /\ T.Used = S.Used /\ T.code = S.code /\ T.next = m /\ T.ToDelete = S.ToDelete \cup {k}
    BY DEF Goes, CoalStates
<1>2. /\ S.ToDelete \subseteq (k + 1)..n /\ m \in (k + 1)..n /\ m \notin S.ToDelete
      /\ S.code[m].now.avl.kind # "keep" /\ S.code[m].now.kind = "vset"
      /\ \A i \in (k + 1)..(m - 1) :
            D[i].now.kind \notin {"vset", "call"} /\ Tolerates(D[i].was, S.Used)
    <2>1. ~S.Used.VLAny
        BY <1>1 DEF NothingDemanded
    <2>. QED  BY <1>1, <2>1, RemainingPlaces DEF CoalInv
<1>3. k \notin S.ToDelete /\ k # m /\ m \in 1..n
    BY <1>2
<1>4. D[k] = S.code[k] /\ D[m] = S.code[m] /\ S.code[k] \in PlacedItems /\ S.code[m] \in PlacedItems
    BY <1>3, <1>2, RemainingPlaces
<1>5. E[k] = Emptied(S.code[k]) /\ \A i \in (1..n) \ {k} : E[i] = D[i]
    <2>1. \A i \in 1..n : E[i] = IF i \in T.ToDelete THEN Emptied(T.code[i]) ELSE T.code[i]
        BY DEF Remaining
    <2>2. \A i \in 1..n : D[i] = IF i \in S.ToDelete THEN Emptied(S.code[i]) ELSE S.code[i]
        BY DEF Remaining
    <2> HIDE DEF D, E
    <2>. QED  BY <1>1, <2>1, <2>2
<1>6. PICK K \in [1..(n + 1) -> SUBSET VType] :
         /\ X \subseteq K[1] /\ K[n + 1] \subseteq Y
         /\ \A i \in 1..n : Passes(D[i], K[i], K[i + 1])
    BY DEF CoalInv
<1>7. ~hasSEWOp(D[k].was) /\ ~hasSEWOp(D[m].was) /\ \A t : Fits(D[k].was, t) /\ Fits(D[m].was, t)
    BY <1>1, <1>2, <1>4, PlacedVset
<1>8. E[k] \in PlacedItems /\ E[k].was = D[k].was /\ E[k].now.kind = "none"
    BY <1>4, <1>5, <1>7, EmptiedPlaced, NoInstructionType
<1>9. /\ \A i \in 1..n : D[i] \in PlacedItems
      /\ D[k].now.kind = "vset" /\ D[m].now.kind = "vset" /\ D[m].now.avl.kind # "keep"
    BY <1>1, <1>2, <1>4 DEF CoalInv
<1> HIDE DEF I, D, E
<1>10. K[k] \in SUBSET VType /\ K[k + 1] \in SUBSET VType
    <2>1. k \in 1..(n + 1) /\ k + 1 \in 1..(n + 1)
        OBVIOUS
    <2>. QED  BY <1>6, <2>1
<1>11. D[k].now.vt \in K[k + 1]
    BY <1>6, <1>9 DEF Passes
<1>12. \A i \in (k + 1)..m : D[k].now.vt \in K[i]
    <2> DEFINE v == D[k].now.vt
    <2>1. v \in K[k + 1]
        BY <1>11
    <2> HIDE DEF v, m
    <2>2. \A i \in (k + 1)..m : v \in K[i]
        BY <1>2, <1>6, <2>1, Carried
    <2>. QED  BY <2>2 DEF v
<1>13. Passes(E[k], K[k], K[k])
    BY <1>7, <1>8 DEF Passes
<1>14. Passes(E[m], K[k], K[m + 1])
    <2>1. E[m] = D[m] /\ Passes(D[m], K[m], K[m + 1])
        BY <1>3, <1>5, <1>6
    <2>. QED  BY <1>7, <1>9, <2>1 DEF Passes
<1>15. ASSUME NEW i \in (k + 1)..(m - 1) PROVE Passes(D[i], K[k], K[k])
    <2>1. i \in 1..n /\ i \in (k + 1)..m
        BY <1>2
    <2>2. Passes(D[i], K[i], K[i + 1]) /\ D[k].now.vt \in K[i]
        BY <1>6, <1>12, <2>1
    <2>3. Fits(D[i].was, D[k].now.vt) /\ D[k].now.vt \in VType
        BY <1>10, <1>11, <2>2 DEF Passes
    <2>4. Tolerates(D[i].was, NothingDemanded)
        BY <1>1, <1>2
    <2>5. \A u : MeetsRoughly(u, D[k].now.vt, NothingDemanded)
        BY DEF MeetsRoughly, NothingDemanded, SEWEqual, SEWNone, LMULNone, LMULEqual,
               LMULLessThanOrEqualToM1
    <2>6. \A t \in K[k] : Fits(D[i].was, t)
        BY <1>10, <2>3, <2>4, <2>5 DEF Tolerates
    <2>. QED  BY <1>2, <2>6 DEF Passes
<1>16. \E L \in [1..(n + 1) -> SUBSET VType] :
          /\ L[1] = K[1] /\ L[n + 1] = K[n + 1]
          /\ \A j \in 1..n : Passes(E[j], L[j], L[j + 1])
    <2> DEFINE Z == K[k]
    <2>1. /\ Z \in SUBSET VType /\ Passes(E[k], K[k], Z) /\ Passes(E[m], Z, K[m + 1])
          /\ \A j \in (k + 1)..(m - 1) : Passes(D[j], Z, Z)
        BY <1>10, <1>13, <1>14, <1>15
    <2>2. \A j \in (1..n) \ {k, m} : E[j] = D[j]
        BY <1>5
    <2> HIDE DEF Z
    <2>3. Detour(n, D, E, K, k, m, Z)
        BY <1>2, <1>6, <2>1, <2>2 DEF Detour
    <2>. QED  BY <2>3, Bypass
<1>17. \A i \in 1..n : E[i] \in PlacedItems
    BY <1>5, <1>8, <1>9
<1>18. /\ T.next \in k..n /\ T.next \notin T.ToDelete /\ T.ToDelete \subseteq k..n
       /\ T.code[T.next].now.avl.kind # "keep"
    BY <1>1, <1>2, <1>3
<1>19. ASSUME NEW i \in k..(T.next - 1)
       PROVE  E[i].now.kind \notin {"vset", "call"} /\ Tolerates(E[i].was, T.Used)
    <2>1. CASE i = k
        <3>1. Tolerates(E[k].was, T.Used)
            BY <1>7, <1>8 DEF Tolerates
        <3>. QED  BY <1>8, <2>1, <3>1
    <2>2. CASE i # k
        <3>1. i \in (k + 1)..(m - 1) /\ i \in (1..n) \ {k}
            BY <1>1, <1>2, <2>2
        <3>. QED  BY <1>1, <1>2, <1>5, <3>1
    <2>. QED  BY <2>1, <2>2
<1>. QED  BY <1>6, <1>16, <1>17, <1>18, <1>19 DEF CoalInv, E

\* A vset that becomes the next one.
LEMMA BecomesKeeps ==
    ASSUME WellFormed(fn), NEW n \in Nat, NEW S \in CoalStates(n), NEW k \in 1..n, NEW X, NEW Y,
           CoalInv(n, k + 1, X, Y, S), NEW T \in CoalStates(n), Becomes(S, k, T)
    PROVE  CoalInv(n, k, X, Y, T)
<1> DEFINE m == S.next
           I == S.code[k].now
           N == S.code[m].now
           M == mutated(I, N)
           z == [S.code[k] EXCEPT !.now = M]
           D == Remaining(S, n)
           E == Remaining(T, n)
<1>1. /\ I.kind = "vset" /\ m # 0 /\ areCompatibleVTYPEs(I.vt, N.vt, S.Used)
      /\ T.Used = getDemanded(M, TRUE) /\ T.code = [S.code EXCEPT ![k].now = M] /\ T.next = k
      /\ T.ToDelete = S.ToDelete \cup {m}
    BY DEF Becomes
<1>2. /\ S.ToDelete \subseteq (k + 1)..n /\ m \in (k + 1)..n /\ m \notin S.ToDelete
      /\ N.kind = "vset" /\ (N.avl.kind = "keep" => S.Used.VLAny)
      /\ \A i \in (k + 1)..(m - 1) :
            D[i].now.kind \notin {"vset", "call"} /\ Tolerates(D[i].was, S.Used)
    BY <1>1, RemainingPlaces DEF CoalInv
<1>3. k \notin S.ToDelete /\ k # m /\ m \in 1..n
    BY <1>2
<1>4. /\ D[k] = S.code[k] /\ D[m] = S.code[m] /\ S.code[k] \in PlacedItems
      /\ S.code[m] \in PlacedItems /\ S.Used \in DemandedFields /\ S.code \in [1..n -> PlacedItems]
    BY <1>3, <1>2, RemainingPlaces
<1>5. /\ z \in PlacedItems /\ z.now = M /\ z.was = D[k].was
      /\ M \in Instruction /\ M.kind = "vset" /\ M.vt = N.vt
      /\ M.avl.kind = "keep" => I.avl.kind = "keep" /\ N.avl.kind = "keep" /\ M.readsVL
    BY <1>1, <1>2, <1>4, MutatedPlaced
<1>6. /\ T.code[k] = z /\ \A i \in (1..n) \ {k} : T.code[i] = S.code[i]
    BY <1>1, <1>4
<1>7. E[k] = z /\ E[m] = Emptied(D[m]) /\ \A i \in (1..n) \ {k, m} : E[i] = D[i]
    <2>1. \A i \in 1..n : E[i] = IF i \in T.ToDelete THEN Emptied(T.code[i]) ELSE T.code[i]
        BY DEF Remaining
    <2>2. \A i \in 1..n : D[i] = IF i \in S.ToDelete THEN Emptied(S.code[i]) ELSE S.code[i]
        BY DEF Remaining
    <2> HIDE DEF D, E, z, M
    <2>. QED  BY <1>1, <1>3, <1>4, <1>6, <2>1, <2>2
<1>8. PICK K \in [1..(n + 1) -> SUBSET VType] :
         /\ X \subseteq K[1] /\ K[n + 1] \subseteq Y
         /\ \A i \in 1..n : Passes(D[i], K[i], K[i + 1])
    BY DEF CoalInv
<1>9. ~hasSEWOp(D[k].was) /\ ~hasSEWOp(D[m].was) /\ \A t : Fits(D[k].was, t) /\ Fits(D[m].was, t)
    BY <1>1, <1>2, <1>4, PlacedVset
<1>10. /\ \A i \in 1..n : D[i] \in PlacedItems
       /\ D[k].now = I /\ D[m].now = N
    BY <1>4 DEF CoalInv
<1>11. E[m] \in PlacedItems /\ E[m].was = D[m].was /\ E[m].now.kind = "none"
    <2>1. D[m] \in PlacedItems
        BY <1>4
    <2>. QED  BY <1>7, <1>9, <2>1, EmptiedPlaced, NoInstructionType
<1> DEFINE Z == {N.vt}
<1>12. I.vt \in VType /\ N.vt \in VType /\ Z \in SUBSET VType
    BY <1>4 DEF PlacedItems, LegalType
<1> HIDE DEF D, E, z, M, N, I
<1>13. /\ Passes(D[k], K[k], K[k + 1]) /\ Passes(D[m], K[m], K[m + 1])
       /\ K[k] \in SUBSET VType
    <2>1. k \in 1..(n + 1)
        OBVIOUS
    <2>. QED  BY <1>3, <1>8, <2>1
<1>14. I.vt \in K[k + 1] /\ N.vt \in K[m + 1]
    BY <1>1, <1>2, <1>10, <1>13 DEF Passes
<1>15. \A i \in (k + 1)..m : I.vt \in K[i]
    <2> DEFINE v == I.vt
    <2>1. v \in K[k + 1]
        BY <1>14
    <2> HIDE DEF v, m
    <2>2. \A i \in (k + 1)..m : v \in K[i]
        BY <1>2, <1>8, <2>1, Carried
    <2>. QED  BY <2>2 DEF v
<1>16. Passes(E[k], K[k], Z)
    <2>1. ASSUME M.avl.kind = "keep", NEW t \in K[k]
          PROVE  getSEWLMULRatio(t) = getSEWLMULRatio(M.vt)
        <3>1. I.avl.kind = "keep" /\ N.avl.kind = "keep"
            BY <1>5, <2>1
        <3>2. getSEWLMULRatio(t) = getSEWLMULRatio(I.vt)
            BY <1>1, <1>10, <1>13, <2>1, <3>1 DEF Passes
        <3>3. I.vt \in K[m]
            BY <1>2, <1>15
        <3>4. getSEWLMULRatio(I.vt) = getSEWLMULRatio(N.vt)
            BY <1>2, <1>10, <1>13, <3>1, <3>3 DEF Passes
        <3>. QED  BY <1>5, <3>2, <3>4
    <2>. QED  BY <1>5, <1>7, <1>9, <2>1 DEF Passes
<1>17. Passes(E[m], Z, K[m + 1])
    BY <1>9, <1>11, <1>14 DEF Passes
<1>18. ASSUME NEW i \in (k + 1)..(m - 1) PROVE Passes(D[i], Z, Z)
    <2>1. i \in 1..n /\ i \in (k + 1)..m
        BY <1>2
    <2>2. Passes(D[i], K[i], K[i + 1]) /\ I.vt \in K[i]
        BY <1>8, <1>15, <2>1
    <2>3. Fits(D[i].was, I.vt)
        BY <2>2 DEF Passes
    <2>4. MeetsRoughly(N.vt, I.vt, S.Used)
        BY <1>1, <1>4, <1>12, CompatibleRoughly
    <2>5. Fits(D[i].was, N.vt)
        BY <1>2, <1>12, <2>3, <2>4 DEF Tolerates
    <2>. QED  BY <1>2, <2>5 DEF Passes
<1>19. \E L \in [1..(n + 1) -> SUBSET VType] :
          /\ L[1] = K[1] /\ L[n + 1] = K[n + 1]
          /\ \A j \in 1..n : Passes(E[j], L[j], L[j + 1])
    <2> HIDE DEF Z
    <2>1. Detour(n, D, E, K, k, m, Z)
        BY <1>2, <1>7, <1>8, <1>12, <1>16, <1>17, <1>18 DEF Detour
    <2>. QED  BY <2>1, Bypass
<1>20. \A i \in 1..n : E[i] \in PlacedItems
    BY <1>5, <1>7, <1>10, <1>11
<1>21. M.avl.kind = "keep" => T.Used.VLAny
    <2>1. ASSUME M.avl.kind = "keep" PROVE getDemanded(M, TRUE).VLAny
        BY <1>5, <2>1, KeepDemands
    <2>. QED  BY <1>1, <2>1
<1>22. /\ T.next \in k..n /\ T.next \notin T.ToDelete /\ T.ToDelete \subseteq k..n
       /\ T.code[T.next].now = M /\ k..(T.next - 1) = {}
    BY <1>1, <1>2, <1>3, <1>5, <1>6
<1>. QED  BY <1>8, <1>19, <1>20, <1>21, <1>22 DEF CoalInv, E

\* What remains of a block leads where the block did.
LEMMA CoalescedLeads ==
    ASSUME WellFormed(fn), NEW b, Code[b] \in Seq(PlacedItems), NEW X, NEW Y,
           Leads(Code[b], X, Y)
    PROVE  coalesced(b) \in Seq(PlacedItems) /\ Leads(coalesced(b), X, Y)
<1> DEFINE n == Len(Code[b])
           c == coalesced(b)
<1>1. n \in Nat /\ \A i \in 1..n : Code[b][i] \in PlacedItems
    OBVIOUS
<1>2. PICK h \in [0..n -> CoalStates(n)] :
         /\ h[0] = [next |-> 0, Used |-> All, code |-> Code[b], ToDelete |-> {}]
         /\ c = Remaining(h[n], n)
         /\ \A k \in 1..n : h[k] = coalStep(b, n + 1 - k, h[k - 1])
    BY CoalFold
<1>3. PICK K : Path(Code[b], K) /\ X \subseteq K[1] /\ K[n + 1] \subseteq Y
    BY DEF Leads
<1>4. /\ K \in [1..(n + 1) -> SUBSET VType]
      /\ \A i \in 1..n : Passes(Code[b][i], K[i], K[i + 1])
    BY <1>3 DEF Path
<1> DEFINE at(k) == n + 1 - k
           P == {k \in 0..n : CoalInv(n, at(k), X, Y, h[k])}
<1>5. 0 \in P
    <2>1. h[0].next = 0 /\ h[0].code = Code[b] /\ h[0].ToDelete = {} /\ 0 \in 0..n
        BY <1>1, <1>2
    <2> HIDE DEF n
    <2>2. \A i \in 1..n : Remaining(h[0], n)[i] = Code[b][i]
        BY <2>1 DEF Remaining
    <2>3. CoalInv(n, at(0), X, Y, h[0])
        BY <1>1, <1>3, <1>4, <2>1, <2>2 DEF CoalInv
    <2>. QED  BY <2>1, <2>3
<1> HIDE DEF n, c
<1>6. ASSUME NEW k \in 1..n, k - 1 \in P PROVE k \in P
    <2> DEFINE i == n + 1 - k
               S == h[k - 1]
               T == coalStep(b, i, S)
    <2>1. i \in 1..n /\ at(k - 1) = i + 1 /\ at(k) = i /\ k \in 0..n /\ k - 1 \in 0..n
        BY <1>1
    <2>2. h[k] = T /\ S \in CoalStates(n) /\ CoalInv(n, i + 1, X, Y, S)
        BY <1>2, <1>6, <2>1
    <2> HIDE DEF S, i, at, P
    <2>3. T \in CoalStates(n)
        BY <1>1, <2>1, <2>2, CoalType
    <2>4. Grows(S, i, T) \/ Goes(S, i, T) \/ Becomes(S, i, T) \/ Stays(S, i, T)
        BY <1>1, <2>1, <2>2, CoalCases
    <2> HIDE DEF T
    <2>5. CoalInv(n, i, X, Y, T)
        BY <1>1, <2>1, <2>2, <2>3, <2>4, GrowsKeeps, GoesKeeps, BecomesKeeps, StaysKeeps
    <2>. QED  BY <2>1, <2>2, <2>5 DEF P
<1>7. n \in P
    <2>1. n \in 0..n
        BY <1>1
    <2>2. \A k \in 0..n : k \in P
        <3> HIDE DEF P
        <3>. QED  BY <1>1, <1>5, <1>6, IndexInduction
    <2>. QED  BY <2>1, <2>2
<1>8. CoalInv(n, at(n), X, Y, h[n])
    BY <1>7
<1>9. /\ \A i \in 1..n : c[i] \in PlacedItems
      /\ \E L \in [1..(n + 1) -> SUBSET VType] :
            /\ X \subseteq L[1] /\ L[n + 1] \subseteq Y
            /\ \A i \in 1..n : Passes(c[i], L[i], L[i + 1])
    BY <1>2, <1>8 DEF CoalInv
<1>10. c \in Seq(PlacedItems) /\ Len(c) = n
    <2>1. c = [i \in 1..n |-> c[i]]
        BY <1>2 DEF Remaining
    <2>2. c \in [1..n -> PlacedItems]
        BY <1>9, <2>1
    <2>. QED  BY <1>1, <2>2
<1>11. Leads(c, X, Y)
    BY <1>9, <1>10 DEF Leads, Path
<1>. QED  BY <1>10, <1>11 DEF c
-----------------------------------------------------------------------------
(* The load immediates that go with the last of their uses.                 *)

\* Code d is code c without some of its load immediates.
Thinned(c, d) ==
    /\ d \in [1..Len(c) -> Item]
    /\ \A k \in 1..Len(c) : d[k] = c[k] \/ (c[k].now.kind = "li" /\ d[k] = Emptied(c[k]))

LEMMA EmptiedItem ==
    ASSUME NEW x \in Item
    PROVE  Emptied(x) \in Item /\ Emptied(x).was = x.was /\ Emptied(x).now = NoInstruction
BY NoInstructionType DEF Emptied, Item

LEMMA WithoutThinned ==
    ASSUME NEW old, NEW new, new \in [Blocks -> Seq(Item)]
    PROVE  LET W == withoutDeadImmediates(old, new)
           IN  DOMAIN W = Blocks /\ W = [b \in Blocks |-> W[b]]
               /\ \A b \in Blocks : Thinned(new[b], W[b])
<1> DEFINE unused == ReadIn(old) \ ReadIn(new)
           live(x) == IF x.now.kind = "li" /\ x.now.dst.reg \in unused
                      THEN [x EXCEPT !.now = NoInstruction] ELSE x
           W == withoutDeadImmediates(old, new)
<1>1. W = [b \in Blocks |-> [k \in 1..Len(new[b]) |-> live(new[b][k])]]
    BY DEF withoutDeadImmediates
<1>2. \A x \in Item : /\ live(x) = x \/ (x.now.kind = "li" /\ live(x) = Emptied(x))
                      /\ live(x) \in Item
    BY EmptiedItem DEF Emptied
<1> HIDE DEF W, live
<1>3. ASSUME NEW b \in Blocks PROVE Thinned(new[b], W[b])
    <2>1. new[b] \in Seq(Item)
        OBVIOUS
    <2>2. \A k \in 1..Len(new[b]) : new[b][k] \in Item
        BY <2>1
    <2>3. W[b] = [k \in 1..Len(new[b]) |-> live(new[b][k])]
        BY <1>1
    <2>. QED  BY <1>2, <2>2, <2>3 DEF Thinned
<1>. QED  BY <1>1, <1>3 DEF W

\* They are none of the places with a vector instruction, and set neither VL
\* nor VTYPE.
LEMMA ThinnedPlaced ==
    ASSUME WellFormed(fn), NEW c \in Seq(PlacedItems), NEW d, Thinned(c, d)
    PROVE  d \in Seq(PlacedItems) /\ \A X, Y : Leads(c, X, Y) => Leads(d, X, Y)
<1> DEFINE n == Len(c)
<1>1. /\ n \in Nat /\ \A k \in 1..n : c[k] \in PlacedItems
      /\ d \in [1..n -> Item]
      /\ \A k \in 1..n : d[k] = c[k] \/ (c[k].now.kind = "li" /\ d[k] = Emptied(c[k]))
    BY DEF Thinned
<1> HIDE DEF n
<1>2. ASSUME NEW k \in 1..n
      PROVE  d[k] \in PlacedItems /\ \A X, Y : Passes(c[k], X, Y) => Passes(d[k], X, Y)
    <2>1. CASE d[k] = c[k]
        BY <1>1, <2>1
    <2>2. CASE c[k].now.kind = "li" /\ d[k] = Emptied(c[k])
        <3> DEFINE x == c[k]
                   y == d[k]
        <3>1. x \in PlacedItems /\ x.now.kind = "li" /\ y = Emptied(x)
            BY <1>1, <2>2
        <3> HIDE DEF x, y
        <3>2. ~hasSEWOp(x.was)
            <4>1. ~hasSEWOp(x.now)
                BY <3>1 DEF hasSEWOp, VectorOps
            <4>2. ASSUME hasSEWOp(x.was) PROVE FALSE
                <5>1. x.now = x.was \/ x.now = [x.was EXCEPT !.avl = NoAVL]
                    BY <3>1, <4>2 DEF PlacedItems
                <5>2. x.now.kind = x.was.kind
                    BY <3>1, <5>1 DEF PlacedItems, Item, Instruction
                <5>. QED  BY <4>1, <4>2, <5>2 DEF hasSEWOp
            <4>. QED  BY <4>2
        <3>3. y \in PlacedItems /\ y.was = x.was /\ y.now.kind = "none"
            BY <3>1, <3>2, EmptiedPlaced, NoInstructionType
        <3>4. \A X, Y : Passes(x, X, Y) => Passes(y, X, Y)
            BY <3>1, <3>3 DEF Passes
        <3>. QED  BY <3>3, <3>4 DEF x, y
    <2>. QED  BY <1>1, <2>1, <2>2
<1>3. d \in Seq(PlacedItems) /\ Len(d) = n
    <2>1. d \in [1..n -> PlacedItems]
        BY <1>1, <1>2
    <2>. QED  BY <1>1, <2>1
<1>4. ASSUME NEW X, NEW Y, Leads(c, X, Y) PROVE Leads(d, X, Y)
    <2>1. PICK K : Path(c, K) /\ X \subseteq K[1] /\ K[n + 1] \subseteq Y
        BY <1>4 DEF Leads, n
    <2>2. Path(d, K)
        BY <1>2, <1>3, <2>1 DEF Path, n
    <2>. QED  BY <1>3, <2>1, <2>2 DEF Leads
<1>. QED  BY <1>3, <1>4

LEMMA ThinnedFresh ==
    ASSUME WellFormed(fn), NEW c \in Seq(FreshItems), NEW d, Thinned(c, d)
    PROVE  /\ d \in Seq(FreshItems)
           /\ \A A \in States : computeVLVTYPEChanges(d, A) = computeVLVTYPEChanges(c, A)
<1> DEFINE n == Len(c)
<1>1. /\ n \in Nat /\ \A k \in 1..n : c[k] \in FreshItems
      /\ d \in [1..n -> Item]
      /\ \A k \in 1..n : d[k] = c[k] \/ (c[k].now.kind = "li" /\ d[k] = Emptied(c[k]))
    BY DEF Thinned
<1>2. FreshItems \subseteq PlainItems /\ PlainItems \subseteq Item
    BY DEF FreshItems, PlainItems
<1> HIDE DEF n
<1> DEFINE T(I, A) == transferAfter(transferBefore(A, I), I)
<1>3. ASSUME NEW k \in 1..n
      PROVE  d[k] \in FreshItems /\ \A A : T(d[k].now, A) = T(c[k].now, A)
    <2>1. CASE d[k] = c[k]
        BY <1>1, <2>1
    <2>2. CASE c[k].now.kind = "li" /\ d[k] = Emptied(c[k])
        <3> DEFINE x == c[k]
                   y == d[k]
        <3>1. x \in FreshItems /\ x \in Item /\ x.now.kind = "li" /\ y = Emptied(x)
            BY <1>1, <1>2, <2>2
        <3> HIDE DEF x, y
        <3>2. ~hasSEWOp(x.was) /\ ~hasSEWOp(x.now)
            <4>1. ~hasSEWOp(x.now)
                BY <3>1 DEF hasSEWOp, VectorOps
            <4>. QED  BY <3>1, <4>1 DEF FreshItems
        <3>3. y \in Item /\ y.was = x.was /\ y.now = NoInstruction
            BY <3>1, EmptiedItem
        <3>4. ~hasSEWOp(y.now)
            BY <3>3, NoInstructionType DEF hasSEWOp, VectorOps
        <3>5. y \in FreshItems
            BY <3>1, <3>2, <3>3, <3>4, NoInstructionPlain DEF FreshItems, PlainItems
        <3>6. \A A : T(x.now, A) = A
            BY <3>1, <3>2 DEF transferAfter, transferBefore, isVectorConfigInstr
        <3>7. \A A : T(y.now, A) = A
            BY <3>3, <3>4, NoInstructionType DEF transferAfter, transferBefore, isVectorConfigInstr
        <3> HIDE DEF T
        <3>. QED  BY <3>5, <3>6, <3>7 DEF x, y
    <2>. QED  BY <1>1, <2>1, <2>2
<1>4. d \in Seq(FreshItems) /\ Len(d) = n
    <2>1. d \in [1..n -> FreshItems]
        BY <1>1, <1>3
    <2>. QED  BY <1>1, <2>1
<1>5. ASSUME NEW A \in States
      PROVE  computeVLVTYPEChanges(d, A) = computeVLVTYPEChanges(c, A)
    <2>1. c \in Seq(PlainItems) /\ d \in Seq(PlainItems)
        BY <1>2, <1>4
    <2>2. PICK f \in [0..n -> States] :
             /\ f[0] = A /\ f[n] = computeVLVTYPEChanges(c, A)
             /\ \A k \in 1..n : f[k] = T(c[k].now, f[k - 1])
        BY <2>1, ChangesFold DEF n
    <2>3. PICK g \in [0..n -> States] :
             /\ g[0] = A /\ g[n] = computeVLVTYPEChanges(d, A)
             /\ \A k \in 1..n : g[k] = T(d[k].now, g[k - 1])
        <3>1. PICK g \in [0..Len(d) -> States] :
                 /\ g[0] = A /\ g[Len(d)] = computeVLVTYPEChanges(d, A)
                 /\ \A k \in 1..Len(d) : g[k] = T(d[k].now, g[k - 1])
            BY <2>1, ChangesFold
        <3>. QED  BY <1>4, <3>1
    <2> HIDE DEF T
    <2> DEFINE P == {k \in 0..n : f[k] = g[k]}
    <2>4. 0 \in P
        BY <1>1, <2>2, <2>3
    <2>5. ASSUME NEW k \in 1..n, k - 1 \in P PROVE k \in P
        <3>1. f[k] = T(c[k].now, f[k - 1]) /\ g[k] = T(d[k].now, g[k - 1])
            BY <2>2, <2>3
        <3>2. f[k - 1] = g[k - 1]
            BY <2>5
        <3>3. T(d[k].now, f[k - 1]) = T(c[k].now, f[k - 1])
            BY <1>3
        <3>4. f[k] = g[k]
            BY <3>1, <3>2, <3>3
        <3>5. k \in 0..n
            BY <1>1
        <3>. QED  BY <3>4, <3>5
    <2>6. n \in P
        <3>1. n \in 0..n
            BY <1>1
        <3>2. \A k \in 0..n : k \in P
            <4> HIDE DEF P
            <4>. QED  BY <1>1, <2>4, <2>5, IndexInduction
        <3>. QED  BY <3>1, <3>2
    <2>. QED  BY <2>2, <2>3, <2>6
<1>. QED  BY <1>4, <1>5
-----------------------------------------------------------------------------
(* The code, from the function to what the hart runs.                       *)

\* The end of block b has the types its code leads to.
Agree(b) == TypesOf(computeVLVTYPEChanges(Code[b], Pred[b])) \subseteq TypesOf(Exit[b])

\* Block b is as the pass leaves it: it leads from what it is entered with to
\* what is known at its end.
Done(b) == Code[b] \in Seq(PlacedItems) /\ Leads(Code[b], Entry(b), TypesOf(Exit[b]))

\* The code through the phases of the pass.
CodeInv ==
    /\ Code \in [Blocks -> Seq(Item)]
    /\ phase \in {"collect", "incoming", "pre"} => \A b \in Blocks : Code[b] \in Seq(FreshItems)
    /\ phase = "pre" => \A b \in Blocks : Agree(b)
    /\ phase = "emit" => \A b \in Blocks : IF b >= blk THEN Code[b] \in Seq(FreshItems) /\ Agree(b)
                                           ELSE Done(b)
    /\ phase = "coalesce" => \A b \in Blocks : Done(b)
    /\ phase \in {"run", "ended"} =>
          \/ isValid(Pred[1]) /\ \A b \in Blocks : Done(b)
          \/ ~HadVectorOp /\ \A b \in Blocks : Code[b] \in Seq(FreshItems)

\* While the function stays as it is, so does what its code leads to.
LEMMA LeadsStable ==
    ASSUME fn' = fn
    PROVE  /\ PlacedItems' = PlacedItems /\ FreshItems' = FreshItems
           /\ \A code, X, Y : Leads(code, X, Y)' <=> Leads(code, X, Y)
           /\ \A x, X, Y : Passes(x, X, Y)' <=> Passes(x, X, Y)
<1>1. /\ LegalType' = LegalType /\ PlainAVL' = PlainAVL /\ PlainItems' = PlainItems
    BY TypesStable
<1>2. \A I : Plain(I)' <=> Plain(I)
    BY <1>1 DEF Plain, operandAVL, Known
<1>3. PlacedItems' = PlacedItems
    <2>1. \A a : operandAVL(a)' = operandAVL(a)
        BY DEF operandAVL, Known
    <2>. QED  BY <1>1, <1>2, <2>1 DEF PlacedItems
<1>4. FreshItems' = FreshItems
    BY <1>1, <1>2 DEF FreshItems
<1>5. \A I, t : Fits(I, t)' <=> Fits(I, t)
    BY DEF Fits, getDemanded, computeInfoForInstr, forwardVSETVLIAVL,
           operandAVL, isOutputVL, hasAVLDefMI, getAVLDefMI, Known, computeVLMAX
<1>6. \A x, X, Y : Passes(x, X, Y)' <=> Passes(x, X, Y)
    BY <1>5 DEF Passes
<1>7. \A code, K : Path(code, K)' <=> Path(code, K)
    BY <1>6 DEF Path
<1>8. \A code, X, Y : Leads(code, X, Y)' <=> Leads(code, X, Y)
    BY <1>7 DEF Leads
<1>. QED  BY <1>3, <1>4, <1>6, <1>8

LEMMA ItemSets == FreshItems \subseteq Item /\ PlacedItems \subseteq Item
BY DEF FreshItems, PlainItems, PlacedItems

\* The function's own code.
LEMMA CodeInit ==
    ASSUME Init
    PROVE  CodeInv
<1>1. /\ WellFormed(fn) /\ phase = "collect"
      /\ Code = [b \in Blocks |-> [k \in 1..Len(fn.code[b]) |->
                    [was |-> fn.code[b][k], now |-> fn.code[b][k]]]]
    BY FunctionsAssumption DEF Init
<1>2. ASSUME NEW b \in Blocks
      PROVE  Code[b] \in Seq(FreshItems)
    <2> DEFINE n == Len(fn.code[b])
    <2>1. n \in Nat /\ \A k \in 1..n : fn.code[b][k] \in Instruction
        BY <1>1, BlocksType
    <2>2. ASSUME NEW k \in 1..n
          PROVE  [was |-> fn.code[b][k], now |-> fn.code[b][k]] \in FreshItems
        <3> DEFINE I == fn.code[b][k]
        <3>1. I \in Instruction /\ Plain(I)
            BY <1>1, <2>1, InstructionPlain
        <3> HIDE DEF I
        <3>2. [was |-> I, now |-> I] \in FreshItems
            BY <3>1 DEF FreshItems, PlainItems, Item
        <3>. QED  BY <3>2 DEF I
    <2>3. Code[b] = [k \in 1..n |-> [was |-> fn.code[b][k], now |-> fn.code[b][k]]]
        BY <1>1
    <2> HIDE DEF n
    <2>4. Code[b] \in [1..n -> FreshItems]
        BY <2>2, <2>3
    <2>. QED  BY <2>1, <2>4
<1>3. Code \in [Blocks -> Seq(Item)]
    <2>1. Code = [b \in Blocks |-> Code[b]]
        BY <1>1
    <2>2. \A b \in Blocks : Code[b] \in Seq(Item)
        BY <1>2, ItemSets
    <2>. QED  BY <2>1, <2>2
<1>. QED  BY <1>1, <1>2, <1>3 DEF CodeInv

\* The data flow leaves the code as it is.
LEMMA CodeFlow ==
    ASSUME FlowInv, FlowInv', CodeInv,
           CollectBlocks \/ ComputeIncomingVLVTYPE \/ StartPRE
    PROVE  CodeInv'
<1>1. /\ fn' = fn /\ Code' = Code /\ phase \in {"collect", "incoming"}
    BY DEF CollectBlocks, ComputeIncomingVLVTYPE, StartPRE, passVars
<1>2. Blocks' = Blocks /\ FreshItems' = FreshItems /\ WellFormed(fn)
    BY <1>1, LeadsStable, FlowFunction DEF Blocks, FlowInv
<1>3. ASSUME phase' = "collect" \/ phase' = "incoming"
                \/ (phase' = "run" /\ ~HadVectorOp')
                \/ (phase' = "pre" /\ \A b \in Blocks : Agree(b)')
      PROVE  CodeInv'
    <2>1. Code' \in [Blocks -> Seq(Item)] /\ \A b \in Blocks : Code'[b] \in Seq(FreshItems)
        BY <1>1 DEF CodeInv
    <2>. QED  BY <1>2, <1>3, <2>1 DEF CodeInv
<1>4. CASE CollectBlocks
    <2>1. \/ phase' = "incoming"
          \/ phase' = "run" /\ ~HadVectorOp
        BY <1>4 DEF CollectBlocks
    <2>2. HadVectorOp' = HadVectorOp
        BY <1>1, <1>2 DEF HadVectorOp, isVectorConfigInstr, hasSEWOp
    <2>. QED  BY <1>3, <2>1, <2>2
<1>5. CASE ComputeIncomingVLVTYPE
    <2>1. phase' = "incoming"
        BY <1>5 DEF ComputeIncomingVLVTYPE
    <2>. QED  BY <1>3, <2>1
<1>6. CASE StartPRE
    <2>1. phase' = "pre" /\ UNCHANGED <<Pred, Exit>> /\ phase = "incoming"
        BY <1>6 DEF StartPRE, passVars
    <2>2. ASSUME NEW b \in Blocks PROVE Agree(b)'
        <3> DEFINE C == computeVLVTYPEChanges(Code[b], Pred[b])
        <3>1. SameInfo(Exit[b], C)
            BY <2>1 DEF FlowInv, ExitAgrees
        <3>2. /\ Code[b] \in Seq(PlainItems) /\ Pred[b] \in States /\ Exit[b] \in States
            BY <2>1 DEF FlowInv, FlowType
        <3>3. C \in States
            BY <1>2, <3>2, ChangesType
        <3>4. computeVLVTYPEChanges(Code'[b], Pred'[b])
                 = computeVLVTYPEChanges(Code[b], Pred[b])
            BY <1>1, <2>1
        <3>5. computeVLVTYPEChanges(Code[b], Pred[b])' = computeVLVTYPEChanges(Code'[b], Pred'[b])
            BY <1>1, ChangesStable
        <3> HIDE DEF C
        <3>6. TypesOf(C) = TypesOf(Exit[b])
            BY <3>1, <3>2, <3>3, SameAlike, AlikeTypes
        <3>. QED  BY <2>1, <3>4, <3>5, <3>6 DEF Agree, C
    <2>. QED  BY <1>3, <2>1, <2>2
<1>. QED  BY <1>4, <1>5, <1>6

\* Partial redundancy elimination: the vset it inserts has the type that is
\* known then, and block blk ends with the types it ended with.
LEMMA CodePRE ==
    ASSUME FlowInv, FlowInv', CodeInv, DoPRE
    PROVE  CodeInv'
<1>1. /\ WellFormed(fn) /\ phase = "pre" /\ fn' = fn /\ NextBlock("pre", "emit") /\ blk \in Blocks
      /\ Pred \in [Blocks -> States] /\ Exit \in [Blocks -> States]
      /\ Code \in [Blocks -> Seq(PlainItems)] /\ Code \in [Blocks -> Seq(Item)]
      /\ \A b \in Blocks : Code[b] \in Seq(FreshItems) /\ Agree(b)
    BY FlowFunction DEF DoPRE, FlowInv, FlowType, CodeInv
<1>2. Blocks' = Blocks /\ FreshItems' = FreshItems /\ Len(fn.code) \in Nat
    BY <1>1, LeadsStable, BlocksType DEF Blocks
<1>3. phase' = "pre" \/ (phase' = "emit" /\ blk' = 1)
    BY <1>1 DEF NextBlock
<1>4. ASSUME Code' \in [Blocks -> Seq(Item)],
             \A b \in Blocks : Code'[b] \in Seq(FreshItems) /\ Agree(b)'
      PROVE  CodeInv'
    <2>1. \A b \in Blocks : blk' = 1 => b >= blk'
        BY DEF Blocks
    <2>. QED  BY <1>2, <1>3, <1>4, <2>1 DEF CodeInv
<1>5. CASE ~canPRE(blk)
    <2>1. UNCHANGED <<Code, Exit, Pred>>
        BY <1>5 DEF DoPRE
    <2>2. \A b \in Blocks : Agree(b)' <=> Agree(b)
        BY <1>1, <2>1, ChangesStable DEF Agree
    <2>. QED  BY <1>1, <1>4, <2>1, <2>2
<1>6. CASE canPRE(blk)
    <2> DEFINE A == availableInfo(blk)
    <2>1. /\ A \in States /\ A.State = "AVL" /\ ~A.SEWLMULRatioOnly
          /\ \E p \in Blocks :
                /\ unavailable(blk) = {p} /\ fn.succ[p] = {blk}
                /\ Vset(availableAVL(p, A.avl), A.vt) \in Instruction
                /\ Plain(Vset(availableAVL(p, A.avl), A.vt))
        BY <1>1, <1>6, PREAvailable DEF canPRE
    <2>2. PICK p \in Blocks : /\ unavailable(blk) = {p}
                              /\ Vset(availableAVL(p, A.avl), A.vt) \in Instruction
                              /\ Plain(Vset(availableAVL(p, A.avl), A.vt))
        BY <2>1
    <2> DEFINE I == Vset(availableAVL(p, A.avl), A.vt)
               x == Inserted(I)
    <2>3. /\ Code' = [Code EXCEPT ![p] = Append(@, x)]
          /\ Exit' = [Exit EXCEPT ![p] = A] /\ Pred' = [Pred EXCEPT ![blk] = A]
        BY <1>6, <2>2 DEF DoPRE, A
    <2>4. Alike(computeVLVTYPEChanges(Code[blk], A), computeVLVTYPEChanges(Code[blk], Pred[blk]))
        <3>1. SameInfo(preTransitions(blk, A).cur, preTransitions(blk, A).old)
            BY <1>6 DEF canPRE
        <3> HIDE DEF A
        <3>. QED  BY <1>1, <2>1, <3>1, PreSame
    <2>5. I.kind = "vset" /\ I.vt = A.vt
        BY DEF Vset, NoInstruction
    <2>6. A.vt \in VType /\ TypesOf(A) = {A.vt}
        <3> HIDE DEF A
        <3>. QED  BY <2>1, FullTypes DEF Full
    <2> HIDE DEF A, I
    <2>7. x.was = NoInstruction /\ x.now = I /\ x \in FreshItems
        <3>1. x.was = NoInstruction /\ x.now = I /\ x \in PlainItems
            BY <2>2, NoInstructionType DEF Inserted, PlainItems, Item, I
        <3>2. ~hasSEWOp(NoInstruction) /\ ~hasSEWOp(I)
            BY <2>5, NoInstructionType DEF hasSEWOp, VectorOps
        <3> HIDE DEF x
        <3>. QED  BY <1>1, <3>1, <3>2, NoInstructionPlain DEF FreshItems
    <2> HIDE DEF x
    <2>8. /\ Code'[p] = Append(Code[p], x) /\ \A b \in Blocks \ {p} : Code'[b] = Code[b]
          /\ Exit'[p] = A /\ \A b \in Blocks \ {p} : Exit'[b] = Exit[b]
          /\ Pred'[blk] = A /\ \A b \in Blocks \ {blk} : Pred'[b] = Pred[b]
        BY <1>1, <2>3
    <2>9. \A b \in Blocks : Code'[b] \in Seq(FreshItems)
        <3>1. Append(Code[p], x) \in Seq(FreshItems)
            BY <1>1, <2>7
        <3>. QED  BY <1>1, <2>8, <3>1
    <2>10. Code' \in [Blocks -> Seq(Item)]
        <3>1. Append(Code[p], x) \in Seq(Item)
            BY <1>1, <2>7, ItemSets
        <3>. QED  BY <1>1, <2>3, <3>1
    <2>11. Pred'[blk] \in States /\ \A b \in Blocks : Pred'[b] \in States
        BY <1>1, <2>1, <2>8
    <2>12. ASSUME NEW b \in Blocks
           PROVE  TypesOf(computeVLVTYPEChanges(Code'[b], Pred'[b])) \subseteq TypesOf(Exit'[b])
        <3>1. CASE b = p
            <4> DEFINE c == Append(Code[p], x)
                       P == Pred'[p]
                       n == Len(Code[p])
            <4>1. /\ P \in States /\ c \in Seq(PlainItems)
                  /\ Len(c) = n + 1 /\ n \in Nat /\ c[n + 1] = x
                <5>1. x \in PlainItems
                    BY <2>7 DEF FreshItems
                <5>. QED  BY <1>1, <2>11, <5>1
            <4> HIDE DEF c, P
            <4>2. PICK h \in [0..Len(c) -> States] :
                     /\ h[0] = P /\ h[Len(c)] = computeVLVTYPEChanges(c, P)
                     /\ \A k \in 1..Len(c) :
                           h[k] = transferAfter(transferBefore(h[k - 1], c[k].now), c[k].now)
                BY <1>1, <4>1, ChangesFold
            <4> DEFINE B == transferBefore(h[n], I)
            <4>3. computeVLVTYPEChanges(c, P) = transferAfter(B, I)
                <5>1. n + 1 \in 1..Len(c) /\ n + 1 - 1 = n
                    BY <4>1
                <5>. QED  BY <2>7, <4>1, <4>2, <5>1
            <4>4. transferAfter(B, I) = getInfoForVSETVLI(I)
                BY <2>5 DEF transferAfter, isVectorConfigInstr
            <4>5. getInfoForVSETVLI(I).vt = A.vt
                BY <2>5 DEF getInfoForVSETVLI, Info
            <4>6. Full(getInfoForVSETVLI(I))
                <5>1. I \in Instruction /\ Plain(I)
                    BY <2>2 DEF I
                <5>. QED  BY <1>1, <5>1, VsetInfo
            <4>7. TypesOf(getInfoForVSETVLI(I)) = {A.vt}
                BY <4>5, <4>6, FullTypes
            <4>8. TypesOf(computeVLVTYPEChanges(c, P)) \subseteq TypesOf(A)
                BY <2>6, <4>3, <4>4, <4>7
            <4>. QED  BY <2>8, <3>1, <4>8 DEF c, P
        <3>2. CASE b # p /\ b = blk
            <4> DEFINE C == computeVLVTYPEChanges(Code[blk], A)
                       D == computeVLVTYPEChanges(Code[blk], Pred[blk])
            <4>1. C \in States /\ D \in States
                BY <1>1, <2>1, ChangesType
            <4>2. TypesOf(D) \subseteq TypesOf(Exit[blk])
                BY <1>1 DEF Agree
            <4> HIDE DEF C, D
            <4>3. TypesOf(C) = TypesOf(D)
                BY <2>4, <4>1, AlikeTypes DEF C, D
            <4>4. Code'[b] = Code[blk] /\ Exit'[b] = Exit[blk] /\ Pred'[b] = A
                BY <2>8, <3>2
            <4>. QED  BY <4>2, <4>3, <4>4 DEF C
        <3>3. CASE b # p /\ b # blk
            BY <1>1, <2>8, <3>3 DEF Agree
        <3>. QED  BY <3>1, <3>2, <3>3
    <2>13. ASSUME NEW b \in Blocks PROVE Agree(b)'
        <3>1. computeVLVTYPEChanges(Code[b], Pred[b])' = computeVLVTYPEChanges(Code'[b], Pred'[b])
            BY <1>1, ChangesStable
        <3>. QED  BY <2>12, <3>1 DEF Agree
    <2>. QED  BY <1>4, <2>9, <2>10, <2>13
<1>. QED  BY <1>5, <1>6

\* The types a block may be entered with are known at its start.
LEMMA EntryKnown ==
    ASSUME FlowInv, FlowDone, NEW b \in Blocks
    PROVE  Entry(b) \subseteq TypesOf(Pred[b])
<1>1. /\ Pred \in [Blocks -> States] /\ Exit \in [Blocks -> States] /\ Solved(b)
    BY DEF FlowInv, FlowType
<1>2. CASE b = 1
    <2>1. isUnknown(Pred[1])
        BY <1>1, <1>2 DEF Solved
    <2>. QED  BY <1>2, <2>1 DEF TypesOf, Entry, isUnknown, isValid
<1>3. CASE b # 1
    <2>1. ASSUME NEW p \in predecessors(b) PROVE TypesOf(Exit[p]) \subseteq TypesOf(Pred[b])
        <3>1. p \in Blocks /\ Covers(Pred[b], Exit[p])
            BY <1>1 DEF predecessors, Solved
        <3>2. Pred[b] \in States /\ Exit[p] \in States
            BY <1>1, <3>1
        <3>. QED  BY <3>1, <3>2, CoversTypes
    <2>. QED  BY <1>3, <2>1 DEF Entry
<1>. QED  BY <1>2, <1>3

\* The types of the ends of the blocks stay, and those the blocks are entered with.
LEMMA EntryStable ==
    ASSUME fn' = fn, Exit' = Exit
    PROVE  \A b : Entry(b)' = Entry(b)
<1>1. \A b : predecessors(b)' = predecessors(b)
    BY TypesStable
<1>. QED  BY <1>1 DEF Entry, TypesOf, isValid, isUnknown, getSEWLMULRatio, VType

LEMMA DoneNext ==
    ASSUME fn' = fn, Exit' = Exit, NEW b, Code'[b] \in Seq(PlacedItems),
           Leads(Code'[b], Entry(b), TypesOf(Exit[b]))
    PROVE  Done(b)'
<1>1. PlacedItems' = PlacedItems /\ Entry(b)' = Entry(b)
      /\ \A code, X, Y : Leads(code, X, Y)' <=> Leads(code, X, Y)
    BY LeadsStable, EntryStable
<1>. QED  BY <1>1 DEF Done

\* The load immediates go, or none does.
LEMMA Thins ==
    ASSUME NEW old, NEW new \in [Blocks -> Seq(Item)], NEW W,
           W = new \/ W = withoutDeadImmediates(old, new)
    PROVE  W \in [Blocks -> Seq(Item)] /\ \A b \in Blocks : Thinned(new[b], W[b])
<1>1. CASE W = new
    <2>1. \A b \in Blocks : new[b] \in Seq(Item)
        OBVIOUS
    <2>2. \A c \in Seq(Item) : Thinned(c, c)
        BY DEF Thinned
    <2>. QED  BY <1>1, <2>1, <2>2
<1>2. CASE W = withoutDeadImmediates(old, new)
    <2>1. W = [b \in Blocks |-> W[b]] /\ \A b \in Blocks : Thinned(new[b], W[b])
        BY <1>2, WithoutThinned
    <2>2. ASSUME NEW b \in Blocks PROVE W[b] \in Seq(Item)
        <3>1. new[b] \in Seq(Item) /\ W[b] \in [1..Len(new[b]) -> Item]
            BY <2>1 DEF Thinned
        <3>. QED  BY <3>1
    <2>. QED  BY <2>1, <2>2
<1>. QED  BY <1>1, <1>2

\* What is emitted for block blk leads from what it is entered with to what is
\* known at its end.
LEMMA CodeEmit ==
    ASSUME FlowInv, CodeInv, EmitVSETVLIs
    PROVE  CodeInv'
<1> DEFINE New == [Code EXCEPT ![blk] = emitted(blk)]
<1>1. /\ WellFormed(fn) /\ phase = "emit" /\ blk \in Blocks /\ NextBlock("emit", "coalesce")
      /\ UNCHANGED <<fn, Pred, Exit>>
      /\ Pred \in [Blocks -> States] /\ Exit \in [Blocks -> States]
      /\ Code \in [Blocks -> Seq(Item)]
      /\ Code' = New \/ Code' = withoutDeadImmediates(Code, New)
    BY FlowFunction DEF EmitVSETVLIs, FlowInv, FlowType, CodeInv
<1>2. /\ Blocks' = Blocks /\ FreshItems' = FreshItems
      /\ Len(fn.code) \in Nat /\ Blocks = 1..Len(fn.code)
    BY <1>1, LeadsStable, BlocksType DEF Blocks
<1>3. \A b \in Blocks : IF b >= blk THEN Code[b] \in Seq(FreshItems) /\ Agree(b) ELSE Done(b)
    BY <1>1 DEF CodeInv
<1>4. /\ emitted(blk) \in Seq(PlacedItems)
      /\ Leads(emitted(blk), Entry(blk), TypesOf(Exit[blk]))
    <2>1. Code[blk] \in Seq(FreshItems) /\ Agree(blk) /\ Pred[blk] \in States
        BY <1>1, <1>2, <1>3
    <2>2. Entry(blk) \subseteq TypesOf(Pred[blk])
        BY <1>1, EntryKnown DEF FlowDone
    <2>3. /\ emitted(blk) \in Seq(PlacedItems)
          /\ Leads(emitted(blk), Entry(blk), TypesOf(computeVLVTYPEChanges(Code[blk], Pred[blk])))
        BY <1>1, <2>1, <2>2, EmittedLeads
    <2>. QED  BY <2>1, <2>3, LeadsWithin DEF Agree
<1>5. New[blk] = emitted(blk) /\ \A b \in Blocks \ {blk} : New[b] = Code[b]
    BY <1>1
<1>6. New \in [Blocks -> Seq(Item)]
    <2>1. emitted(blk) \in Seq(Item)
        BY <1>4, ItemSets
    <2>. QED  BY <1>1, <2>1
<1> HIDE DEF New
<1>7. Code' \in [Blocks -> Seq(Item)] /\ \A b \in Blocks : Thinned(New[b], Code'[b])
    BY <1>1, <1>6, Thins
<1>8. ASSUME NEW b \in Blocks, b <= blk PROVE Done(b)'
    <2>1. New[b] \in Seq(PlacedItems) /\ Leads(New[b], Entry(b), TypesOf(Exit[b]))
        <3>1. CASE b = blk
            BY <1>4, <1>5, <3>1
        <3>2. CASE b # blk
            <4>1. Done(b)
                BY <1>2, <1>1, <1>3, <1>8, <3>2
            <4>. QED  BY <1>5, <3>2, <4>1 DEF Done
        <3>. QED  BY <3>1, <3>2
    <2>2. Code'[b] \in Seq(PlacedItems) /\ Leads(Code'[b], Entry(b), TypesOf(Exit[b]))
        BY <1>1, <1>7, <2>1, ThinnedPlaced
    <2>. QED  BY <1>1, <2>2, DoneNext
<1>9. ASSUME NEW b \in Blocks, b > blk PROVE Code'[b] \in Seq(FreshItems) /\ Agree(b)'
    <2>1. New[b] = Code[b] /\ Code[b] \in Seq(FreshItems) /\ Agree(b)
        BY <1>2, <1>1, <1>3, <1>5, <1>9
    <2>2. /\ Code'[b] \in Seq(FreshItems)
          /\ computeVLVTYPEChanges(Code'[b], Pred[b]) = computeVLVTYPEChanges(Code[b], Pred[b])
        BY <1>1, <1>7, <2>1, ThinnedFresh
    <2>3. computeVLVTYPEChanges(Code[b], Pred[b])' = computeVLVTYPEChanges(Code'[b], Pred'[b])
        BY <1>1, ChangesStable
    <2>. QED  BY <1>1, <2>1, <2>2, <2>3 DEF Agree
<1>10. CASE blk = Len(fn.code)
    <2>1. phase' = "coalesce" /\ \A b \in Blocks : b <= blk
        BY <1>1, <1>2, <1>10 DEF NextBlock
    <2>2. \A b \in Blocks : Done(b)'
        BY <1>8, <2>1
    <2>. QED  BY <1>2, <1>7, <2>1, <2>2 DEF CodeInv
<1>11. CASE blk # Len(fn.code)
    <2>1. phase' = "emit" /\ blk' = blk + 1
        BY <1>1, <1>11 DEF NextBlock
    <2>2. \A b \in Blocks : IF b >= blk' THEN Code'[b] \in Seq(FreshItems) /\ Agree(b)'
                            ELSE Done(b)'
        <3>1. \A b \in Blocks : IF b >= blk' THEN b > blk ELSE b <= blk
            BY <1>1, <1>2, <2>1
        <3>. QED  BY <1>8, <1>9, <3>1
    <2>. QED  BY <1>2, <1>7, <2>1, <2>2 DEF CodeInv
<1>. QED  BY <1>10, <1>11

\* And what is left of it after coalescing.
LEMMA CodeCoalesce ==
    ASSUME FlowInv, CodeInv, CoalesceVSETVLIs
    PROVE  CodeInv'
<1> DEFINE New == [Code EXCEPT ![blk] = coalesced(blk)]
<1>1. /\ WellFormed(fn) /\ phase = "coalesce" /\ blk \in Blocks /\ NextBlock("coalesce", "run")
      /\ UNCHANGED <<fn, Pred, Exit>> /\ Code \in [Blocks -> Seq(Item)]
      /\ Code' = withoutDeadImmediates(Code, New)
      /\ \A b \in Blocks : Done(b)
    BY FlowFunction DEF CoalesceVSETVLIs, FlowInv, FlowType, CodeInv
<1>2. /\ Blocks' = Blocks /\ FreshItems' = FreshItems
    BY <1>1, LeadsStable, TypesStable
<1>3. /\ coalesced(blk) \in Seq(PlacedItems)
      /\ Leads(coalesced(blk), Entry(blk), TypesOf(Exit[blk]))
    BY <1>1, CoalescedLeads DEF Done
<1>4. New[blk] = coalesced(blk) /\ \A b \in Blocks \ {blk} : New[b] = Code[b]
    BY <1>1
<1>5. New \in [Blocks -> Seq(Item)]
    <2>1. coalesced(blk) \in Seq(Item)
        BY <1>3, ItemSets
    <2>. QED  BY <1>1, <2>1
<1> HIDE DEF New
<1>6. Code' \in [Blocks -> Seq(Item)] /\ \A b \in Blocks : Thinned(New[b], Code'[b])
    BY <1>1, <1>5, Thins
<1>7. ASSUME NEW b \in Blocks PROVE Done(b)'
    <2>1. New[b] \in Seq(PlacedItems) /\ Leads(New[b], Entry(b), TypesOf(Exit[b]))
        BY <1>1, <1>3, <1>4 DEF Done
    <2>2. Code'[b] \in Seq(PlacedItems) /\ Leads(Code'[b], Entry(b), TypesOf(Exit[b]))
        BY <1>1, <1>6, <2>1, ThinnedPlaced
    <2>. QED  BY <1>1, <2>2, DoneNext
<1>8. phase' = "coalesce" \/ (phase' = "run" /\ isValid(Pred'[1]))
    <2>1. Solved(1)
        BY <1>1, BlocksType DEF FlowInv, FlowDone
    <2>. QED  BY <1>1, <2>1 DEF NextBlock, Solved, isUnknown, isValid
<1>. QED  BY <1>2, <1>6, <1>7, <1>8 DEF CodeInv

\* The hart leaves the code and what is known of it as they are.
LEMMA CodeLater ==
    ASSUME FlowInv, CodeInv, UNCHANGED <<fn, Code, Pred, Exit>>,
           \/ phase' = phase /\ blk' = blk
           \/ phase \in {"run", "ended"} /\ phase' \in {"run", "ended"}
    PROVE  CodeInv'
<1>1. Blocks' = Blocks /\ FreshItems' = FreshItems
    BY LeadsStable, TypesStable
<1>2. \A b : Agree(b) => Agree(b)'
    BY ChangesStable DEF Agree
<1>3. \A b : Done(b) => Done(b)'
    BY DoneNext DEF Done
<1>4. HadVectorOp' = HadVectorOp
    BY <1>1 DEF HadVectorOp, isVectorConfigInstr, hasSEWOp
<1>. QED  BY <1>1, <1>2, <1>3, <1>4 DEF CodeInv

LEMMA CodeNext ==
    ASSUME FlowInv, FlowInv', CodeInv, [Next]_vars
    PROVE  CodeInv'
<1>1. CASE CollectBlocks \/ ComputeIncomingVLVTYPE \/ StartPRE
    BY <1>1, CodeFlow
<1>2. CASE DoPRE
    BY <1>2, CodePRE
<1>3. CASE EmitVSETVLIs
    BY <1>3, CodeEmit
<1>4. CASE CoalesceVSETVLIs
    BY <1>4, CodeCoalesce
<1>5. CASE StartHart \/ Execute \/ Branch
    <2>1. /\ UNCHANGED <<fn, Code, Pred, Exit>>
          /\ phase \in {"run", "ended"} /\ phase' \in {"run", "ended"}
        BY <1>5 DEF StartHart, Execute, Branch, InBlock, passVars
    <2>. QED  BY <2>1, CodeLater
<1>6. CASE UNCHANGED vars
    <2>1. UNCHANGED <<fn, Code, Pred, Exit, phase, blk>>
        BY <1>6 DEF vars, passVars
    <2>. QED  BY <2>1, CodeLater
<1>7. CASE Ended
    BY <1>6, <1>7 DEF Ended
<1>. QED  BY <1>1, <1>2, <1>3, <1>4, <1>5, <1>6, <1>7 DEF Next, Pass
-----------------------------------------------------------------------------
(* The hart that runs the code.                                             *)

\* The hart is at place k of block b, on the way that the block leads.
Underway(b, k) ==
    \E K : /\ Path(Code[b], K) /\ Entry(b) \subseteq K[1]
           /\ K[Len(Code[b]) + 1] \subseteq TypesOf(Exit[b])
           /\ vtype \in K[k] /\ (k = 1 => vtype \in Entry(b))

\* The inductive invariant of the hart.
HartInv ==
    /\ phase \notin {"run", "ended"} => pc = <<0, 0>>
    /\ vl \in Nat /\ vtype \in VType
    /\ regs \in [Registers -> Nat] /\ want \in [Registers -> Nat]
    /\ vals \in [DefinitionsOf(fn) -> Nat]
    /\ \/ pc = <<0, 0>>
       \/ \E b \in Blocks : \E k \in 1..(Len(Code[b]) + 1) :
             pc = <<b, k>> /\ (Underway(b, k) \/ ~HadVectorOp)

\* The value of an AVL is a number.
LEMMA AVLValueType ==
    ASSUME WellFormed(fn), NEW a \in AVL, a.kind # "keep", operandAVL(a) \in PlainAVL,
           NEW vt \in LegalType,
           regs \in [Registers -> Nat], vals \in [DefinitionsOf(fn) -> Nat]
    PROVE  avlValue(a, vt) \in Nat /\ (a.kind = "reg" => a.vn.reg \in Registers)
<1>1. CASE a.kind = "reg"
    <2> DEFINE o == operandAVL(a)
    <2>1. o = AVLReg(Known(a.vn))
        BY <1>1 DEF operandAVL
    <2>2. o.kind = "reg" /\ o.vn = Known(a.vn)
        BY <2>1 DEF AVLReg
    <2>3. o.vn.reg \in Registers /\ (fn.LIS => <<o.vn.reg, o.vn.def>> \in DefinitionsOf(fn))
        BY <2>2 DEF PlainAVL, Canonical
    <2>4. a.vn \in Value
        BY DEF AVL
    <2>5. Known(a.vn).reg = a.vn.reg /\ (fn.LIS => Known(a.vn) = a.vn)
        BY <2>4 DEF Known, Value
    <2>6. a.vn.reg \in Registers /\ (fn.LIS => <<a.vn.reg, a.vn.def>> \in DefinitionsOf(fn))
        BY <2>2, <2>3, <2>5
    <2>. QED  BY <1>1, <2>6 DEF avlValue
<1>2. CASE a.kind = "imm"
    BY <1>2 DEF avlValue, AVL
<1>3. CASE a.kind = "vlmax"
    BY <1>3, VLMAXNat DEF avlValue
<1>4. CASE a.kind \in {"undef", "none"}
    BY <1>4 DEF avlValue
<1>. QED  BY <1>1, <1>2, <1>3, <1>4 DEF AVL

\* So is the VL it gives.
LEMMA VLType ==
    ASSUME WellFormed(fn), NEW n \in Nat, NEW vt \in LegalType
    PROVE  vlOf(n, vt) \in Nat
BY VLMAXNat DEF vlOf

LEMMA WantedType ==
    ASSUME WellFormed(fn), NEW I, Plain(I),
           regs \in [Registers -> Nat], vals \in [DefinitionsOf(fn) -> Nat],
           want \in [Registers -> Nat]
    PROVE  wantedVL(I) \in Nat
<1>1. /\ I.avl \in AVL /\ I.avl.kind # "keep" /\ operandAVL(I.avl) \in PlainAVL
      /\ I.vt \in LegalType
    BY DEF Plain, Instruction
<1>2. avlValue(I.avl, I.vt) \in Nat /\ (I.avl.kind = "reg" => I.avl.vn.reg \in Registers)
    BY <1>1, AVLValueType
<1> DEFINE n == IF I.avl.kind = "reg" THEN want[I.avl.vn.reg] ELSE avlValue(I.avl, I.vt)
<1>3. n \in Nat
    BY <1>2
<1> HIDE DEF n
<1>4. vlOf(n, I.vt) \in Nat
    BY <1>1, <1>3, VLType
<1>. QED  BY <1>4 DEF wantedVL, n

\* A definition is a register with a place.
LEMMA DefinitionPair ==
    ASSUME NEW f, NEW d \in DefinitionsOf(f)
    PROVE  d = <<d[1], d[2]>>
<1> DEFINE D == {q \in Places(f.code) : defines(f.code[q[1]][q[2]])}
           R == {<<f.code[p[1]][p[2]].dst.reg, p>> : p \in D}
           J == {<<r, <<b, 0>>>> : r \in Registers, b \in 2..Len(f.code)}
<1>1. DefinitionsOf(f) = R \cup J
    BY DEF DefinitionsOf
<1>2. ASSUME d \in R PROVE d = <<d[1], d[2]>>
    <2> HIDE DEF D
    <2>1. PICK p \in D : d = <<f.code[p[1]][p[2]].dst.reg, p>>
        BY <1>2
    <2>. QED  BY <2>1
<1>3. ASSUME d \in J PROVE d = <<d[1], d[2]>>
    <2>1. PICK r \in Registers, b \in 2..Len(f.code) : d = <<r, <<b, 0>>>>
        BY <1>3
    <2>. QED  BY <2>1
<1> HIDE DEF R, J
<1>. QED  BY <1>1, <1>2, <1>3

\* Entering a block gives the joins their values.
LEMMA EnterType ==
    ASSUME WellFormed(fn), regs \in [Registers -> Nat], vals \in [DefinitionsOf(fn) -> Nat],
           NEW b, EnterBlock(b)
    PROVE  vals' \in [DefinitionsOf(fn) -> Nat] /\ pc' = <<b, 1>>
<1>1. ASSUME NEW d \in DefinitionsOf(fn)
      PROVE  (IF d[2] = <<b, 0>> THEN regs[d[1]] ELSE vals[d]) \in Nat
    <2>1. d = <<d[1], d[2]>>
        BY DefinitionPair
    <2>2. d[1] \in Registers
        BY <2>1, DefinedRegister
    <2>. QED  BY <2>2
<1>. QED  BY <1>1 DEF EnterBlock

\* A block the pass is done with is under way where it is entered.
LEMMA EnterUnderway ==
    ASSUME NEW b, Code[b] \in Seq(Item), Done(b), vtype \in Entry(b)
    PROVE  Underway(b, 1)
BY DEF Done, Leads, Underway

\* A step of the hart that leaves the code as it is leaves the ways it leads.
LEMMA WaysStable ==
    ASSUME fn' = fn, Code' = Code, Exit' = Exit
    PROVE  /\ Blocks' = Blocks /\ HadVectorOp' = HadVectorOp
           /\ DefinitionsOf(fn)' = DefinitionsOf(fn)
           /\ \A b : (Done(b)' <=> Done(b)) /\ Entry(b)' = Entry(b)
           /\ \A b : TypesOf(Exit[b])' = TypesOf(Exit[b])
           /\ \A c, K : Path(c, K)' <=> Path(c, K)
<1>1. Blocks' = Blocks
    BY TypesStable
<1>2. HadVectorOp' = HadVectorOp
    BY <1>1 DEF HadVectorOp, isVectorConfigInstr, hasSEWOp
<1>3. \A b : Entry(b)' = Entry(b)
    BY EntryStable
<1>4. \A b : TypesOf(Exit[b])' = TypesOf(Exit[b])
    BY DEF TypesOf, isValid, isUnknown, getSEWLMULRatio, VType
<1>5. \A x, X, Y : Passes(x, X, Y)' <=> Passes(x, X, Y)
    BY LeadsStable
<1>6. \A c, K : Path(c, K)' <=> Path(c, K)
    BY <1>5 DEF Path
<1>7. \A b : Done(b)' <=> Done(b)
    BY <1>3, <1>4, LeadsStable DEF Done
<1>8. DefinitionsOf(fn)' = DefinitionsOf(fn)
    BY DEF DefinitionsOf, Places, defines
<1>. QED  BY <1>1, <1>2, <1>3, <1>4, <1>6, <1>7, <1>8

LEMMA HartInit ==
    ASSUME Init
    PROVE  HartInv
<1>1. NoVType \in VType
    BY DEF NoVType, VType
<1>. QED  BY <1>1 DEF Init, HartInv

\* The pass leaves the hart as it is.
LEMMA HartPass ==
    ASSUME HartInv, UNCHANGED <<fn, hartVars>>, phase \notin {"run", "ended"}
    PROVE  HartInv'
<1>1. DefinitionsOf(fn)' = DefinitionsOf(fn)
    BY DEF DefinitionsOf, Places, defines
<1>2. UNCHANGED <<pc, vl, vtype, regs, vals, want>> /\ pc = <<0, 0>>
    BY DEF hartVars, HartInv
<1>3. VType' = VType
    BY DEF VType
<1>. QED  BY <1>1, <1>2, <1>3 DEF HartInv

\* The caller leaves any type.
LEMMA HartStart ==
    ASSUME FlowInv, CodeInv, HartInv, StartHart
    PROVE  HartInv'
<1>1. /\ WellFormed(fn) /\ phase = "run" /\ phase' = "run" /\ EnterBlock(1)
      /\ UNCHANGED <<fn, Code, Exit, regs, want>>
      /\ \E s \in Foreign : vl' = s.vl /\ vtype' = s.vt
    BY FlowFunction DEF StartHart, FlowInv, passVars
<1>2. vl' \in Nat /\ vtype' \in VType
    BY <1>1, ForeignAssumption
<1>3. /\ regs \in [Registers -> Nat] /\ want \in [Registers -> Nat]
      /\ vals \in [DefinitionsOf(fn) -> Nat]
    BY DEF HartInv
<1>4. vals' \in [DefinitionsOf(fn) -> Nat] /\ pc' = <<1, 1>>
    BY <1>1, <1>3, EnterType
<1>5. Code[1] \in Seq(Item) /\ 1 \in Blocks
    BY <1>1, BlocksType DEF CodeInv
<1>6. Underway(1, 1)' \/ ~HadVectorOp'
    <2>1. CASE ~HadVectorOp
        BY <1>1, <2>1, WaysStable
    <2>2. CASE HadVectorOp
        <3>1. Done(1)
            BY <1>1, <1>5, <2>2 DEF CodeInv
        <3>2. PICK K : /\ Path(Code[1], K) /\ Entry(1) \subseteq K[1]
                       /\ K[Len(Code[1]) + 1] \subseteq TypesOf(Exit[1])
            BY <3>1 DEF Done, Leads
        <3>3. Entry(1) = VType
            BY DEF Entry
        <3>4. vtype' \in K[1] /\ vtype' \in Entry(1)
            BY <1>2, <3>2, <3>3
        <3>. QED  BY <1>1, <3>2, <3>4, WaysStable DEF Underway
    <2>. QED  BY <2>1, <2>2
<1>7. 1 \in 1..(Len(Code'[1]) + 1)
    BY <1>1, <1>5
<1>8. \E b \in Blocks' : \E k \in 1..(Len(Code'[b]) + 1) :
         pc' = <<b, k>> /\ (Underway(b, k)' \/ ~HadVectorOp')
    <2>1. Blocks' = Blocks
        BY <1>1, WaysStable
    <2>. QED  BY <1>4, <1>5, <1>6, <1>7, <2>1
<1>9. VType' = VType /\ DefinitionsOf(fn)' = DefinitionsOf(fn)
    BY <1>1, WaysStable DEF VType
<1>. QED  BY <1>1, <1>2, <1>3, <1>4, <1>8, <1>9 DEF HartInv

\* The hart leaves a block with a type that is known at the end of it.
LEMMA HartBranch ==
    ASSUME FlowInv, CodeInv, HartInv, Branch
    PROVE  HartInv'
<1>1. /\ WellFormed(fn) /\ phase = "run" /\ phase' \in {"run", "ended"} /\ pc[1] > 0
      /\ UNCHANGED <<fn, Code, Exit, regs, want, vl, vtype>>
      /\ pc[2] > Len(Code[pc[1]])
      /\ \/ UNCHANGED <<pc, vals>>
         \/ \E c \in fn.succ[pc[1]] : EnterBlock(c)
    BY FlowFunction DEF Branch, FlowInv, passVars
<1>2. /\ regs \in [Registers -> Nat] /\ want \in [Registers -> Nat]
      /\ vals \in [DefinitionsOf(fn) -> Nat]
    BY DEF HartInv
<1>3. PICK b \in Blocks : \E k \in 1..(Len(Code[b]) + 1) :
         pc = <<b, k>> /\ (Underway(b, k) \/ ~HadVectorOp)
    BY <1>1 DEF HartInv
<1>4. PICK k \in 1..(Len(Code[b]) + 1) : pc = <<b, k>> /\ (Underway(b, k) \/ ~HadVectorOp)
    BY <1>3
<1>5. pc[1] = b /\ pc[2] = k /\ Code[b] \in Seq(Item)
    BY <1>4 DEF CodeInv
<1>6. k = Len(Code[b]) + 1
    <2>1. Len(Code[b]) \in Nat /\ k > Len(Code[b])
        BY <1>1, <1>5
    <2>. QED  BY <2>1
<1>7. VType' = VType /\ DefinitionsOf(fn)' = DefinitionsOf(fn) /\ Blocks' = Blocks
      /\ HadVectorOp' = HadVectorOp
    BY <1>1, WaysStable DEF VType
<1>8. ASSUME vals' \in [DefinitionsOf(fn) -> Nat], NEW c \in Blocks,
             NEW i \in 1..(Len(Code[c]) + 1), pc' = <<c, i>>, Underway(c, i)' \/ ~HadVectorOp'
      PROVE  HartInv'
    <2>1. \E d \in Blocks' : \E j \in 1..(Len(Code'[d]) + 1) :
             pc' = <<d, j>> /\ (Underway(d, j)' \/ ~HadVectorOp')
        BY <1>1, <1>7, <1>8
    <2>2. vl' \in Nat /\ vtype' \in VType
        BY <1>1 DEF HartInv
    <2>. QED  BY <1>1, <1>2, <1>7, <1>8, <2>1, <2>2 DEF HartInv
<1>9. CASE UNCHANGED <<pc, vals>>
    <2>1. Underway(b, k) => Underway(b, k)'
        BY <1>1, WaysStable DEF Underway
    <2>. QED  BY <1>2, <1>4, <1>7, <1>8, <1>9, <2>1
<1>10. CASE \E c \in fn.succ[b] : EnterBlock(c)
    <2>1. PICK c \in fn.succ[b] : EnterBlock(c)
        BY <1>10
    <2>2. c \in Blocks /\ c # 1 /\ b \in predecessors(c)
        <3>1. fn.succ[b] \in SUBSET (2..Len(fn.code)) /\ Len(fn.code) \in Nat
            BY <1>1, FunctionType
        <3>. QED  BY <2>1, <3>1 DEF predecessors, Blocks
    <2>3. vals' \in [DefinitionsOf(fn) -> Nat] /\ pc' = <<c, 1>>
        BY <1>1, <1>2, <2>1, EnterType
    <2>4. Code[c] \in Seq(Item) /\ 1 \in 1..(Len(Code[c]) + 1)
        <3>1. Code[c] \in Seq(Item)
            BY <2>2 DEF CodeInv
        <3>2. Len(Code[c]) \in Nat
            BY <3>1
        <3>. QED  BY <3>1, <3>2
    <2>5. Underway(c, 1)' \/ ~HadVectorOp'
        <3>1. CASE ~HadVectorOp
            BY <1>7, <3>1
        <3>2. CASE HadVectorOp
            <4>1. Done(c)
                BY <1>1, <2>2, <3>2 DEF CodeInv
            <4>2. PICK K : /\ Path(Code[c], K) /\ Entry(c) \subseteq K[1]
                           /\ K[Len(Code[c]) + 1] \subseteq TypesOf(Exit[c])
                BY <4>1 DEF Done, Leads
            <4>3. vtype \in TypesOf(Exit[b])
                <5>1. Underway(b, k)
                    BY <1>4, <3>2
                <5>. QED  BY <1>6, <5>1 DEF Underway
            <4>4. vtype \in Entry(c)
                BY <2>2, <4>3 DEF Entry, TypesOf
            <4>5. vtype \in K[1]
                BY <4>2, <4>4
            <4>. QED  BY <1>1, <4>2, <4>4, <4>5, WaysStable DEF Underway
        <3>. QED  BY <3>1, <3>2
    <2>. QED  BY <1>8, <2>2, <2>3, <2>4, <2>5
<1>. QED  BY <1>1, <1>5, <1>9, <1>10

\* What the hart finds where it is in a block.
LEMMA Found ==
    ASSUME FlowInv, CodeInv, HartInv, InBlock
    PROVE  /\ pc[1] \in Blocks /\ pc[2] \in 1..Len(Code[pc[1]]) /\ pc = <<pc[1], pc[2]>>
           /\ Code[pc[1]] \in Seq(Item) /\ At \in Item /\ Plain(At.was)
           /\ At \in PlacedItems \/ ~HadVectorOp
           /\ Underway(pc[1], pc[2]) \/ ~HadVectorOp
           /\ isVectorConfigInstr(At.now) \/ hasSEWOp(At.was) => HadVectorOp
<1>1. phase = "run" /\ pc[1] > 0 /\ pc[2] <= Len(Code[pc[1]])
    BY DEF InBlock
<1>2. PICK b \in Blocks : \E k \in 1..(Len(Code[b]) + 1) :
         pc = <<b, k>> /\ (Underway(b, k) \/ ~HadVectorOp)
    BY <1>1 DEF HartInv
<1>3. PICK k \in 1..(Len(Code[b]) + 1) : pc = <<b, k>> /\ (Underway(b, k) \/ ~HadVectorOp)
    BY <1>2
<1>4. pc[1] = b /\ pc[2] = k /\ Code[b] \in Seq(Item)
    BY <1>3 DEF CodeInv
<1>5. Len(Code[b]) \in Nat /\ k \in 1..Len(Code[b]) /\ At = Code[b][k] /\ At \in Item
    BY <1>1, <1>4 DEF At
<1>6. At \in PlacedItems \/ (~HadVectorOp /\ At \in FreshItems)
    <2>1. ASSUME \A c \in Blocks : Done(c) PROVE Code[b][k] \in PlacedItems
        <3>1. Code[b] \in Seq(PlacedItems)
            BY <2>1 DEF Done
        <3>. QED  BY <1>5, <3>1
    <2>2. ASSUME \A c \in Blocks : Code[c] \in Seq(FreshItems)
          PROVE  Code[b][k] \in FreshItems
        BY <1>5, <2>2
    <2>. QED  BY <1>1, <1>5, <2>1, <2>2 DEF CodeInv
<1>7. Plain(At.was)
    BY <1>6 DEF PlacedItems, FreshItems
<1>8. isVectorConfigInstr(At.now) \/ hasSEWOp(At.now) => HadVectorOp
    BY <1>5 DEF HadVectorOp
<1>9. ASSUME hasSEWOp(At.was) PROVE hasSEWOp(At.now)
    <2>1. At.now = At.was \/ At.now = [At.was EXCEPT !.avl = NoAVL]
        BY <1>6, <1>9 DEF PlacedItems, FreshItems
    <2>2. At.now.kind = At.was.kind
        BY <1>5, <2>1 DEF Item, Instruction
    <2>. QED  BY <1>9, <2>2 DEF hasSEWOp
<1>. QED  BY <1>3, <1>4, <1>5, <1>6, <1>7, <1>8, <1>9

\* An instruction leads to what is known after it.
LEMMA HartExecute ==
    ASSUME FlowInv, CodeInv, HartInv, Execute
    PROVE  HartInv'
<1> DEFINE I == At.now
           J == At.was
           keeps == I.kind = "vset" /\ I.avl.kind = "keep"
<1>1. /\ WellFormed(fn) /\ InBlock /\ phase = "run" /\ phase' = "run"
      /\ UNCHANGED <<fn, Code, Exit>> /\ pc' = <<pc[1], pc[2] + 1>>
      /\ vl \in Nat /\ vtype \in VType
      /\ regs \in [Registers -> Nat] /\ want \in [Registers -> Nat]
      /\ vals \in [DefinitionsOf(fn) -> Nat]
    BY FlowFunction DEF Execute, InBlock, FlowInv, HartInv, passVars
<1>2. /\ pc[1] \in Blocks /\ pc[2] \in 1..Len(Code[pc[1]]) /\ Code[pc[1]] \in Seq(Item)
      /\ I \in Instruction /\ J \in Instruction /\ Plain(J)
      /\ At \in PlacedItems \/ ~HadVectorOp
      /\ Underway(pc[1], pc[2]) \/ ~HadVectorOp
      /\ isVectorConfigInstr(I) => HadVectorOp
    BY <1>1, Found DEF Item
<1>3. PICK v \in CASE J.kind = "def" -> Inputs
                   [] I.kind = "ff" -> IF vl = 0 THEN {0} ELSE {1, vl}
                   [] OTHER -> {0},
           s \in IF I.kind = "call" THEN Foreign ELSE {[vl |-> vl, vt |-> vtype]} :
         LET newVL == CASE I.kind = "vset" /\ ~keeps -> vlOf(avlValue(I.avl, I.vt), I.vt)
                        [] I.kind = "ff" -> v
                        [] OTHER -> s.vl
             gives(X, vset) == CASE X.kind = "vset" -> vset [] X.kind = "li" -> X.n [] OTHER -> v
             d == I.dst
         IN  /\ vl' = newVL
             /\ vtype' = IF I.kind = "vset" THEN I.vt ELSE s.vt
             /\ regs' = IF defines(I) THEN [regs EXCEPT ![d.reg] = gives(I, newVL)] ELSE regs
             /\ vals' = IF defines(I) THEN [vals EXCEPT ![<<d.reg, d.def>>] = gives(I, newVL)]
                        ELSE vals
             /\ want' = IF defines(J)
                        THEN [want EXCEPT ![J.dst.reg] = gives(J, wantedVL(J))]
                        ELSE want
    BY DEF Execute
<1> DEFINE newVL == CASE I.kind = "vset" /\ ~keeps -> vlOf(avlValue(I.avl, I.vt), I.vt)
                      [] I.kind = "ff" -> v
                      [] OTHER -> s.vl
           gives(X, vset) == CASE X.kind = "vset" -> vset [] X.kind = "li" -> X.n [] OTHER -> v
<1>4. v \in Nat
    BY <1>1, <1>3, InputsAssumption
<1>5. /\ s.vl \in Nat /\ s.vt \in VType
      /\ I.kind # "call" => s.vl = vl /\ s.vt = vtype
    BY <1>1, <1>3, ForeignAssumption
<1>6. ASSUME I.kind = "vset" /\ ~keeps PROVE vlOf(avlValue(I.avl, I.vt), I.vt) \in Nat
    <2>1. At \in PlacedItems
        BY <1>2, <1>6 DEF isVectorConfigInstr
    <2>2. /\ I.avl \in AVL /\ I.avl.kind # "keep" /\ operandAVL(I.avl) \in PlainAVL
          /\ I.vt \in LegalType
        BY <1>2, <1>6, <2>1 DEF PlacedItems, Instruction
    <2>3. avlValue(I.avl, I.vt) \in Nat
        BY <1>1, <2>2, AVLValueType
    <2>. QED  BY <1>1, <2>2, <2>3, VLType
<1>7. newVL \in Nat
    BY <1>4, <1>5, <1>6
<1>8. wantedVL(J) \in Nat
    BY <1>1, <1>2, WantedType
<1>9. \A X \in Instruction, n \in Nat : gives(X, n) \in Nat
    BY <1>4 DEF Instruction
<1>10. /\ vl' = newVL /\ vtype' = IF I.kind = "vset" THEN I.vt ELSE s.vt
       /\ regs' = IF defines(I) THEN [regs EXCEPT ![I.dst.reg] = gives(I, newVL)] ELSE regs
       /\ vals' = IF defines(I) THEN [vals EXCEPT ![<<I.dst.reg, I.dst.def>>] = gives(I, newVL)]
                  ELSE vals
       /\ want' = IF defines(J) THEN [want EXCEPT ![J.dst.reg] = gives(J, wantedVL(J))]
                  ELSE want
    BY <1>3
<1> HIDE DEF newVL, gives
<1>11. gives(I, newVL) \in Nat /\ gives(J, wantedVL(J)) \in Nat
    BY <1>2, <1>7, <1>8, <1>9
<1>12. /\ regs' \in [Registers -> Nat] /\ want' \in [Registers -> Nat]
       /\ vals' \in [DefinitionsOf(fn) -> Nat]
    BY <1>1, <1>10, <1>11
<1>13. vl' \in Nat /\ vtype' \in VType
    BY <1>2, <1>5, <1>7, <1>10 DEF Instruction
<1>14. VType' = VType /\ DefinitionsOf(fn)' = DefinitionsOf(fn) /\ Blocks' = Blocks
       /\ HadVectorOp' = HadVectorOp
    BY <1>1, WaysStable DEF VType
<1>15. PICK b \in Blocks : b = pc[1]
    BY <1>2
<1>16. PICK k \in 1..Len(Code[b]) : k = pc[2]
    BY <1>2, <1>15
<1>17. Len(Code[b]) \in Nat /\ k + 1 \in 1..(Len(Code[b]) + 1) /\ k \in Nat /\ k + 1 # 1
       /\ At = Code[b][k] /\ pc' = <<b, k + 1>>
    <2>1. Len(Code[b]) \in Nat
        BY <1>2, <1>15
    <2>. QED  BY <1>1, <1>15, <1>16, <2>1 DEF At
<1>18. Underway(b, k + 1)' \/ ~HadVectorOp'
    <2>1. CASE ~HadVectorOp
        BY <1>14, <2>1
    <2>2. CASE HadVectorOp
        <3>1. PICK K : /\ Path(Code[b], K) /\ Entry(b) \subseteq K[1]
                       /\ K[Len(Code[b]) + 1] \subseteq TypesOf(Exit[b])
                       /\ vtype \in K[k]
            BY <1>2, <1>15, <1>16, <2>2 DEF Underway
        <3>2. Passes(At, K[k], K[k + 1])
            BY <1>17, <3>1 DEF Path
        <3>3. vtype' \in K[k + 1]
            <4>1. CASE I.kind = "vset"
                BY <1>10, <3>2, <4>1 DEF Passes
            <4>2. CASE I.kind = "call"
                BY <1>5, <1>10, <3>2, <4>2 DEF Passes
            <4>3. CASE I.kind \notin {"vset", "call"}
                BY <1>5, <1>10, <3>1, <3>2, <4>3 DEF Passes
            <4>. QED  BY <4>1, <4>2, <4>3
        <3>. QED  BY <1>1, <1>17, <3>1, <3>3, WaysStable DEF Underway
    <2>. QED  BY <2>1, <2>2
<1>19. \E c \in Blocks' : \E j \in 1..(Len(Code'[c]) + 1) :
          pc' = <<c, j>> /\ (Underway(c, j)' \/ ~HadVectorOp')
    BY <1>1, <1>14, <1>17, <1>18
<1>. QED  BY <1>1, <1>12, <1>13, <1>14, <1>19 DEF HartInv

LEMMA HartNext ==
    ASSUME FlowInv, CodeInv, HartInv, [Next]_vars
    PROVE  HartInv'
<1>1. CASE CollectBlocks
    BY <1>1, HartPass DEF CollectBlocks
<1>2. CASE ComputeIncomingVLVTYPE
    BY <1>2, HartPass DEF ComputeIncomingVLVTYPE
<1>3. CASE StartPRE
    BY <1>3, HartPass DEF StartPRE
<1>4. CASE DoPRE
    BY <1>4, HartPass DEF DoPRE
<1>5. CASE EmitVSETVLIs
    BY <1>5, HartPass DEF EmitVSETVLIs
<1>6. CASE CoalesceVSETVLIs
    BY <1>6, HartPass DEF CoalesceVSETVLIs
<1>7. CASE StartHart
    BY <1>7, HartStart
<1>8. CASE Execute
    BY <1>8, HartExecute
<1>9. CASE Branch
    BY <1>9, HartBranch
<1>10. CASE UNCHANGED vars
    <2>1. UNCHANGED <<fn, Code, Exit, phase, hartVars>>
        BY <1>10 DEF vars, passVars
    <2>2. CASE phase \notin {"run", "ended"}
        BY <2>1, <2>2, HartPass
    <2>3. CASE phase \in {"run", "ended"}
        <3>1. UNCHANGED <<pc, vl, vtype, regs, vals, want>>
            BY <2>1 DEF hartVars
        <3>2. VType' = VType /\ DefinitionsOf(fn)' = DefinitionsOf(fn) /\ Blocks' = Blocks
              /\ HadVectorOp' = HadVectorOp
            BY <2>1, WaysStable DEF VType
        <3>3. \A b, k : Underway(b, k) => Underway(b, k)'
            BY <2>1, <3>1, WaysStable DEF Underway
        <3>. QED  BY <2>1, <2>3, <3>1, <3>2, <3>3 DEF HartInv
    <2>. QED  BY <2>2, <2>3
<1>11. CASE Ended
    BY <1>10, <1>11 DEF Ended
<1>. QED  BY <1>1, <1>2, <1>3, <1>4, <1>5, <1>6, <1>7, <1>8, <1>9, <1>10, <1>11 DEF Next, Pass

\* What holds of the pass and of the hart at every step.
LEMMA PassAndHart == Spec => [](FlowInv /\ CodeInv /\ HartInv)
<1>1. Init => FlowInv /\ CodeInv /\ HartInv
    BY FlowInit, CodeInit, HartInit
<1>2. FlowInv /\ CodeInv /\ HartInv /\ [Next]_vars => (FlowInv /\ CodeInv /\ HartInv)'
    BY FlowNext, CodeNext, HartNext
<1>. QED  BY <1>1, <1>2, PTL DEF Spec

\* Every vector instruction finds in VTYPE the type it asked for, or one its
\* result cannot tell from it: the vsets that insertVSETVLI puts into the code
\* and those that doPRE, needVSETVLIPHI and coalesceVSETVLIs leave out or
\* change leave it there, on every path through every function.
THEOREM TypesMeetAlways == Spec => []TypesMeet
<1>1. ASSUME FlowInv, CodeInv, HartInv, InBlock, hasSEWOp(At.was)
      PROVE  typeServes(At.was, vtype)
    <2>1. /\ Plain(At.was) /\ Underway(pc[1], pc[2]) /\ pc[2] \in 1..Len(Code[pc[1]])
        BY <1>1, Found
    <2>2. PICK K : Path(Code[pc[1]], K) /\ vtype \in K[pc[2]]
        BY <2>1 DEF Underway
    <2>3. Fits(At.was, vtype)
        BY <2>1, <2>2 DEF Path, Passes, At
    <2>4. vtype \in VType
        BY <1>1 DEF HartInv
    <2>. QED  BY <1>1, <2>1, <2>3, <2>4, FitsServes
<1>2. FlowInv /\ CodeInv /\ HartInv => TypesMeet
    BY <1>1 DEF TypesMeet
<1>. QED  BY <1>2, PassAndHart, PTL

\* The form of vset that keeps VL, which insertVSETVLI and coalesceVSETVLIs
\* make, is only executed where VLMAX stays as it is.
THEOREM KeepsVLAlways == Spec => []KeepsVL
<1>1. ASSUME FlowInv, CodeInv, HartInv, InBlock, isVLPreservingConfig(At.now)
      PROVE  getSEWLMULRatio(At.now.vt) = getSEWLMULRatio(vtype)
    <2>1. Underway(pc[1], pc[2]) /\ pc[2] \in 1..Len(Code[pc[1]])
        BY <1>1, Found DEF isVLPreservingConfig, isVectorConfigInstr
    <2>2. PICK K : Path(Code[pc[1]], K) /\ vtype \in K[pc[2]]
        BY <2>1 DEF Underway
    <2>. QED  BY <1>1, <2>1, <2>2 DEF Path, Passes, At, isVLPreservingConfig
<1>2. FlowInv /\ CodeInv /\ HartInv => KeepsVL
    BY <1>1 DEF KeepsVL
<1>. QED  BY <1>2, PassAndHart, PTL

\* What computeIncomingVLVTYPE says of VTYPE at the start of a block, which
\* emitVSETVLIs relied on, holds whenever the hart enters it.
THEOREM IncomingTypesHoldAlways == Spec => []IncomingTypesHold
<1>1. ASSUME FlowInv, CodeInv, HartInv, InBlock, pc[2] = 1, HadVectorOp
      PROVE  vtype \in TypesOf(Pred[pc[1]])
    <2>1. pc[1] \in Blocks /\ Underway(pc[1], 1)
        BY <1>1, Found
    <2>2. vtype \in Entry(pc[1])
        BY <2>1 DEF Underway
    <2>3. FlowDone
        BY <1>1 DEF InBlock, CodeInv, FlowDone
    <2>. QED  BY <1>1, <2>1, <2>2, <2>3, EntryKnown
<1>2. FlowInv /\ CodeInv /\ HartInv => IncomingTypesHold
    BY <1>1 DEF IncomingTypesHold, TypesOf, isKnown, isValid, isUnknown
<1>. QED  BY <1>2, PassAndHart, PTL

\* The types of the state of the pass and of the hart.
THEOREM TypeCorrect == Spec => []TypeOK
<1>1. ASSUME FlowInv, HartInv PROVE TypeOK
    <2>1. FlowType
        BY <1>1 DEF FlowInv
    <2>2. ASSUME NEW b \in Blocks, NEW i \in {Pred[b], Exit[b]}
          PROVE  /\ i.State \in {"Uninitialized", "Unknown", "AVL"} /\ i.vt \in VType
                 /\ i.avl \in AVL /\ (i.State = "AVL" => i.avl.kind \in {"imm", "reg", "vlmax"})
        <3>1. i \in States
            BY <2>1, <2>2 DEF FlowType
        <3>. QED  BY <3>1 DEF States, LegalType, PlainAVL
    <2>3. Queue(WorkList)
        BY <2>1 DEF FlowType
    <2>4. \A i \in 1..Len(WorkList) : WorkList[i] \in Blocks
        BY <2>3 DEF Queue
    <2>. QED  BY <1>1, <2>1, <2>2, <2>3, <2>4 DEF TypeOK, FlowType, Queue, HartInv
<1>2. FlowInv /\ CodeInv /\ HartInv => TypeOK
    BY <1>1
<1>. QED  BY <1>2, PassAndHart, PTL
=============================================================================
