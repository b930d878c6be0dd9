------------------------ MODULE SIWaitcntCoverProofs ------------------------
(***************************************************************************)
(* What the brackets of the pass know of the operations in flight when the *)
(* wave runs the code: on any path through any function their events, and, *)
(* for functions in which operations of a counter can be told apart, their *)
(* registers; and with that, that no instruction is issued too early.      *)
(*                                                                         *)
(* The pass overwrites its brackets as it goes.  The proofs keep, as a     *)
(* witness, the brackets and the wait of each place as the last visit of   *)
(* its block left them (Cert), and compare the wave with those.            *)
(***************************************************************************)
EXTENDS SIInsertWaitcntsProofs, SequenceTheorems, FiniteSetTheorems

\* Slot r has an operation on counter T that may be pending, and how many
\* operations of the counter are later.
Held(B, T, r) == InBracket(B, T, B.Score[T][r])
Distance(B, T, r) == B.UB[T] - B.Score[T][r]

\* Well-formed brackets, whose scores do not exceed the upper bounds.
Sound(B, st) ==
    BracketOK(B, st) /\ \A T \in InstCounterType, r \in Slots : B.Score[T][r] <= B.UB[T]

\* B asks for every wait that A asks for.
Covers(B, A) ==
    /\ A.PendingEvents \subseteq B.PendingEvents
    /\ \A T \in InstCounterType, r \in Slots :
          Held(A, T, r) => Held(B, T, r) /\ Distance(B, T, r) <= Distance(A, T, r)
    /\ \A v \in Vgprs : A.VmemTypes[v] \subseteq B.VmemTypes[v]

\* The two differ at most in what is known of kinds of accesses.
SameView(B, C) ==
    C.ST = B.ST /\ C.LB = B.LB /\ C.UB = B.UB /\ C.PendingEvents = B.PendingEvents
    /\ C.Score = B.Score

-----------------------------------------------------------------------------
(* The operations of the brackets, seen through scores and events. *)

LEMMA Numbers ==
    ASSUME NEW st, NEW B, BracketOK(B, st), NEW T \in InstCounterType
    PROVE  /\ B.LB[T] \in Nat /\ B.UB[T] \in Nat /\ B.LB[T] <= B.UB[T]
           /\ \A r \in Slots : B.Score[T][r] \in Nat
           /\ B.PendingEvents \subseteq WaitEventType /\ B.ST = st
BY DEF BracketOK, BracketsType

LEMMA NewView ==
    ASSUME NEW st \in Generations
    PROVE  Sound(NewBrackets(st), st) /\ NewBrackets(st).PendingEvents = {}
<1>1. BracketOK(NewBrackets(st), st)
    BY NewOK
<1>2. \A T \in InstCounterType, r \in Slots :
         NewBrackets(st).Score[T][r] <= NewBrackets(st).UB[T]
    BY DEF NewBrackets
<1>3. NewBrackets(st).PendingEvents = {}
    BY DEF NewBrackets
<1>. QED  BY <1>1, <1>2, <1>3 DEF Sound

LEMMA FlatView ==
    ASSUME NEW B \in BracketsType
    PROVE  SameView(B, setPendingFlat(B))
BY DEF SameView, setPendingFlat, BracketsType

LEMMA ClearView ==
    ASSUME NEW B \in BracketsType, NEW regs
    PROVE  SameView(B, clearVgprVmemTypes(B, regs))
BY DEF SameView, clearVgprVmemTypes, BracketsType

LEMMA DmaView ==
    ASSUME NEW B \in BracketsType, NEW obj
    PROVE  SameView(B, recordDmaStore(B, obj))
BY DEF SameView, recordDmaStore, BracketsType

LEMMA SameSound ==
    ASSUME NEW st, NEW B, Sound(B, st), NEW C, BracketOK(C, st), SameView(B, C)
    PROVE  Sound(C, st)
BY DEF Sound, SameView

\* The bounds where an event raises the upper bound of T to val.
raisedLB(B, T, val) ==
    IF T = "EXP_CNT" /\ val - B.LB[T] > WaitCountMax[T] THEN val - WaitCountMax[T] ELSE B.LB[T]

LEMMA SetScoreUBView ==
    ASSUME NEW B \in BracketsType, NEW T \in InstCounterType, NEW val
    PROVE  LET C == setScoreUB(B, T, val) IN
           /\ C.ST = B.ST /\ C.PendingEvents = B.PendingEvents /\ C.Score = B.Score
           /\ C.VmemTypes = B.VmemTypes
           /\ C.UB = [B.UB EXCEPT ![T] = val]
           /\ C.LB = [B.LB EXCEPT ![T] = raisedLB(B, T, val)]
<1> DEFINE C == setScoreUB(B, T, val)
           ub == [B.UB EXCEPT ![T] = val]
           lb == [B.LB EXCEPT ![T] = raisedLB(B, T, val)]
<1>1. B.LB \in [InstCounterType -> Nat]
    BY DEF BracketsType
<1>2. C = [B EXCEPT !.UB = ub, !.LB = lb]
    BY <1>1 DEF setScoreUB, raisedLB, BracketsType
<1> HIDE DEF C, ub, lb
<1>3. /\ C.ST = B.ST /\ C.PendingEvents = B.PendingEvents /\ C.Score = B.Score
      /\ C.VmemTypes = B.VmemTypes /\ C.UB = ub /\ C.LB = lb
    BY <1>2 DEF BracketsType
<1>. QED  BY <1>3 DEF ub, lb, C

\* C is B after an event that raises the upper bound of T to val.
Updated(B, C, E, T, val, marks, vmem) ==
    /\ C.ST = B.ST /\ C.PendingEvents = B.PendingEvents \cup {E}
    /\ C.UB = [B.UB EXCEPT ![T] = val] /\ C.LB = [B.LB EXCEPT ![T] = raisedLB(B, T, val)]
    /\ C.Score = [B.Score EXCEPT
                      ![T] = [r \in Slots |-> IF r \in marks THEN val ELSE B.Score[T][r]]]
    /\ C.VmemTypes = [x \in Vgprs |-> IF x \in marks THEN B.VmemTypes[x] \cup vmem
                                       ELSE B.VmemTypes[x]]

LEMMA UpdateParts ==
    ASSUME NEW B \in BracketsType, NEW E \in WaitEventType, NEW marks, NEW vmem
    PROVE  Updated(B, updateByEvent(B, E, marks, vmem), E, eventCounter(B.ST, E),
                   B.UB[eventCounter(B.ST, E)] + 1, marks, vmem)
<1>. SUFFICES ASSUME NEW T, T = eventCounter(B.ST, E), NEW val, val = B.UB[T] + 1
              PROVE  Updated(B, updateByEvent(B, E, marks, vmem), E, T, val, marks, vmem)
    OBVIOUS
<1> DEFINE D == setScoreUB(B, T, val)
           p == B.PendingEvents \cup {E}
           s == [B.Score EXCEPT ![T] = [r \in Slots |-> IF r \in marks THEN val ELSE B.Score[T][r]]]
           v == [x \in Vgprs |-> IF x \in marks THEN B.VmemTypes[x] \cup vmem ELSE B.VmemTypes[x]]
           C == [D EXCEPT !.PendingEvents = p, !.Score = s, !.VmemTypes = v]
<1>1. T \in InstCounterType
    BY EventCounter
<1>2. /\ D.ST = B.ST /\ D.PendingEvents = B.PendingEvents /\ D.Score = B.Score
      /\ D.VmemTypes = B.VmemTypes
      /\ D.UB = [B.UB EXCEPT ![T] = val] /\ D.LB = [B.LB EXCEPT ![T] = raisedLB(B, T, val)]
    BY <1>1, SetScoreUBView
<1>3. D \in [DOMAIN B -> UNION {{D[f]} : f \in DOMAIN B}] /\ DOMAIN D = DOMAIN B
    BY DEF setScoreUB
<1>4. DOMAIN B = {"ST", "LB", "UB", "PendingEvents", "LastFlat", "Score", "VmemTypes",
                  "LDSDMAStores"}
    BY DEF BracketsType
<1>5. updateByEvent(B, E, marks, vmem) = C
    <2> DEFINE types == [x \in Vgprs |-> IF x \in marks THEN D.VmemTypes[x] \cup vmem
                                         ELSE D.VmemTypes[x]]
               C0 == [D EXCEPT
                         !.PendingEvents = @ \cup {E},
                         !.Score[T] = [r \in Slots |-> IF r \in marks THEN val ELSE @[r]],
                         !.VmemTypes = types]
    <2>1. updateByEvent(B, E, marks, vmem) = C0
        BY DEF updateByEvent
    <2>2. C0 = C
        <3> HIDE DEF D
        <3>. QED  BY <1>1, <1>2, <1>3, <1>4
    <2>. QED  BY <2>1, <2>2
<1> HIDE DEF D
<1>6. /\ C.ST = D.ST /\ C.LB = D.LB /\ C.UB = D.UB /\ C.PendingEvents = p /\ C.Score = s
      /\ C.VmemTypes = v
    <2> HIDE DEF p, s, v
    <2>. QED  BY <1>3, <1>4
<1> HIDE DEF C
<1>. QED  BY <1>2, <1>5, <1>6 DEF Updated

LEMMA UpdateView ==
    ASSUME NEW B \in BracketsType, NEW E \in WaitEventType, NEW marks, NEW vmem
    PROVE  LET C == updateByEvent(B, E, marks, vmem)
               T == eventCounter(B.ST, E)
           IN  /\ C.ST = B.ST /\ C.PendingEvents = B.PendingEvents \cup {E}
               /\ C.UB[T] = B.UB[T] + 1 /\ C.LB[T] = raisedLB(B, T, B.UB[T] + 1)
               /\ \A r \in Slots :
                     C.Score[T][r] = IF r \in marks THEN B.UB[T] + 1 ELSE B.Score[T][r]
               /\ \A U \in InstCounterType \ {T} :
                     C.UB[U] = B.UB[U] /\ C.LB[U] = B.LB[U] /\ C.Score[U] = B.Score[U]
<1> DEFINE T == eventCounter(B.ST, E)
           val == B.UB[T] + 1
           C == updateByEvent(B, E, marks, vmem)
           s == [B.Score EXCEPT ![T] = [r \in Slots |-> IF r \in marks THEN val ELSE B.Score[T][r]]]
<1>1. T \in InstCounterType
    BY EventCounter
<1> HIDE DEF T, val, C
<1>2. T = eventCounter(B.ST, E) /\ val = B.UB[T] + 1 /\ C = updateByEvent(B, E, marks, vmem)
    BY DEF T, val, C
<1>3. /\ C.UB = [B.UB EXCEPT ![T] = val] /\ C.LB = [B.LB EXCEPT ![T] = raisedLB(B, T, val)]
      /\ C.ST = B.ST /\ C.PendingEvents = B.PendingEvents \cup {E} /\ C.Score = s
    <2>1. Updated(B, C, E, T, val, marks, vmem)
        BY <1>2, UpdateParts
    <2>. QED  BY <2>1 DEF Updated
<1>4. /\ B.LB \in [InstCounterType -> Nat] /\ B.UB \in [InstCounterType -> Nat]
      /\ B.Score \in [InstCounterType -> [Slots -> Nat]]
    BY DEF BracketsType
<1>5. \A r \in Slots : C.Score[T][r] = IF r \in marks THEN val ELSE B.Score[T][r]
    BY <1>1, <1>3, <1>4
<1>6. \A U \in InstCounterType \ {T} : C.Score[U] = B.Score[U]
    BY <1>1, <1>3, <1>4
<1> HIDE DEF s
<1>7. /\ C.UB[T] = val /\ C.LB[T] = raisedLB(B, T, val)
      /\ \A U \in InstCounterType \ {T} : C.UB[U] = B.UB[U] /\ C.LB[U] = B.LB[U]
    BY <1>1, <1>3, <1>4
<1>. QED  BY <1>2, <1>3, <1>5, <1>6, <1>7

LEMMA ApplyView ==
    ASSUME NEW B \in BracketsType, NEW W
    PROVE  LET C == applyWaitcnt(B, W) IN
           /\ C.ST = B.ST /\ C.UB = B.UB /\ C.Score = B.Score
           /\ \A T \in InstCounterType : C.LB[T] = appliedLB(B, T, W[T])
           /\ C.PendingEvents = {E \in B.PendingEvents : W[eventCounter(B.ST, E)] # 0}
<1> DEFINE l == [T \in InstCounterType |-> appliedLB(B, T, W[T])]
           p == {E \in B.PendingEvents : W[eventCounter(B.ST, E)] # 0}
           C == [B EXCEPT !.LB = l, !.PendingEvents = p]
<1>1. applyWaitcnt(B, W) = C
    BY DEF applyWaitcnt
<1>2. C.ST = B.ST /\ C.UB = B.UB /\ C.Score = B.Score /\ C.LB = l /\ C.PendingEvents = p
    <2> HIDE DEF l, p
    <2>. QED  BY DEF BracketsType
<1> HIDE DEF C
<1>. QED  BY <1>1, <1>2

LEMMA EntryView ==
    ASSUME NEW B \in BracketsType
    PROVE  LET C == setStateOnFunctionEntryOrReturn(B)
               T == "STORE_CNT"
           IN  /\ C.ST = B.ST /\ C.Score = B.Score /\ C.LB = B.LB
               /\ C.UB = [B.UB EXCEPT ![T] = B.UB[T] + getWaitCountMax(B.ST, T)]
               /\ C.PendingEvents = B.PendingEvents \cup WaitEventMask(B.ST)[T]
<1> DEFINE val == B.UB["STORE_CNT"] + getWaitCountMax(B.ST, "STORE_CNT")
           D == setScoreUB(B, "STORE_CNT", val)
           p == B.PendingEvents \cup WaitEventMask(B.ST)["STORE_CNT"]
           C == [D EXCEPT !.PendingEvents = p]
<1>1. "STORE_CNT" \in InstCounterType /\ B.LB \in [InstCounterType -> Nat]
    BY DEF InstCounterType, BracketsType
<1>2. /\ D.ST = B.ST /\ D.PendingEvents = B.PendingEvents /\ D.Score = B.Score
      /\ D.UB = [B.UB EXCEPT !["STORE_CNT"] = val]
      /\ D.LB = [B.LB EXCEPT !["STORE_CNT"] = raisedLB(B, "STORE_CNT", val)]
    <2> HIDE DEF val
    <2>. QED  BY <1>1, SetScoreUBView
<1>3. D.LB = B.LB
    BY <1>1, <1>2 DEF raisedLB
<1>4. D \in [DOMAIN B -> UNION {{D[f]} : f \in DOMAIN B}] /\ DOMAIN D = DOMAIN B
    BY DEF setScoreUB
<1>7. DOMAIN B = {"ST", "LB", "UB", "PendingEvents", "LastFlat", "Score", "VmemTypes",
                  "LDSDMAStores"}
    BY DEF BracketsType
<1>5. setStateOnFunctionEntryOrReturn(B) = C
    BY <1>2 DEF setStateOnFunctionEntryOrReturn
<1> HIDE DEF D, val
<1>6. C.ST = D.ST /\ C.UB = D.UB /\ C.Score = D.Score /\ C.LB = D.LB /\ C.PendingEvents = p
    <2> HIDE DEF p
    <2>. QED  BY <1>4, <1>7
<1> HIDE DEF C
<1>. QED  BY <1>2, <1>3, <1>5, <1>6 DEF val

LEMMA MergeView ==
    ASSUME NEW B \in BracketsType, NEW O \in BracketsType
    PROVE  LET C == merge(B, O) IN
           /\ C.ST = B.ST /\ C.LB = B.LB
           /\ C.PendingEvents = B.PendingEvents \cup O.PendingEvents
           /\ \A T \in InstCounterType :
                 /\ C.UB[T] = mergedUB(B, O, T)
                 /\ \A r \in Slots :
                       C.Score[T][r] = mergeScore(B, O, T, B.Score[T][r], O.Score[T][r])
<1> DEFINE u == [T \in InstCounterType |-> mergedUB(B, O, T)]
           p == B.PendingEvents \cup O.PendingEvents
           f == [T \in InstCounterType |-> mergeScore(B, O, T, B.LastFlat[T], O.LastFlat[T])]
           s == [T \in InstCounterType |-> [r \in Slots |->
                    mergeScore(B, O, T, B.Score[T][r], O.Score[T][r])]]
           v == [x \in Vgprs |-> B.VmemTypes[x] \cup O.VmemTypes[x]]
           C == [B EXCEPT !.UB = u, !.PendingEvents = p, !.LastFlat = f,
                          !.Score = s, !.VmemTypes = v]
           C0 == [B EXCEPT
            !.UB = [T \in InstCounterType |-> mergedUB(B, O, T)],
            !.PendingEvents = @ \cup O.PendingEvents,
            !.LastFlat = [T \in InstCounterType |->
                             mergeScore(B, O, T, @[T], O.LastFlat[T])],
            !.Score = [T \in InstCounterType |-> [r \in Slots |->
                          mergeScore(B, O, T, @[T][r], O.Score[T][r])]],
            !.VmemTypes = [x \in Vgprs |-> @[x] \cup O.VmemTypes[x]]]
<1>1. merge(B, O) = C0
    BY DEF merge
<1>2. C0 = C
    BY DEF BracketsType
<1>3. C.ST = B.ST /\ C.LB = B.LB /\ C.UB = u /\ C.PendingEvents = p /\ C.Score = s
    <2> HIDE DEF u, p, f, s, v
    <2>. QED  BY DEF BracketsType
<1> HIDE DEF C, C0
<1>. QED  BY <1>1, <1>2, <1>3

LEMMA MergeTypes ==
    ASSUME NEW B \in BracketsType, NEW O
    PROVE  \A v \in Vgprs : merge(B, O).VmemTypes[v] = B.VmemTypes[v] \cup O.VmemTypes[v]
<1> DEFINE u == [T \in InstCounterType |-> mergedUB(B, O, T)]
           f == [T \in InstCounterType |-> mergeScore(B, O, T, B.LastFlat[T], O.LastFlat[T])]
           s == [T \in InstCounterType |-> [r \in Slots |->
                    mergeScore(B, O, T, B.Score[T][r], O.Score[T][r])]]
           v == [x \in Vgprs |-> B.VmemTypes[x] \cup O.VmemTypes[x]]
           C == [B EXCEPT !.UB = u, !.PendingEvents = B.PendingEvents \cup O.PendingEvents,
                          !.LastFlat = f, !.Score = s, !.VmemTypes = v]
<1>1. merge(B, O) = C
    BY DEF merge, BracketsType
<1>2. C.VmemTypes = v
    <2> HIDE DEF u, f, s, v
    <2>. QED  BY DEF BracketsType
<1> HIDE DEF C
<1>. QED  BY <1>1, <1>2

-----------------------------------------------------------------------------
(* Brackets stay sound. *)

LEMMA UpdateSound ==
    ASSUME NEW st \in Generations, NEW B, Sound(B, st),
           NEW E \in WaitEventType, NEW marks, NEW vmem \in SUBSET VmemType
    PROVE  Sound(updateByEvent(B, E, marks, vmem), st)
<1> DEFINE C == updateByEvent(B, E, marks, vmem)
           T == eventCounter(B.ST, E)
<1>1. BracketOK(B, st) /\ B \in BracketsType
    BY DEF Sound, BracketOK
<1>2. BracketOK(C, st)
    BY <1>1, UpdateOK
<1>3. /\ C.UB[T] = B.UB[T] + 1
      /\ \A r \in Slots : C.Score[T][r] = IF r \in marks THEN B.UB[T] + 1 ELSE B.Score[T][r]
      /\ \A U \in InstCounterType \ {T} : C.UB[U] = B.UB[U] /\ C.Score[U] = B.Score[U]
    BY <1>1, UpdateView
<1>4. T \in InstCounterType
    BY EventCounter
<1> HIDE DEF C, T
<1>5. ASSUME NEW U \in InstCounterType, NEW r \in Slots
      PROVE  C.Score[U][r] <= C.UB[U]
    <2>1. B.Score[U][r] <= B.UB[U] /\ B.UB[U] \in Nat /\ B.Score[U][r] \in Nat
        BY <1>1, Numbers DEF Sound
    <2>. QED  BY <1>3, <1>4, <2>1
<1>. QED  BY <1>2, <1>5 DEF Sound, C

LEMMA ApplySound ==
    ASSUME NEW st \in Generations, NEW B, Sound(B, st), NEW W \in Waitcnt
    PROVE  Sound(applyWaitcnt(B, W), st)
<1>1. BracketOK(B, st) /\ B \in BracketsType
    BY DEF Sound, BracketOK
<1>2. BracketOK(applyWaitcnt(B, W), st)
    BY <1>1, ApplyOK
<1>. QED  BY <1>1, <1>2, ApplyView DEF Sound

LEMMA EntrySound ==
    ASSUME NEW st \in Generations, NEW B, Sound(B, st)
    PROVE  Sound(setStateOnFunctionEntryOrReturn(B), st)
<1> DEFINE C == setStateOnFunctionEntryOrReturn(B)
           max == getWaitCountMax(st, "STORE_CNT")
<1>1. BracketOK(B, st) /\ B \in BracketsType /\ B.ST = st /\ st \in Nat
      /\ "STORE_CNT" \in InstCounterType
    BY GenerationsAssumption DEF Sound, BracketOK, InstCounterType
<1>2. BracketOK(C, st)
    BY <1>1, FunctionEntry
<1>3. C.Score = B.Score /\ C.UB = [B.UB EXCEPT !["STORE_CNT"] = B.UB["STORE_CNT"] + max]
    BY <1>1, EntryView
<1>4. max \in Nat
    BY <1>1, CountMax
<1> HIDE DEF C, max
<1>5. ASSUME NEW U \in InstCounterType, NEW r \in Slots
      PROVE  C.Score[U][r] <= C.UB[U]
    <2>1. B.Score[U][r] <= B.UB[U] /\ B.UB[U] \in Nat /\ B.Score[U][r] \in Nat
        BY <1>1, Numbers DEF Sound
    <2>2. C.UB[U] = IF U = "STORE_CNT" THEN B.UB[U] + max ELSE B.UB[U]
        BY <1>1, <1>3 DEF BracketsType
    <2>. QED  BY <1>3, <1>4, <2>1, <2>2
<1>. QED  BY <1>2, <1>5 DEF Sound, C

\* The numbers of one counter and one slot in two brackets and their merge.
LEMMA MergeNumbers ==
    ASSUME NEW st \in Generations, NEW B, Sound(B, st), NEW O, Sound(O, st),
           NEW T \in InstCounterType, NEW r \in Slots
    PROVE  LET C == merge(B, O)
               ub == mergedUB(B, O, T)
           IN  /\ C.LB[T] = B.LB[T] /\ C.UB[T] = ub /\ C.Score[T][r] <= C.UB[T]
               /\ Held(B, T, r) => Held(C, T, r) /\ Distance(C, T, r) <= Distance(B, T, r)
               /\ Held(O, T, r) => Held(C, T, r) /\ Distance(C, T, r) <= Distance(O, T, r)
               /\ shifted(O, T, O.Score[T][r], ub) <= shifted(B, T, B.Score[T][r], ub) =>
                     (Held(C, T, r) => Held(B, T, r) /\ Distance(B, T, r) <= Distance(C, T, r))
<1> DEFINE C == merge(B, O)
           ub == mergedUB(B, O, T)
           b == shifted(B, T, B.Score[T][r], ub)
           o == shifted(O, T, O.Score[T][r], ub)
<1>1. /\ BracketOK(B, st) /\ BracketOK(O, st) /\ B \in BracketsType /\ O \in BracketsType
    BY DEF Sound, BracketOK
<1>2. /\ C.LB[T] = B.LB[T] /\ C.UB[T] = ub
      /\ C.Score[T][r] = mergeScore(B, O, T, B.Score[T][r], O.Score[T][r])
    BY <1>1, MergeView
<1>3. /\ B.LB[T] \in Nat /\ B.UB[T] \in Nat /\ B.LB[T] <= B.UB[T] /\ B.Score[T][r] \in Nat
      /\ B.Score[T][r] <= B.UB[T]
    BY <1>1, Numbers DEF Sound
<1>4. /\ O.LB[T] \in Nat /\ O.UB[T] \in Nat /\ O.LB[T] <= O.UB[T] /\ O.Score[T][r] \in Nat
      /\ O.Score[T][r] <= O.UB[T]
    BY <1>1, Numbers DEF Sound
<1>5. /\ ub \in Nat /\ ub >= B.UB[T] /\ ub >= B.LB[T] + (O.UB[T] - O.LB[T])
    BY <1>3, <1>4 DEF mergedUB, ScoreRange, Greatest
<1>6. C.Score[T][r] = Greatest(b, o)
    BY <1>2 DEF mergeScore
<1> HIDE DEF C, ub
<1>7. /\ b = IF B.Score[T][r] <= B.LB[T] THEN 0 ELSE B.Score[T][r] + ub - B.UB[T]
      /\ o = IF O.Score[T][r] <= O.LB[T] THEN 0 ELSE O.Score[T][r] + ub - O.UB[T]
    BY DEF shifted
<1> HIDE DEF b, o
<1>8. C.Score[T][r] <= ub
    BY <1>3, <1>4, <1>5, <1>6, <1>7 DEF Greatest
<1>9. Held(B, T, r) => Held(C, T, r) /\ Distance(C, T, r) <= Distance(B, T, r)
    BY <1>2, <1>3, <1>4, <1>5, <1>6, <1>7, <1>8 DEF Greatest, Held, InBracket, Distance
<1>10. Held(O, T, r) => Held(C, T, r) /\ Distance(C, T, r) <= Distance(O, T, r)
    BY <1>2, <1>3, <1>4, <1>5, <1>6, <1>7, <1>8 DEF Greatest, Held, InBracket, Distance
<1>11. o <= b => (Held(C, T, r) => Held(B, T, r) /\ Distance(B, T, r) <= Distance(C, T, r))
    BY <1>2, <1>3, <1>4, <1>5, <1>6, <1>7, <1>8 DEF Greatest, Held, InBracket, Distance
<1>. QED  BY <1>2, <1>8, <1>9, <1>10, <1>11 DEF C, ub, b, o

\* Merged brackets ask for the waits of both.
LEMMA MergeCovers ==
    ASSUME NEW st \in Generations, NEW B, Sound(B, st), NEW O, Sound(O, st)
    PROVE  /\ Sound(merge(B, O), st)
           /\ Covers(merge(B, O), B) /\ Covers(merge(B, O), O)
           /\ ~StrictDom(B, O) => Covers(B, merge(B, O))
<1> DEFINE C == merge(B, O)
<1>1. /\ BracketOK(B, st) /\ BracketOK(O, st) /\ B \in BracketsType /\ O \in BracketsType
    BY DEF Sound, BracketOK
<1>2. BracketOK(C, st)
    BY <1>1, MergeOK
<1>3. /\ C.PendingEvents = B.PendingEvents \cup O.PendingEvents
      /\ \A v \in Vgprs : C.VmemTypes[v] = B.VmemTypes[v] \cup O.VmemTypes[v]
    <2>1. \A v \in Vgprs : C.VmemTypes[v] = B.VmemTypes[v] \cup O.VmemTypes[v]
        BY <1>1, MergeTypes
    <2>2. C.PendingEvents = B.PendingEvents \cup O.PendingEvents
        BY <1>1, MergeView
    <2>. QED  BY <2>1, <2>2
<1>4. ~StrictDom(B, O) => Covers(B, C)
    <2>. SUFFICES ASSUME ~StrictDom(B, O) PROVE Covers(B, C)
        OBVIOUS
    <2>1. /\ C.PendingEvents \subseteq B.PendingEvents
          /\ \A v \in Vgprs : C.VmemTypes[v] \subseteq B.VmemTypes[v]
        <3> HIDE DEF C
        <3>. QED  BY <1>3 DEF StrictDom
    <2>2. ASSUME NEW T \in InstCounterType, NEW r \in Slots
          PROVE  Held(C, T, r) => Held(B, T, r) /\ Distance(B, T, r) <= Distance(C, T, r)
        <3> DEFINE ub == mergedUB(B, O, T)
                   b == shifted(B, T, B.Score[T][r], ub)
                   o == shifted(O, T, O.Score[T][r], ub)
        <3>1. ~(o > b)
            BY DEF StrictDom
        <3>2. b \in Nat /\ o \in Nat
            <4>1. /\ B.UB[T] \in Nat /\ B.LB[T] \in Nat /\ B.LB[T] <= B.UB[T]
                  /\ O.UB[T] \in Nat /\ O.LB[T] \in Nat /\ O.LB[T] <= O.UB[T]
                  /\ B.Score[T][r] \in Nat /\ O.Score[T][r] \in Nat
                BY <1>1, Numbers
            <4>2. ub \in Nat /\ ub >= B.UB[T] - B.LB[T] /\ ub >= O.UB[T] - O.LB[T]
                BY <4>1 DEF mergedUB, Greatest, ScoreRange
            <4> HIDE DEF ub
            <4>. QED  BY <1>1, <4>1, <4>2, ShiftedNat
        <3>3. o <= b
            <4> HIDE DEF o, b
            <4>. QED  BY <3>1, <3>2
        <3>. QED  BY <3>3, MergeNumbers
    <2>. QED  BY <2>1, <2>2 DEF Covers
<1>5. Covers(C, B) /\ Covers(C, O)
    <2>1. \A v \in Vgprs : B.VmemTypes[v] \subseteq C.VmemTypes[v]
                            /\ O.VmemTypes[v] \subseteq C.VmemTypes[v]
        <3> HIDE DEF C
        <3>. QED  BY <1>3
    <2>. QED  BY <1>3, <2>1, MergeNumbers DEF Covers
<1>6. Sound(C, st)
    BY <1>2, MergeNumbers DEF Sound
<1>. QED  BY <1>4, <1>5, <1>6

LEMMA CoversItself ==
    ASSUME NEW st, NEW B, BracketOK(B, st)
    PROVE  Covers(B, B)
BY Numbers DEF Covers, Distance

LEMMA CoversTrans ==
    ASSUME NEW st, NEW A, BracketOK(A, st), NEW B, BracketOK(B, st), NEW C, BracketOK(C, st),
           Covers(A, B), Covers(B, C)
    PROVE  Covers(A, C)
<1>1. /\ C.PendingEvents \subseteq A.PendingEvents
      /\ \A v \in Vgprs : C.VmemTypes[v] \subseteq A.VmemTypes[v]
    BY DEF Covers
<1>2. ASSUME NEW T \in InstCounterType, NEW r \in Slots, Held(C, T, r)
      PROVE  Held(A, T, r) /\ Distance(A, T, r) <= Distance(C, T, r)
    <2>1. /\ Distance(A, T, r) \in Int /\ Distance(B, T, r) \in Int /\ Distance(C, T, r) \in Int
        BY Numbers DEF Distance
    <2>. QED  BY <1>2, <2>1 DEF Covers
<1>. QED  BY <1>1, <1>2 DEF Covers

-----------------------------------------------------------------------------
(* An instruction keeps the brackets sound, and adds the events of the       *)
(* operations it starts.                                                     *)

LEMMA EventTypes ==
    ASSUME NEW I \in Instruction
    PROVE  /\ getVmemWaitEventType(I) \in WaitEventType
           /\ I.event \in WaitEventType /\ I.type \in VmemType /\ I.lds \subseteq LdsObjects
           /\ {"LDS_ACCESS", "GDS_ACCESS", "GDS_GPR_LOCK", "VMW_GPR_LOCK", "SMEM_ACCESS",
               "EXP_LDS_ACCESS", "SQ_MESSAGE"} \subseteq WaitEventType
<1>1. /\ I.event \in WaitEventType /\ I.type \in VmemType /\ I.lds \subseteq LdsObjects
    BY DEF Instruction
<1>2. getVmemWaitEventType(I) \in WaitEventType
    BY <1>1 DEF getVmemWaitEventType, VmemReadMapping, VmemType, WaitEventType
<1>. QED  BY <1>1, <1>2 DEF WaitEventType

\* Of what an access does, only the list of stores to LDS is not seen by the
\* wave: the marks, the counter and the event are those of an update.
LEMMA AccessView ==
    ASSUME WellFormed(fn), NEW B, Sound(B, ST), NEW E \in WaitEventType,
           NEW I \in Instruction, NEW vmem \in SUBSET VmemType
    PROVE  \E C : /\ C = updateByEvent(B, E, I.defs \cup ldsMarks(B, I), vmem)
                  /\ Sound(C, ST) /\ Sound(accessEvent(B, E, I, vmem), ST)
                  /\ SameView(C, accessEvent(B, E, I, vmem))
<1> DEFINE C == updateByEvent(B, E, I.defs \cup ldsMarks(B, I), vmem)
           D == accessEvent(B, E, I, vmem)
<1>1. ST \in Generations /\ BracketOK(B, ST)
    BY Code DEF Sound
<1>2. Sound(C, ST)
    BY <1>1, UpdateSound
<1>3. BracketOK(D, ST)
    BY <1>1, AccessOK
<1>4. SameView(C, D)
    <2>1. D = IF mayWriteLds(I) /\ I.lds # {}
              THEN recordDmaStore(C, CHOOSE o \in I.lds : TRUE) ELSE C
        BY DEF accessEvent
    <2> HIDE DEF C, D
    <2>2. C \in BracketsType
        BY <1>2 DEF Sound, BracketOK
    <2>3. SameView(C, C)
        BY DEF SameView
    <2>. QED  BY <2>1, <2>2, <2>3, DmaView
<1> HIDE DEF C, D
<1>5. Sound(D, ST)
    BY <1>2, <1>3, <1>4, SameSound
<1>. QED  BY <1>2, <1>4, <1>5 DEF C, D

-----------------------------------------------------------------------------
(* The operations in flight. *)

Operation ==
    [ev: WaitEventType, writes: SUBSET (Vgprs \cup Sgprs), locks: SUBSET Vgprs,
     type: VmemType \cup {"none"}, flat: BOOLEAN, lds: SUBSET LdsObjects,
     reads: Pointers \cup {NoPointer},
     kind: {"alu", "load", "store", "dma", "ds", "gds", "smem", "message", "export",
            "ldsdir", "call", "return", "endpgm"}]

\* Whether an instruction goes to one memory only.
OneMemory(I) ==
    ~(isVMEMOrFLAT(I) /\ mayAccessVMEMThroughFlat(I) /\ mayAccessLDSThroughFlat(I))

\* The events by which I holds on to registers it reads, or reads by the
\* export path.
Exports(st, I) ==
    {E \in ExpEvents :
        \/ I.kind = "export" /\ E = I.event
        \/ I.kind = "gds" /\ E = "GDS_GPR_LOCK"
        \/ I.kind = "ldsdir" /\ E = "EXP_LDS_ACCESS"
        \/ /\ isVMEMOrFLAT(I) /\ I.seg = "buffer" /\ I.data # {}
           /\ vmemWriteNeedsExpWaitcnt(st) /\ E = "VMW_GPR_LOCK"}

\* Which counters tell of which registers, for an operation of I.
Fits(op, I) ==
    /\ op \in Operation
    /\ \A r \in op.writes :
          \/ r \in Vgprs /\ CounterOf(op) \in {"LOAD_CNT", "SAMPLE_CNT", "BVH_CNT", "DS_CNT"}
          \/ r \in Vgprs /\ op.ev = "EXP_LDS_ACCESS"
          \/ r \in Sgprs /\ CounterOf(op) = SmemAccessCounter(ST)
    /\ op.locks # {} => CounterOf(op) = "EXP_CNT"
    /\ op.flat => ~OneMemory(I)
    /\ op.ev \in ExpEvents => op.ev \in Exports(ST, I)

\* C is B after the event of op, whose registers are marked.
Starts(B, op, C) ==
    LET T == CounterOf(op) IN
    /\ Sound(C, ST) /\ C.PendingEvents = B.PendingEvents \cup {op.ev}
    /\ C.UB[T] = B.UB[T] + 1 /\ C.LB[T] = raisedLB(B, T, B.UB[T] + 1)
    /\ \A r \in Slots :
          C.Score[T][r] = B.UB[T] + 1
          \/ (C.Score[T][r] = B.Score[T][r] /\ r \notin op.writes \cup op.locks)
    /\ \A U \in InstCounterType \ {T} :
          C.UB[U] = B.UB[U] /\ C.LB[U] = B.LB[U] /\ C.Score[U] = B.Score[U]

LEMMA Counters ==
    ASSUME NEW st
    PROVE  /\ \A E \in ExpEvents : eventCounter(st, E) = "EXP_CNT"
           /\ \A E \in {"SMEM_ACCESS", "SQ_MESSAGE"} : eventCounter(st, E) = SmemAccessCounter(st)
           /\ \A E \in {"LDS_ACCESS", "GDS_ACCESS"} : eventCounter(st, E) = "DS_CNT"
           /\ \A E \in {"VMEM_ACCESS", "VMEM_READ_ACCESS", "VMEM_SAMPLER_READ_ACCESS",
                        "VMEM_BVH_READ_ACCESS"} :
                 eventCounter(st, E) \in {"LOAD_CNT", "SAMPLE_CNT", "BVH_CNT"}
           /\ \A E \in {"VMEM_WRITE_ACCESS", "SCRATCH_WRITE_ACCESS"} :
                 eventCounter(st, E) = "STORE_CNT"
<1>1. \A E \in WaitEventType, T \in InstCounterType :
         E \in WaitEventMask(st)[T] => T = eventCounter(st, E)
    BY EventCounter
<1>2. ExpEvents \subseteq WaitEventType
    BY DEF ExpEvents, WaitEventType
<1>3. \A E \in ExpEvents : E \in WaitEventMask(st)["EXP_CNT"]
    BY DEF WaitEventMask, WaitEventMaskForInstPreGFX12, WaitEventMaskForInstGFX12Plus
<1>4. \A E \in {"SMEM_ACCESS", "SQ_MESSAGE"} : E \in WaitEventMask(st)[SmemAccessCounter(st)]
    BY DEF WaitEventMask, WaitEventMaskForInstPreGFX12, WaitEventMaskForInstGFX12Plus,
           SmemAccessCounter
<1>5. \A E \in {"LDS_ACCESS", "GDS_ACCESS"} : E \in WaitEventMask(st)["DS_CNT"]
    BY DEF WaitEventMask, WaitEventMaskForInstPreGFX12, WaitEventMaskForInstGFX12Plus
<1>6. \A E \in {"VMEM_ACCESS", "VMEM_READ_ACCESS", "VMEM_SAMPLER_READ_ACCESS",
                "VMEM_BVH_READ_ACCESS"} :
         \E T \in {"LOAD_CNT", "SAMPLE_CNT", "BVH_CNT"} : E \in WaitEventMask(st)[T]
    BY DEF WaitEventMask, WaitEventMaskForInstPreGFX12, WaitEventMaskForInstGFX12Plus
<1>7. \A E \in {"VMEM_WRITE_ACCESS", "SCRATCH_WRITE_ACCESS"} :
         E \in WaitEventMask(st)["STORE_CNT"]
    BY DEF WaitEventMask, WaitEventMaskForInstPreGFX12, WaitEventMaskForInstGFX12Plus
<1>8. {"EXP_CNT", "DS_CNT", "STORE_CNT", "LOAD_CNT", "SAMPLE_CNT", "BVH_CNT"}
         \subseteq InstCounterType /\ SmemAccessCounter(st) \in InstCounterType
    BY DEF InstCounterType, SmemAccessCounter
<1>9. {"SMEM_ACCESS", "SQ_MESSAGE", "LDS_ACCESS", "GDS_ACCESS", "VMEM_ACCESS",
       "VMEM_READ_ACCESS", "VMEM_SAMPLER_READ_ACCESS", "VMEM_BVH_READ_ACCESS",
       "VMEM_WRITE_ACCESS", "SCRATCH_WRITE_ACCESS"} \subseteq WaitEventType
    BY DEF WaitEventType
<1>10. \A E \in ExpEvents : eventCounter(st, E) = "EXP_CNT"
    BY <1>1, <1>2, <1>3, <1>8
<1>11. \A E \in {"SMEM_ACCESS", "SQ_MESSAGE"} : eventCounter(st, E) = SmemAccessCounter(st)
    BY <1>1, <1>4, <1>8, <1>9
<1>12. \A E \in {"LDS_ACCESS", "GDS_ACCESS"} : eventCounter(st, E) = "DS_CNT"
    BY <1>1, <1>5, <1>8, <1>9
<1>13. \A E \in {"VMEM_ACCESS", "VMEM_READ_ACCESS", "VMEM_SAMPLER_READ_ACCESS",
                 "VMEM_BVH_READ_ACCESS"} :
          eventCounter(st, E) \in {"LOAD_CNT", "SAMPLE_CNT", "BVH_CNT"}
    BY <1>1, <1>6, <1>8, <1>9
<1>14. \A E \in {"VMEM_WRITE_ACCESS", "SCRATCH_WRITE_ACCESS"} :
          eventCounter(st, E) = "STORE_CNT"
    BY <1>1, <1>7, <1>8, <1>9
<1>. QED  BY <1>10, <1>11, <1>12, <1>13, <1>14

\* The operation that a step of updateEventWaitcntAfter stands for.
LEMMA Started ==
    ASSUME WellFormed(fn), NEW B, Sound(B, ST), NEW op \in Operation,
           NEW marks, op.writes \cup op.locks \subseteq marks, NEW vmem \in SUBSET VmemType,
           NEW D, D = updateByEvent(B, op.ev, marks, vmem), NEW C, Sound(C, ST), SameView(D, C)
    PROVE  Starts(B, op, C)
<1> DEFINE T == CounterOf(op)
<1>1. B \in BracketsType /\ B.ST = ST /\ op.ev \in WaitEventType
    BY DEF Sound, BracketOK, Operation
<1>2. /\ D.PendingEvents = B.PendingEvents \cup {op.ev}
      /\ D.UB[T] = B.UB[T] + 1 /\ D.LB[T] = raisedLB(B, T, B.UB[T] + 1)
      /\ \A r \in Slots : D.Score[T][r] = IF r \in marks THEN B.UB[T] + 1 ELSE B.Score[T][r]
      /\ \A U \in InstCounterType \ {T} :
            D.UB[U] = B.UB[U] /\ D.LB[U] = B.LB[U] /\ D.Score[U] = B.Score[U]
    BY <1>1, UpdateView DEF CounterOf
<1>. QED  BY <1>2 DEF Starts, SameView

LEMMA Pair ==
    ASSUME NEW a, NEW b
    PROVE  <<a, b>> = <<a>> \o <<b>>
<1> DEFINE S == {a, b}
           s == <<a>>
           t == <<b>>
           x == s \o t
           y == <<a, b>>
<1>1. s \in Seq(S) /\ t \in Seq(S) /\ Len(s) = 1 /\ Len(t) = 1 /\ s[1] = a /\ t[1] = b
    OBVIOUS
<1>2. y \in Seq(S) /\ Len(y) = 2 /\ y[1] = a /\ y[2] = b
    OBVIOUS
<1> HIDE DEF S, s, t, y
<1>3. x \in Seq(S) /\ Len(x) = Len(s) + Len(t)
    BY <1>1, ConcatProperties
<1>4. Len(x) = 2
    BY <1>1, <1>3
<1>5. x[1] = a /\ x[2] = b
    BY <1>1, <1>3, <1>4, ConcatProperties
<1> HIDE DEF x
<1>6. \A i \in 1..Len(x) : x[i] = y[i]
    BY <1>2, <1>4, <1>5
<1>7. x = y
    BY <1>2, <1>3, <1>4, <1>6, SeqEqual
<1>. QED  BY <1>7 DEF x, y, s, t

LEMMA InstructionFields ==
    ASSUME NEW I \in Instruction
    PROVE  /\ I.kind \in {"alu", "load", "store", "dma", "ds", "gds", "smem", "message", "export",
                          "ldsdir", "call", "return", "endpgm"}
           /\ I.defs \subseteq Vgprs \cup Sgprs /\ I.uses \subseteq Vgprs \cup Sgprs
           /\ I.data \subseteq Vgprs /\ I.lds \subseteq LdsObjects
           /\ I.ptr \in Pointers \cup {NoPointer}
           /\ I.type \in VmemType /\ I.event \in WaitEventType
BY DEF Instruction

LEMMA OpType ==
    ASSUME NEW I \in Instruction, NEW ev \in WaitEventType
    PROVE  /\ Op(ev, I) \in Operation /\ Op(ev, I).ev = ev
           /\ Op(ev, I).writes = {} /\ Op(ev, I).locks = {} /\ Op(ev, I).flat = FALSE
<1> DEFINE op == [ev |-> ev, writes |-> {}, locks |-> {}, type |-> "none", flat |-> FALSE,
                  lds |-> {}, reads |-> NoPointer, kind |-> I.kind]
<1>1. Op(ev, I) = op
    BY DEF Op
<1>2. op \in Operation
    BY InstructionFields DEF Operation
<1>3. op.ev = ev /\ op.writes = {} /\ op.locks = {} /\ op.flat = FALSE
    OBVIOUS
<1> HIDE DEF op
<1>. QED  BY <1>1, <1>2, <1>3

\* The operations that instructions start.
LEMMA VmemOpFits ==
    ASSUME WellFormed(fn), NEW I \in Instruction, Sensible(I), isVMEMOrFLAT(I)
    PROVE  Fits(VmemOp(I), I) /\ VmemOp(I).ev = getVmemWaitEventType(I)
           /\ VmemOp(I).writes = I.defs /\ VmemOp(I).locks = {}
<1> DEFINE ev == getVmemWaitEventType(I)
           flat == mayAccessVMEMThroughFlat(I) /\ mayAccessLDSThroughFlat(I)
           lds == IF I.kind = "dma" THEN I.lds ELSE {}
           o == Op(ev, I)
           op == [o EXCEPT !.writes = I.defs, !.type = I.type, !.flat = flat, !.lds = lds]
<1>1. VmemOp(I) = op
    BY DEF VmemOp
<1>2. ev \in WaitEventType /\ flat \in BOOLEAN /\ lds \subseteq LdsObjects
    BY EventTypes, InstructionFields DEF mayAccessVMEMThroughFlat, mayAccessLDSThroughFlat
<1> HIDE DEF ev, flat, lds
<1>12. o \in Operation /\ o.ev = ev /\ o.locks = {}
    BY <1>2, OpType
<1> HIDE DEF o
<1>3. op \in Operation
    BY <1>2, <1>12, InstructionFields DEF Operation
<1>8. op.writes = I.defs /\ op.locks = {} /\ op.ev = ev /\ op.flat = flat
    BY <1>12 DEF Operation
<1>4. I.kind \in {"store", "dma"} => I.defs = {}
    BY DEF Sensible
<1>5. I.kind = "load" =>
         ev \in {"VMEM_ACCESS", "VMEM_READ_ACCESS", "VMEM_SAMPLER_READ_ACCESS",
                 "VMEM_BVH_READ_ACCESS"} /\ I.defs \subseteq Vgprs
    BY InstructionFields DEF ev, getVmemWaitEventType, VmemReadMapping, VmemType, Sensible
<1>6. CounterOf(op) = eventCounter(ST, ev)
    BY <1>8 DEF CounterOf
<1>7. I.kind = "load" => CounterOf(op) \in {"LOAD_CNT", "SAMPLE_CNT", "BVH_CNT"}
    BY <1>5, <1>6, Counters
<1> HIDE DEF op
<1>9. flat => ~OneMemory(I)
    BY DEF flat, OneMemory
<1>10. I.kind \in {"load", "store", "dma"}
    BY DEF isVMEMOrFLAT
<1>11. op.ev \notin ExpEvents
    <2>1. I.type \in VmemType
        BY InstructionFields
    <2>. QED  BY <1>8, <2>1 DEF ev, getVmemWaitEventType, VmemReadMapping, VmemType, ExpEvents, op
<1>. QED  BY <1>1, <1>3, <1>4, <1>5, <1>7, <1>8, <1>9, <1>10, <1>11 DEF Fits, ev

LEMMA LdsOpFits ==
    ASSUME WellFormed(fn), NEW I \in Instruction, Sensible(I),
           I.kind = "ds" \/ (isVMEMOrFLAT(I) /\ mayAccessLDSThroughFlat(I))
    PROVE  Fits(LdsOp(I), I) /\ LdsOp(I).ev = "LDS_ACCESS"
           /\ LdsOp(I).writes = I.defs /\ LdsOp(I).locks = {}
<1> DEFINE flat == isVMEMOrFLAT(I) /\ mayAccessVMEMThroughFlat(I)
           o == Op("LDS_ACCESS", I)
           op == [o EXCEPT !.writes = I.defs, !.flat = flat]
<1>1. LdsOp(I) = op
    BY DEF LdsOp
<1>2. flat \in BOOLEAN /\ "LDS_ACCESS" \in WaitEventType
    BY EventTypes DEF isVMEMOrFLAT, mayAccessVMEMThroughFlat
<1>3. flat => ~OneMemory(I)
    BY DEF OneMemory, isVMEMOrFLAT
<1> HIDE DEF flat
<1>8. o \in Operation /\ o.ev = "LDS_ACCESS" /\ o.locks = {}
    BY <1>2, OpType
<1> HIDE DEF o
<1>4. op \in Operation
    BY <1>2, <1>8, InstructionFields DEF Operation
<1>7. op.writes = I.defs /\ op.locks = {} /\ op.ev = "LDS_ACCESS" /\ op.flat = flat
    BY <1>8 DEF Operation
<1>5. I.defs \subseteq Vgprs
    BY InstructionFields DEF Sensible, isVMEMOrFLAT
<1>6. CounterOf(op) = "DS_CNT"
    BY <1>7, Counters DEF CounterOf
<1> HIDE DEF op
<1>9. "LDS_ACCESS" \notin ExpEvents
    BY DEF ExpEvents
<1>. QED  BY <1>1, <1>3, <1>4, <1>5, <1>6, <1>7, <1>9 DEF Fits

LEMMA ExpOpFits ==
    ASSUME NEW I \in Instruction, NEW ev \in Exports(ST, I), NEW locks \in SUBSET Vgprs
    PROVE  Fits(ExpOp(ev, I, locks), I) /\ ExpOp(ev, I, locks).ev = ev
           /\ ExpOp(ev, I, locks).writes = {} /\ ExpOp(ev, I, locks).locks = locks
<1> DEFINE o == Op(ev, I)
           op == [o EXCEPT !.locks = locks]
<1>1. ExpOp(ev, I, locks) = op
    BY DEF ExpOp
<1>2. ev \in ExpEvents /\ ev \in WaitEventType
    BY DEF ExpEvents, WaitEventType, Exports
<1>3. o \in Operation /\ o.ev = ev /\ o.writes = {} /\ o.flat = FALSE
    BY <1>2, OpType
<1> HIDE DEF o
<1>4. op \in Operation
    BY <1>3 DEF Operation
<1>5. op.writes = {} /\ op.locks = locks /\ op.ev = ev /\ op.flat = FALSE
    BY <1>3 DEF Operation
<1>6. CounterOf(op) = "EXP_CNT"
    BY <1>2, <1>5, Counters DEF CounterOf
<1> HIDE DEF op
<1>. QED  BY <1>1, <1>4, <1>5, <1>6 DEF Fits

\* The operations whose only data are the registers they write.
LEMMA PlainOpFits ==
    ASSUME NEW I \in Instruction, Sensible(I), NEW op \in Operation,
           \/ I.kind = "gds" /\ op.ev = "GDS_ACCESS"
           \/ I.kind = "smem" /\ op.ev = "SMEM_ACCESS"
           \/ I.kind = "message" /\ op.ev = "SQ_MESSAGE"
           \/ I.kind = "ldsdir" /\ op.ev = "EXP_LDS_ACCESS",
           op.writes = I.defs, op.locks = {}, op.flat = FALSE
    PROVE  Fits(op, I)
<1>1. /\ I.kind \in {"gds", "ldsdir"} => I.defs \subseteq Vgprs
      /\ I.kind \in {"smem", "message"} => I.defs \subseteq Sgprs
    BY DEF Sensible
<1>2. /\ I.kind = "gds" => CounterOf(op) = "DS_CNT"
      /\ I.kind \in {"smem", "message"} => CounterOf(op) = SmemAccessCounter(ST)
    BY Counters DEF CounterOf
<1>3. op.ev \in ExpEvents => op.ev \in Exports(ST, I)
    BY DEF ExpEvents, Exports
<1>. QED  BY <1>1, <1>2, <1>3 DEF Fits

\* An event that says nothing of vector memory.
LEMMA PlainStarted ==
    ASSUME WellFormed(fn), NEW B, Sound(B, ST), NEW op \in Operation,
           NEW marks, op.writes \cup op.locks \subseteq marks
    PROVE  Starts(B, op, updateByEvent(B, op.ev, marks, {}))
<1> DEFINE C == updateByEvent(B, op.ev, marks, {})
<1>1. op.ev \in WaitEventType
    BY DEF Operation
<1>2. Sound(C, ST)
    BY <1>1, Code, UpdateSound
<1>3. SameView(C, C)
    BY DEF SameView
<1>4. {} \in SUBSET VmemType
    OBVIOUS
<1> HIDE DEF C
<1>5. C = updateByEvent(B, op.ev, marks, {})
    BY DEF C
<1>6. Starts(B, op, C)
    BY <1>2, <1>3, <1>4, <1>5, Started
<1>. QED  BY <1>5, <1>6

\* An access starts an operation that writes what it defines.
LEMMA AccessStarted ==
    ASSUME WellFormed(fn), NEW B, Sound(B, ST), NEW I \in Instruction, NEW op \in Operation,
           op.writes = I.defs, op.locks = {}, NEW vmem \in SUBSET VmemType
    PROVE  Starts(B, op, accessEvent(B, op.ev, I, vmem))
<1>1. op.ev \in WaitEventType
    BY DEF Operation
<1>2. PICK D : /\ D = updateByEvent(B, op.ev, I.defs \cup ldsMarks(B, I), vmem)
               /\ Sound(accessEvent(B, op.ev, I, vmem), ST)
               /\ SameView(D, accessEvent(B, op.ev, I, vmem))
    BY <1>1, AccessView
<1> DEFINE C == accessEvent(B, op.ev, I, vmem)
           marks == I.defs \cup ldsMarks(B, I)
<1>3. op.writes \cup op.locks \subseteq marks
    OBVIOUS
<1>4. Sound(C, ST) /\ SameView(D, C) /\ D = updateByEvent(B, op.ev, marks, vmem)
    BY <1>2
<1> HIDE DEF C, marks
<1>5. Starts(B, op, C)
    BY <1>3, <1>4, Started
<1>. QED  BY <1>5 DEF C

LEMMA VmemStarted ==
    ASSUME WellFormed(fn), NEW B, Sound(B, ST), NEW I \in Instruction, Sensible(I),
           isVMEMOrFLAT(I)
    PROVE  Starts(B, VmemOp(I), vmemEvent(B, I))
<1> DEFINE op == VmemOp(I)
           types == IF updateVMCntOnly(I) THEN {I.type} ELSE {}
<1>1. /\ op \in Operation /\ op.ev = getVmemWaitEventType(I)
      /\ op.writes = I.defs /\ op.locks = {}
    BY VmemOpFits DEF Fits
<1>2. types \in SUBSET VmemType
    BY InstructionFields
<1>3. vmemEvent(B, I) = accessEvent(B, getVmemWaitEventType(I), I, types)
    BY DEF vmemEvent
<1> HIDE DEF op, types
<1>4. Starts(B, op, accessEvent(B, op.ev, I, types))
    BY <1>1, <1>2, AccessStarted
<1>. QED  BY <1>1, <1>3, <1>4 DEF op

\* The operations an instruction starts, and what the pass does for each.
LEMMA Chain ==
    ASSUME WellFormed(fn), NEW B, Sound(B, ST), NEW I \in Instruction, Sensible(I),
           I.kind # "call"
    PROVE  LET After == updateEventWaitcntAfter(B, I) IN
           \/ Ops(I) = <<>> /\ After = B
           \/ \E op : Fits(op, I) /\ Ops(I) = <<op>> /\ Starts(B, op, After)
           \/ \E first, second, C :
                 /\ Fits(first, I) /\ Fits(second, I) /\ Ops(I) = <<first>> \o <<second>>
                 /\ Starts(B, first, C) /\ Starts(C, second, After)
<1> DEFINE After == updateEventWaitcntAfter(B, I)
           One == \E op : Fits(op, I) /\ Ops(I) = <<op>> /\ Starts(B, op, After)
           Two == \E first, second, C :
                     /\ Fits(first, I) /\ Fits(second, I) /\ Ops(I) = <<first>> \o <<second>>
                     /\ Starts(B, first, C) /\ Starts(C, second, After)
<1>. SUFFICES (Ops(I) = <<>> /\ After = B) \/ One \/ Two
    OBVIOUS
<1>1. CASE I.kind = "ds"
    <2> DEFINE op == LdsOp(I)
    <2>1. Fits(op, I) /\ op.ev = "LDS_ACCESS" /\ op.writes = I.defs /\ op.locks = {}
        BY <1>1, LdsOpFits
    <2>2. Ops(I) = <<op>> /\ After = accessEvent(B, "LDS_ACCESS", I, {})
        BY <1>1 DEF Ops, updateEventWaitcntAfter, isVMEMOrFLAT
    <2> HIDE DEF op
    <2> HIDE DEF After
    <2>3. Starts(B, op, After)
        BY <2>1, <2>2, AccessStarted DEF Fits
    <2>. QED  BY <2>1, <2>2, <2>3
<1>2. CASE I.kind = "gds"
    <2> DEFINE a == [Op("GDS_ACCESS", I) EXCEPT !.writes = I.defs]
               b == ExpOp("GDS_GPR_LOCK", I, I.uses)
               C == accessEvent(B, "GDS_ACCESS", I, {})
    <2>1. Fits(a, I) /\ a.ev = "GDS_ACCESS" /\ a.writes = I.defs /\ a.locks = {}
        <3> DEFINE o == Op("GDS_ACCESS", I)
        <3>1. o \in Operation /\ o.ev = "GDS_ACCESS" /\ o.locks = {} /\ o.flat = FALSE
            BY OpType, EventTypes
        <3> HIDE DEF o
        <3>2. a = [o EXCEPT !.writes = I.defs]
            BY DEF o
        <3> HIDE DEF a
        <3>3. /\ a \in Operation /\ a.ev = "GDS_ACCESS" /\ a.writes = I.defs /\ a.locks = {}
              /\ a.flat = FALSE
            BY <3>1, <3>2, InstructionFields DEF Operation
        <3>. QED  BY <1>2, <3>3, PlainOpFits
    <2>2. Fits(b, I) /\ b.ev = "GDS_GPR_LOCK" /\ b.writes = {} /\ b.locks = I.uses
        <3>1. I.uses \in SUBSET Vgprs
            BY <1>2 DEF Sensible
        <3>2. "GDS_GPR_LOCK" \in Exports(ST, I)
            BY <1>2 DEF ExpEvents, Exports
        <3>. QED  BY <3>1, <3>2, ExpOpFits
    <2>3. Ops(I) = <<a, b>>
        BY <1>2 DEF Ops, isVMEMOrFLAT
    <2>4. After = updateByEvent(C, "GDS_GPR_LOCK", I.uses, {})
        BY <1>2 DEF updateEventWaitcntAfter, isVMEMOrFLAT
    <2> HIDE DEF a, b
    <2>5. Starts(B, a, C)
        BY <2>1, AccessStarted DEF Fits
    <2> HIDE DEF C
    <2>6. Sound(C, ST)
        BY <2>5 DEF Starts
    <2>7. Starts(C, b, After)
        BY <2>2, <2>4, <2>6, PlainStarted DEF Fits
    <2>8. Ops(I) = <<a>> \o <<b>>
        BY <2>3, Pair
    <2>9. Two
        <3> HIDE DEF After
        <3>. QED  BY <2>1, <2>2, <2>5, <2>7, <2>8
    <2>. QED  BY <2>9
<1>3. CASE isVMEMOrFLAT(I) /\ I.seg # "buffer"
    <2> DEFINE lds(C) == accessEvent(C, "LDS_ACCESS", I, {})
               v == VmemOp(I)
               l == LdsOp(I)
               V == vmemEvent(B, I)
    <2>1. After = IF ~mayAccessVMEMThroughFlat(I) THEN lds(B)
                  ELSE IF ~mayAccessLDSThroughFlat(I) THEN V ELSE setPendingFlat(lds(V))
        BY <1>3 DEF updateEventWaitcntAfter, flatEvents, isVMEMOrFLAT
    <2>2. Ops(I) = ((IF mayAccessVMEMThroughFlat(I) THEN <<v>> ELSE <<>>)
                    \o (IF mayAccessLDSThroughFlat(I) THEN <<l>> ELSE <<>>)) \o <<>>
        BY <1>3 DEF Ops, isVMEMOrFLAT
    <2>3. Fits(v, I) /\ Starts(B, v, V)
        BY <1>3, VmemOpFits, VmemStarted
    <2>4. mayAccessLDSThroughFlat(I) =>
             Fits(l, I) /\ l.ev = "LDS_ACCESS" /\ l.writes = I.defs /\ l.locks = {}
        BY <1>3, LdsOpFits
    <2>5. ~mayAccessVMEMThroughFlat(I) => mayAccessLDSThroughFlat(I)
        BY <1>3 DEF mayAccessVMEMThroughFlat, mayAccessLDSThroughFlat, Sensible, isVMEMOrFLAT
    <2>6. ASSUME NEW C, Sound(C, ST), mayAccessLDSThroughFlat(I)
          PROVE  Starts(C, l, lds(C))
        <3>1. l \in Operation /\ l.ev = "LDS_ACCESS" /\ l.writes = I.defs /\ l.locks = {}
            BY <2>4, <2>6 DEF Fits
        <3> HIDE DEF l
        <3>. QED  BY <2>6, <3>1, AccessStarted
    <2>7. Sound(V, ST)
        BY <2>3 DEF Starts
    <2> HIDE DEF v, l, V
    <2>8. CASE ~mayAccessVMEMThroughFlat(I)
        <3>1. Ops(I) = (<<>> \o <<l>>) \o <<>>
            BY <2>2, <2>5, <2>8
        <3>2. Ops(I) = <<l>>
            BY <3>1
        <3>3. After = lds(B)
            BY <2>1, <2>8
        <3> HIDE DEF After, lds
        <3>. QED  BY <2>4, <2>5, <2>6, <2>8, <3>2, <3>3
    <2>9. CASE mayAccessVMEMThroughFlat(I) /\ ~mayAccessLDSThroughFlat(I)
        <3>1. Ops(I) = (<<v>> \o <<>>) \o <<>>
            BY <2>2, <2>9
        <3>2. Ops(I) = <<v>>
            BY <3>1
        <3>3. After = V
            BY <2>1, <2>9
        <3> HIDE DEF After, lds
        <3>. QED  BY <2>3, <3>2, <3>3
    <2>10. CASE mayAccessVMEMThroughFlat(I) /\ mayAccessLDSThroughFlat(I)
        <3>1. Ops(I) = (<<v>> \o <<l>>) \o <<>>
            BY <2>2, <2>10
        <3>2. Ops(I) = <<v>> \o <<l>>
            <4>1. <<v>> \o <<l>> \in Seq({v, l})
                BY ConcatProperties
            <4>. QED  BY <3>1, <4>1, ConcatEmptySeq
        <3>3. After = setPendingFlat(lds(V))
            BY <2>1, <2>10
        <3>4. Starts(V, l, lds(V))
            BY <2>6, <2>7, <2>10
        <3> DEFINE L == lds(V)
        <3> HIDE DEF L, lds
        <3>5. Sound(L, ST) /\ L \in BracketsType
            BY <3>4 DEF Starts, L, Sound, BracketOK
        <3>6. SameView(L, After) /\ Sound(After, ST)
            <4>1. After = setPendingFlat(L)
                BY <3>3 DEF L
            <4> HIDE DEF After
            <4>2. SameView(L, After)
                BY <3>5, <4>1, FlatView
            <4>3. BracketOK(After, ST)
                BY <3>5, <4>1, FlatOK DEF Sound
            <4>. QED  BY <3>5, <4>2, <4>3, SameSound
        <3> HIDE DEF After
        <3>7. Starts(V, l, After)
            BY <3>4, <3>6 DEF Starts, SameView, L
        <3>. QED  BY <2>3, <2>4, <2>10, <3>2, <3>7
    <2>. QED  BY <2>8, <2>9, <2>10
<1>4. CASE isVMEMOrFLAT(I) /\ I.seg = "buffer"
    <2> DEFINE v == VmemOp(I)
               e == ExpOp("VMW_GPR_LOCK", I, I.data)
               V == vmemEvent(B, I)
               both == vmemWriteNeedsExpWaitcnt(ST) /\ I.data # {}
    <2>1. After = IF both THEN updateByEvent(V, "VMW_GPR_LOCK", I.data, {}) ELSE V
        BY <1>4 DEF updateEventWaitcntAfter, bufferEvents, isVMEMOrFLAT
    <2>2. mayAccessVMEMThroughFlat(I) /\ ~mayAccessLDSThroughFlat(I)
        BY <1>4 DEF mayAccessVMEMThroughFlat, mayAccessLDSThroughFlat, Sensible, isVMEMOrFLAT
    <2>3. Ops(I) = (<<v>> \o <<>>) \o (IF both THEN <<e>> ELSE <<>>)
        BY <1>4, <2>2 DEF Ops, isVMEMOrFLAT
    <2>4. Fits(v, I) /\ Starts(B, v, V)
        BY <1>4, VmemOpFits, VmemStarted
    <2>5. both => Fits(e, I) /\ e.ev = "VMW_GPR_LOCK" /\ e.writes = {} /\ e.locks = I.data
        <3>. SUFFICES ASSUME both
                      PROVE  Fits(e, I) /\ e.ev = "VMW_GPR_LOCK" /\ e.writes = {} /\ e.locks = I.data
            OBVIOUS
        <3>1. "VMW_GPR_LOCK" \in Exports(ST, I) /\ I.data \in SUBSET Vgprs
            BY <1>4, InstructionFields DEF ExpEvents, Exports
        <3>. QED  BY <3>1, ExpOpFits
    <2>6. Sound(V, ST)
        BY <2>4 DEF Starts
    <2> HIDE DEF v, e, V, both
    <2>7. CASE both
        <3>1. Starts(V, e, updateByEvent(V, "VMW_GPR_LOCK", I.data, {}))
            BY <2>5, <2>6, <2>7, PlainStarted DEF Fits
        <3>2. After = updateByEvent(V, "VMW_GPR_LOCK", I.data, {})
            BY <2>1, <2>7
        <3>3. Ops(I) = <<v>> \o <<e>>
            <4>1. Ops(I) = (<<v>> \o <<>>) \o <<e>>
                BY <2>3, <2>7
            <4>2. <<v>> \o <<>> = <<v>>
                OBVIOUS
            <4>. QED  BY <4>1, <4>2
        <3> HIDE DEF After
        <3>. QED  BY <2>4, <2>5, <2>7, <3>1, <3>2, <3>3
    <2>8. CASE ~both
        <3>1. After = V
            BY <2>1, <2>8
        <3>2. Ops(I) = (<<v>> \o <<>>) \o <<>>
            BY <2>3, <2>8
        <3>3. Ops(I) = <<v>>
            BY <3>2
        <3> HIDE DEF After
        <3>. QED  BY <2>4, <3>1, <3>3
    <2>. QED  BY <2>7, <2>8
<1>5. CASE I.kind = "smem"
    <2> DEFINE op == [Op("SMEM_ACCESS", I) EXCEPT !.writes = I.defs, !.reads = I.ptr]
    <2>1. Fits(op, I) /\ op.ev = "SMEM_ACCESS" /\ op.writes = I.defs /\ op.locks = {}
        <3> DEFINE o == Op("SMEM_ACCESS", I)
        <3>1. o \in Operation /\ o.ev = "SMEM_ACCESS" /\ o.locks = {} /\ o.flat = FALSE
            BY OpType, EventTypes
        <3> HIDE DEF o
        <3>2. op = [o EXCEPT !.writes = I.defs, !.reads = I.ptr]
            BY DEF o
        <3> HIDE DEF op
        <3>3. /\ op \in Operation /\ op.ev = "SMEM_ACCESS" /\ op.writes = I.defs /\ op.locks = {}
              /\ op.flat = FALSE
            BY <3>1, <3>2, InstructionFields DEF Operation
        <3>. QED  BY <1>5, <3>3, PlainOpFits
    <2>2. Ops(I) = <<op>> /\ After = updateByEvent(B, "SMEM_ACCESS", I.defs, {})
        BY <1>5 DEF Ops, updateEventWaitcntAfter, isVMEMOrFLAT
    <2> HIDE DEF op
    <2> HIDE DEF After
    <2>3. Starts(B, op, After)
        BY <2>1, <2>2, PlainStarted DEF Fits
    <2>. QED  BY <2>1, <2>2, <2>3
<1>6. CASE I.kind = "message"
    <2> DEFINE op == [Op("SQ_MESSAGE", I) EXCEPT !.writes = I.defs]
    <2>1. Fits(op, I) /\ op.ev = "SQ_MESSAGE" /\ op.writes = I.defs /\ op.locks = {}
        <3> DEFINE o == Op("SQ_MESSAGE", I)
        <3>1. o \in Operation /\ o.ev = "SQ_MESSAGE" /\ o.locks = {} /\ o.flat = FALSE
            BY OpType, EventTypes
        <3> HIDE DEF o
        <3>2. op = [o EXCEPT !.writes = I.defs]
            BY DEF o
        <3> HIDE DEF op
        <3>3. /\ op \in Operation /\ op.ev = "SQ_MESSAGE" /\ op.writes = I.defs /\ op.locks = {}
              /\ op.flat = FALSE
            BY <3>1, <3>2, InstructionFields DEF Operation
        <3>. QED  BY <1>6, <3>3, PlainOpFits
    <2>2. Ops(I) = <<op>> /\ After = updateByEvent(B, "SQ_MESSAGE", I.defs, {})
        BY <1>6 DEF Ops, updateEventWaitcntAfter, isVMEMOrFLAT
    <2> HIDE DEF op
    <2> HIDE DEF After
    <2>3. Starts(B, op, After)
        BY <2>1, <2>2, PlainStarted DEF Fits
    <2>. QED  BY <2>1, <2>2, <2>3
<1>7. CASE I.kind = "ldsdir"
    <2> DEFINE op == [Op("EXP_LDS_ACCESS", I) EXCEPT !.writes = I.defs]
    <2>1. Fits(op, I) /\ op.ev = "EXP_LDS_ACCESS" /\ op.writes = I.defs /\ op.locks = {}
        <3> DEFINE o == Op("EXP_LDS_ACCESS", I)
        <3>1. o \in Operation /\ o.ev = "EXP_LDS_ACCESS" /\ o.locks = {} /\ o.flat = FALSE
            BY OpType, EventTypes
        <3> HIDE DEF o
        <3>2. op = [o EXCEPT !.writes = I.defs]
            BY DEF o
        <3> HIDE DEF op
        <3>3. /\ op \in Operation /\ op.ev = "EXP_LDS_ACCESS" /\ op.writes = I.defs /\ op.locks = {}
              /\ op.flat = FALSE
            BY <3>1, <3>2, InstructionFields DEF Operation
        <3>. QED  BY <1>7, <3>3, PlainOpFits
    <2>2. Ops(I) = <<op>> /\ After = updateByEvent(B, "EXP_LDS_ACCESS", I.defs, {})
        BY <1>7 DEF Ops, updateEventWaitcntAfter, isVMEMOrFLAT
    <2> HIDE DEF op
    <2> HIDE DEF After
    <2>3. Starts(B, op, After)
        BY <2>1, <2>2, PlainStarted DEF Fits
    <2>. QED  BY <2>1, <2>2, <2>3
<1>8. CASE I.kind = "export"
    <2> DEFINE op == ExpOp(I.event, I, I.uses)
    <2>1. Fits(op, I) /\ op.ev = I.event /\ op.writes = {} /\ op.locks = I.uses
        <3>1. I.event \in Exports(ST, I) /\ I.uses \in SUBSET Vgprs
            BY <1>8 DEF Sensible, ExpEvents, Exports
        <3>. QED  BY <3>1, ExpOpFits
    <2>2. Ops(I) = <<op>> /\ After = updateByEvent(B, I.event, I.uses, {})
        BY <1>8 DEF Ops, updateEventWaitcntAfter, isVMEMOrFLAT
    <2> HIDE DEF op
    <2> HIDE DEF After
    <2>3. Starts(B, op, After)
        BY <2>1, <2>2, PlainStarted DEF Fits
    <2>. QED  BY <2>1, <2>2, <2>3
<1>9. CASE I.kind \in {"alu", "return", "endpgm"}
    BY <1>9 DEF Ops, updateEventWaitcntAfter, isVMEMOrFLAT
<1>. QED  BY <1>1, <1>2, <1>3, <1>4, <1>5, <1>6, <1>7, <1>8, <1>9, InstructionFields
          DEF isVMEMOrFLAT

-----------------------------------------------------------------------------
(* Waits. *)

\* C is B after the wait W.
Waited(B, W, C) ==
    /\ Sound(C, ST) /\ C.UB = B.UB /\ C.Score = B.Score
    /\ \A T \in InstCounterType : C.LB[T] = appliedLB(B, T, W[T])
    /\ C.PendingEvents = {E \in B.PendingEvents : W[eventCounter(ST, E)] # 0}

LEMMA ApplyWaited ==
    ASSUME WellFormed(fn), NEW B, Sound(B, ST), NEW W \in Waitcnt
    PROVE  Waited(B, W, applyWaitcnt(B, W))
<1>1. ST \in Generations /\ B \in BracketsType /\ B.ST = ST
    BY Code DEF Sound, BracketOK
<1>2. Sound(applyWaitcnt(B, W), ST)
    BY <1>1, ApplySound
<1>. QED  BY <1>1, <1>2, ApplyView DEF Waited

LEMMA BeforeWaited ==
    ASSUME WellFormed(fn), NEW B, Sound(B, ST), NEW I \in Instruction, NEW W \in Waitcnt
    PROVE  Waited(B, W, bracketsBefore(B, I, W))
<1> DEFINE D == IF I.kind \in {"call", "return", "endpgm"} THEN B
                ELSE clearVgprVmemTypes(B, needsVmWait(B, I))
<1>1. BracketOK(B, ST) /\ B \in BracketsType
    BY DEF Sound, BracketOK
<1>2. BracketOK(D, ST) /\ SameView(B, D)
    <2>1. SameView(B, B)
        BY DEF SameView
    <2>. QED  BY <1>1, <2>1, ClearOK, ClearView
<1>3. bracketsBefore(B, I, W) = applyWaitcnt(D, W)
    BY DEF bracketsBefore
<1> HIDE DEF D
<1>4. Sound(D, ST)
    BY <1>2, SameSound
<1>5. Waited(D, W, applyWaitcnt(D, W))
    BY <1>4, ApplyWaited
<1>6. \A T : appliedLB(D, T, W[T]) = appliedLB(B, T, W[T])
    BY <1>2 DEF SameView, appliedLB, counterOutOfOrder, hasPendingEvent, hasMixedPendingEvents,
                PendingOn
<1>. QED  BY <1>2, <1>3, <1>5, <1>6 DEF Waited, SameView

\* What a wait has to ask for before I, as far as the brackets know.
Strong(B, I, W) ==
    /\ I.kind = "return" =>
          \A T \in InstCounterType \ {"STORE_CNT"} : PendingOn(B, T) # {} => W[T] = 0
    /\ I.kind \notin {"call", "return", "endpgm"} =>
          /\ I.exec /\ B.PendingEvents \cap ExecReaders # {} => W["EXP_CNT"] = 0
          /\ \A T \in InstCounterType : \A r \in SlotsToWaitFor(B, I, T) :
                Held(B, T, r) => W[T] <= determineWait(B, T, r)
    /\ I.kind = "call" =>
          \A r \in SgprOperands(I) :
              LET T == SmemAccessCounter(ST)
              IN  Held(B, T, r) => W[T] <= determineWait(B, T, r)

LEMMA WaitForLeast ==
    ASSUME NEW st \in Nat, NEW B, BracketOK(B, st), NEW T \in InstCounterType,
           NEW slots, slots \subseteq Slots, T = "STORE_CNT" => slots = {}, NEW r \in slots,
           Held(B, T, r)
    PROVE  /\ waitFor(B, T, slots) <= determineWait(B, T, r)
           /\ determineWait(B, T, r) < ScoreRange(B, T)
           /\ waitFor(B, T, slots) \in Nat /\ determineWait(B, T, r) \in Nat
           /\ ScoreRange(B, T) \in Nat
<1>1. \A x \in slots : determineWait(B, T, x) \in Nat
    <2> SUFFICES ASSUME NEW x \in slots PROVE determineWait(B, T, x) \in Nat
        OBVIOUS
    <2>1. /\ B.ST = st /\ B.Score[T][x] \in Nat /\ B.UB[T] \in Nat /\ B.LB[T] \in Nat
          /\ getWaitCountMax(st, T) - 1 \in Nat
        BY CountMax DEF BracketOK, BracketsType, getWaitCountMax
    <2>2. InBracket(B, T, B.Score[T][x]) => B.UB[T] - B.Score[T][x] \in Nat
        BY <2>1 DEF InBracket
    <2>. QED  BY <2>1, <2>2 DEF determineWait, NoWait, Least
<1> DEFINE S == {NoWait} \cup {determineWait(B, T, x) : x \in slots}
<1>2. S \subseteq Nat /\ S # {} /\ determineWait(B, T, r) \in S
    BY <1>1 DEF NoWait
<1>3. Min(S) \in S /\ Min(S) <= determineWait(B, T, r)
    <2> HIDE DEF S
    <2>. QED  BY <1>2, MinNat
<1>4. determineWait(B, T, r) < ScoreRange(B, T) /\ ScoreRange(B, T) \in Nat
    <2>1. /\ B.ST = st /\ B.Score[T][r] \in Nat /\ B.UB[T] \in Nat /\ B.LB[T] \in Nat
          /\ getWaitCountMax(st, T) - 1 \in Nat
        BY CountMax DEF BracketOK, BracketsType, getWaitCountMax
    <2>2. B.LB[T] < B.Score[T][r] /\ B.Score[T][r] <= B.UB[T]
        BY DEF Held, InBracket
    <2>. QED  BY <2>1, <2>2 DEF determineWait, InBracket, Least, ScoreRange
<1>. QED  BY <1>1, <1>2, <1>3, <1>4 DEF waitFor

\* The waits that are not redundant survive simplification, and combination
\* with those already in the code.
LEMMA GeneratedKeeps ==
    ASSUME NEW B, NEW p \in Places, Hard \in [Places -> Waitcnt], NEW R \in Waitcnt,
           NEW W, W = generatedWait(B, p, simplifyWaitcnt(B, R)), NEW T \in InstCounterType,
           ScoreRange(B, T) \in Nat
    PROVE  /\ W \in Waitcnt /\ W[T] \in Nat /\ W[T] <= Hard[p][T]
           /\ R[T] < ScoreRange(B, T) => W[T] <= R[T]
<1> DEFINE V == simplifyWaitcnt(B, R)
           S == simplifyWaitcnt(B, SoftWait(p))
<1>1. V \in Waitcnt /\ S \in Waitcnt /\ Hard[p] \in Waitcnt /\ combined(V, Hard[p]) \in Waitcnt
    BY SimplifyType, SoftWaitType, CombinedType
<1>2. R[T] < ScoreRange(B, T) => V[T] = R[T]
    BY DEF simplifyWaitcnt, Waitcnt
<1>3. W = combined(combined(V, Hard[p]), S)
    BY DEF generatedWait
<1> HIDE DEF V, S
<1>4. W[T] = Least(Least(V[T], Hard[p][T]), S[T])
    BY <1>3 DEF combined
<1>5. W \in Waitcnt
    BY <1>1, <1>3, CombinedType
<1>6. V[T] \in Nat /\ S[T] \in Nat /\ Hard[p][T] \in Nat
    BY <1>1 DEF Waitcnt
<1>. QED  BY <1>2, <1>4, <1>5, <1>6 DEF Least, Waitcnt

LEMMA RangeNat ==
    ASSUME NEW st, NEW B, BracketOK(B, st), NEW T \in InstCounterType
    PROVE  /\ ScoreRange(B, T) \in Nat
           /\ PendingOn(B, T) # {} /\ getWaitCountMax(st, T) # 0 => ScoreRange(B, T) > 0
<1>1. B.LB[T] \in Nat /\ B.UB[T] \in Nat /\ B.LB[T] <= B.UB[T]
    BY Numbers
<1>. QED  BY <1>1 DEF ScoreRange, BracketOK

LEMMA GeneratedStrong ==
    ASSUME WellFormed(fn), NEW B, Sound(B, ST), NEW I \in Instruction, NEW p \in Places,
           Hard \in [Places -> Waitcnt],
           NEW W, W = generatedWait(B, p, simplifyWaitcnt(B, RequiredWait(B, I)))
    PROVE  /\ W \in Waitcnt /\ \A T \in InstCounterType : W[T] <= Hard[p][T]
           /\ Strong(B, I, W)
<1> DEFINE R == RequiredWait(B, I)
<1>1. BracketOK(B, ST) /\ ST \in Nat /\ B.ST = ST
    BY Code DEF Sound, BracketOK
<1>2. R \in Waitcnt
    BY <1>1, RequiredWaitType
<1>3. ASSUME NEW T \in InstCounterType
      PROVE  /\ W \in Waitcnt /\ W[T] \in Nat /\ W[T] <= Hard[p][T] /\ R[T] \in Nat
             /\ ScoreRange(B, T) \in Nat
             /\ R[T] < ScoreRange(B, T) => W[T] <= R[T]
             /\ T # "STORE_CNT" /\ PendingOn(B, T) # {} => ScoreRange(B, T) > 0
    <2>1. T # "STORE_CNT" => getWaitCountMax(ST, T) # 0
        BY LimitsAssumption DEF getWaitCountMax
    <2>2. R[T] \in Nat
        BY <1>2 DEF Waitcnt
    <2> HIDE DEF R
    <2>3. W = generatedWait(B, p, simplifyWaitcnt(B, R))
        BY DEF R
    <2>. QED  BY <1>1, <1>2, <2>1, <2>2, <2>3, RangeNat, GeneratedKeeps
<1>4. W \in Waitcnt
    <2>1. "EXP_CNT" \in InstCounterType
        BY DEF InstCounterType
    <2>. QED  BY <1>3, <2>1
<1>5. ASSUME I.kind = "return", NEW T \in InstCounterType \ {"STORE_CNT"}, PendingOn(B, T) # {}
      PROVE  W[T] = 0
    <2>1. R[T] = 0
        BY <1>5 DEF RequiredWait, getAllZeroWaitcnt
    <2> HIDE DEF R
    <2>. QED  BY <1>3, <1>5, <2>1
<1>6. ASSUME I.kind \notin {"call", "return", "endpgm"}
      PROVE  \A T \in InstCounterType :
                R[T] = IF T \in ZeroFirst(B, I) THEN 0 ELSE waitFor(B, T, SlotsToWaitFor(B, I, T))
    BY <1>6 DEF RequiredWait
<1>7. ASSUME I.kind = "call"
      PROVE  R[SmemAccessCounter(ST)] = waitFor(B, SmemAccessCounter(ST), SgprOperands(I))
    BY <1>7 DEF RequiredWait, SmemAccessCounter, InstCounterType
<1> HIDE DEF R
<1>8. ASSUME I.kind \notin {"call", "return", "endpgm"}, I.exec,
             B.PendingEvents \cap ExecReaders # {}
      PROVE  W["EXP_CNT"] = 0
    <2>1. "EXP_CNT" \in InstCounterType /\ "EXP_CNT" \in ZeroFirst(B, I)
        BY <1>8 DEF InstCounterType, ZeroFirst
    <2>2. ExecReaders \subseteq WaitEventMask(B.ST)["EXP_CNT"]
        BY DEF ExecReaders, WaitEventMask, WaitEventMaskForInstPreGFX12,
               WaitEventMaskForInstGFX12Plus, ExpEvents
    <2>3. PendingOn(B, "EXP_CNT") # {}
        BY <1>8, <2>2 DEF PendingOn
    <2>4. R["EXP_CNT"] = 0
        BY <1>6, <1>8, <2>1
    <2>. QED  BY <1>3, <2>1, <2>3, <2>4
<1>9. ASSUME I.kind \notin {"call", "return", "endpgm"}, NEW T \in InstCounterType,
             NEW r \in SlotsToWaitFor(B, I, T), Held(B, T, r)
      PROVE  W[T] <= determineWait(B, T, r)
    <2> DEFINE slots == SlotsToWaitFor(B, I, T)
    <2>1. slots \subseteq Slots /\ (T = "STORE_CNT" => slots = {})
        BY <1>1, SlotsToWaitForOK
    <2>2. r \in slots
        BY <1>9
    <2>3. R[T] = 0 \/ R[T] = waitFor(B, T, slots)
        BY <1>6, <1>9
    <2> HIDE DEF slots
    <2>4. /\ waitFor(B, T, slots) <= determineWait(B, T, r)
          /\ determineWait(B, T, r) < ScoreRange(B, T)
          /\ waitFor(B, T, slots) \in Nat /\ determineWait(B, T, r) \in Nat
        BY <1>1, <1>9, <2>1, <2>2, WaitForLeast
    <2>. QED  BY <1>3, <2>3, <2>4
<1>10. ASSUME I.kind = "call", NEW r \in SgprOperands(I), Held(B, SmemAccessCounter(ST), r)
       PROVE  W[SmemAccessCounter(ST)] <= determineWait(B, SmemAccessCounter(ST), r)
    <2> DEFINE T == SmemAccessCounter(ST)
               slots == SgprOperands(I)
    <2>1. slots \subseteq Slots /\ T \in InstCounterType /\ T # "STORE_CNT"
        BY DEF SgprOperands, Slots, SmemAccessCounter, InstCounterType
    <2>2. r \in slots /\ Held(B, T, r) /\ R[T] = waitFor(B, T, slots)
        BY <1>7, <1>10
    <2> HIDE DEF slots, T
    <2>3. /\ waitFor(B, T, slots) <= determineWait(B, T, r)
          /\ determineWait(B, T, r) < ScoreRange(B, T)
          /\ waitFor(B, T, slots) \in Nat /\ determineWait(B, T, r) \in Nat
        BY <1>1, <2>1, <2>2, WaitForLeast
    <2>4. W[T] <= determineWait(B, T, r)
        BY <1>3, <2>1, <2>2, <2>3
    <2>. QED  BY <2>4 DEF T
<1>11. Strong(B, I, W)
    BY <1>5, <1>8, <1>9, <1>10 DEF Strong
<1>. QED  BY <1>3, <1>4, <1>11

-----------------------------------------------------------------------------
(* The operations in flight and the events that are pending. *)

EventsKnown(B, q) == \A k \in 1..Len(q) : q[k].ev \in B.PendingEvents

LEMMA Counted ==
    ASSUME NEW q \in Seq(Operation), NEW T
    PROVE  /\ Outstanding(T, q) \in Nat
           /\ \A k \in 1..Len(q) : CounterOf(q[k]) = T => Outstanding(T, q) # 0
<1> DEFINE D == {k \in 1..Len(q) : CounterOf(q[k]) = T}
<1>1. IsFiniteSet(D)
    <2>1. IsFiniteSet(1..Len(q))
        BY FS_Interval
    <2>2. D \subseteq 1..Len(q)
        OBVIOUS
    <2>. QED  BY <2>1, <2>2, FS_Subset
<1>2. Outstanding(T, q) = Cardinality(D)
    BY DEF Outstanding
<1>3. \A k \in 1..Len(q) : CounterOf(q[k]) = T => k \in D
    OBVIOUS
<1> HIDE DEF D
<1>4. Cardinality(D) \in Nat /\ (Cardinality(D) = 0 <=> D = {})
    BY <1>1, FS_CardinalityType, FS_EmptySet
<1>. QED  BY <1>2, <1>3, <1>4

\* A wait that is met completes what it makes the pass forget.
LEMMA WaitKnown ==
    ASSUME WellFormed(fn), NEW B, Sound(B, ST), NEW W \in Waitcnt, NEW C, Waited(B, W, C),
           NEW q \in Seq(Operation), \A T \in InstCounterType : Outstanding(T, q) <= W[T],
           NEW k \in 1..Len(q), q[k].ev \in B.PendingEvents
    PROVE  q[k].ev \in C.PendingEvents
<1> DEFINE T == CounterOf(q[k])
<1>1. q[k] \in Operation
    BY ElementOfSeq
<1>2. q[k].ev \in WaitEventType
    BY <1>1 DEF Operation
<1>3. T \in InstCounterType
    BY <1>2, EventCounter DEF CounterOf
<1>4. Outstanding(T, q) \in Nat /\ Outstanding(T, q) # 0
    BY Counted
<1>5. W[T] \in Nat /\ Outstanding(T, q) <= W[T]
    BY <1>3 DEF Waitcnt
<1>6. W[T] # 0
    BY <1>4, <1>5
<1>. QED  BY <1>6 DEF Waited, CounterOf

LEMMA Appended ==
    ASSUME NEW S, NEW q \in Seq(S), NEW a \in S, NEW b \in S
    PROVE  /\ q \o <<a>> = Append(q, a)
           /\ q \o (<<a>> \o <<b>>) = Append(Append(q, a), b)
<1>1. <<a>> \in Seq(S) /\ <<b>> \in Seq(S)
    OBVIOUS
<1>2. q \o (<<a>> \o <<b>>) = (q \o <<a>>) \o <<b>>
    BY <1>1, ConcatAssociative
<1>3. q \o <<a>> = Append(q, a) /\ Append(q, a) \in Seq(S)
    BY AppendIsConcat, AppendProperties
<1>4. Append(q, a) \o <<b>> = Append(Append(q, a), b)
    BY <1>3, AppendIsConcat
<1>. QED  BY <1>2, <1>3, <1>4

LEMMA StartKnown ==
    ASSUME NEW B, NEW op \in Operation, NEW C, Starts(B, op, C),
           NEW q \in Seq(Operation), EventsKnown(B, q)
    PROVE  Append(q, op) \in Seq(Operation) /\ EventsKnown(C, Append(q, op))
<1>1. Append(q, op) \in Seq(Operation) /\ Len(Append(q, op)) = Len(q) + 1 /\ Len(q) \in Nat
      /\ \A i \in 1..Len(q) : Append(q, op)[i] = q[i]
      /\ Append(q, op)[Len(q) + 1] = op
    BY AppendProperties, LenProperties
<1>2. C.PendingEvents = B.PendingEvents \cup {op.ev}
    BY DEF Starts
<1>3. ASSUME NEW k \in 1..Len(Append(q, op))
      PROVE  Append(q, op)[k].ev \in C.PendingEvents
    <2>1. k \in 1..Len(q) \/ k = Len(q) + 1
        BY <1>1
    <2>. QED  BY <1>1, <1>2, <2>1 DEF EventsKnown
<1>. QED  BY <1>1, <1>3 DEF EventsKnown

\* The pass knows of the operations an instruction starts.
LEMMA IssueKnown ==
    ASSUME WellFormed(fn), NEW B, Sound(B, ST), NEW I \in Instruction, Sensible(I),
           I.kind # "call", NEW q \in Seq(Operation), EventsKnown(B, q)
    PROVE  /\ q \o Ops(I) \in Seq(Operation)
           /\ EventsKnown(updateEventWaitcntAfter(B, I), q \o Ops(I))
<1> DEFINE After == updateEventWaitcntAfter(B, I)
<1>1. \/ Ops(I) = <<>> /\ After = B
      \/ \E op : Fits(op, I) /\ Ops(I) = <<op>> /\ Starts(B, op, After)
      \/ \E first, second, C :
            /\ Fits(first, I) /\ Fits(second, I) /\ Ops(I) = <<first>> \o <<second>>
            /\ Starts(B, first, C) /\ Starts(C, second, After)
    BY Chain
<1> HIDE DEF After
<1>2. CASE Ops(I) = <<>> /\ After = B
    <2>1. q \o <<>> = q
        BY ConcatEmptySeq
    <2>. QED  BY <1>2, <2>1 DEF After
<1>3. CASE \E op : Fits(op, I) /\ Ops(I) = <<op>> /\ Starts(B, op, After)
    <2>1. PICK op : Fits(op, I) /\ Ops(I) = <<op>> /\ Starts(B, op, After)
        BY <1>3
    <2>2. op \in Operation
        BY <2>1 DEF Fits
    <2>3. q \o Ops(I) = Append(q, op)
        BY <2>1, <2>2, Appended
    <2>4. Append(q, op) \in Seq(Operation) /\ EventsKnown(After, Append(q, op))
        BY <2>1, <2>2, StartKnown
    <2>. QED  BY <2>3, <2>4 DEF After
<1>4. CASE \E first, second, C :
              /\ Fits(first, I) /\ Fits(second, I) /\ Ops(I) = <<first>> \o <<second>>
              /\ Starts(B, first, C) /\ Starts(C, second, After)
    <2>1. PICK first, second, C :
              /\ Fits(first, I) /\ Fits(second, I) /\ Ops(I) = <<first>> \o <<second>>
              /\ Starts(B, first, C) /\ Starts(C, second, After)
        BY <1>4
    <2>2. first \in Operation /\ second \in Operation
        BY <2>1 DEF Fits
    <2>3. q \o Ops(I) = Append(Append(q, first), second)
        <3>1. Ops(I) = <<first>> \o <<second>>
            BY <2>1
        <3>2. q \o (<<first>> \o <<second>>) = Append(Append(q, first), second)
            BY <2>2, Appended
        <3>. QED  BY <3>1, <3>2, Zenon
    <2>4. Append(q, first) \in Seq(Operation) /\ EventsKnown(C, Append(q, first))
        BY <2>1, <2>2, StartKnown
    <2>5. /\ Append(Append(q, first), second) \in Seq(Operation)
          /\ EventsKnown(After, Append(Append(q, first), second))
        BY <2>1, <2>2, <2>4, StartKnown
    <2>. QED  BY <2>3, <2>5 DEF After
<1>. QED  BY <1>1, <1>2, <1>3, <1>4

\* After a call stores may be pending, and nothing else is.
LEMMA CallView ==
    ASSUME WellFormed(fn), NEW B, Sound(B, ST), NEW I \in Instruction, I.kind = "call"
    PROVE  /\ Sound(updateEventWaitcntAfter(B, I), ST)
           /\ WaitEventMask(ST)["STORE_CNT"] \subseteq updateEventWaitcntAfter(B, I).PendingEvents
<1> DEFINE D == applyWaitcnt(B, getAllZeroWaitcnt)
<1>1. updateEventWaitcntAfter(B, I) = setStateOnFunctionEntryOrReturn(D)
    BY DEF updateEventWaitcntAfter, isVMEMOrFLAT
<1>2. Sound(D, ST)
    BY NoWaitsType, Code, ApplySound
<1> HIDE DEF D
<1>3. D \in BracketsType /\ D.ST = ST
    BY <1>2 DEF Sound, BracketOK
<1>4. Sound(setStateOnFunctionEntryOrReturn(D), ST)
    BY <1>2, Code, EntrySound
<1>. QED  BY <1>1, <1>3, <1>4, EntryView

\* The brackets after an instruction are sound.
LEMMA AfterSound ==
    ASSUME WellFormed(fn), NEW B, Sound(B, ST), NEW I \in Instruction, Sensible(I)
    PROVE  Sound(updateEventWaitcntAfter(B, I), ST)
<1>1. CASE I.kind = "call"
    BY <1>1, CallView
<1>2. CASE I.kind # "call"
    <2> DEFINE After == updateEventWaitcntAfter(B, I)
    <2>1. \/ Ops(I) = <<>> /\ After = B
          \/ \E op : Fits(op, I) /\ Ops(I) = <<op>> /\ Starts(B, op, After)
          \/ \E first, second, C :
                /\ Fits(first, I) /\ Fits(second, I) /\ Ops(I) = <<first>> \o <<second>>
                /\ Starts(B, first, C) /\ Starts(C, second, After)
        BY <1>2, Chain
    <2>2. ASSUME NEW D, NEW op, Starts(D, op, After) PROVE Sound(After, ST)
        BY <2>2 DEF Starts
    <2> HIDE DEF After
    <2>3. Sound(After, ST)
        BY <2>1, <2>2
    <2>. QED  BY <2>3 DEF After
<1>. QED  BY <1>1, <1>2

-----------------------------------------------------------------------------
(* The certificate of the pass: brackets C and waits W for every place, which *)
(* the last visit of each block has left and no later one has gone against.  *)

\* The brackets after an instruction, from those before it.
AfterOf(B, I, W) == updateEventWaitcntAfter(bracketsBefore(B, I, W), I)

\* The block being visited, and those whose last visit still counts.
Visiting == phase = "pass" /\ at[2] > 0
Settled(b) == b \notin Dirty /\ ~(Visiting /\ at[1] = b)

\* The visit of b began with the brackets it has got, or others as strict.
Entered(C, b) ==
    IF b \in DOMAIN Incoming
    THEN Covers(C[<<b, 1>>], Incoming[b]) /\ Covers(Incoming[b], C[<<b, 1>>])
    ELSE C[<<b, 1>>] = NewBrackets(ST)

Done(C, W, b, k) ==
    /\ Hard[<<b, k>>] = Encoded(W[<<b, k>>])
    /\ Strong(C[<<b, k>>], fn.code[b][k], W[<<b, k>>])
    /\ C[<<b, k + 1>>] = AfterOf(C[<<b, k>>], fn.code[b][k], W[<<b, k>>])

EndOf(b) == <<b, Length(b) + 1>>

\* What b ends with has reached its successors.
Left(C, W, b) ==
    LET B == applyWaitcnt(C[EndOf(b)], W[EndOf(b)]) IN
    /\ Hard[EndOf(b)] = Encoded(W[EndOf(b)])
    /\ \/ B.PendingEvents = {}
       \/ \A s \in fn.succ[b] : s \in DOMAIN Incoming /\ Covers(Incoming[s], B)

Cert(C, W) ==
    /\ C \in [Places -> BracketsType] /\ W \in [Places -> Waitcnt]
    /\ \A p \in Places : Sound(C[p], ST)
    /\ \A b \in Blocks : Settled(b) =>
          /\ Entered(C, b) /\ Left(C, W, b)
          /\ \A k \in 1..Length(b) : Done(C, W, b, k)
    /\ Visiting =>
          /\ C[at] = ScoreBrackets /\ Entered(C, at[1])
          /\ \A k \in 1..at[2] - 1 : Done(C, W, at[1], k)

\* What is known of the pass itself: a block to be visited comes later in the
\* round or there will be another, and a called function begins with its wait.
PassOK ==
    /\ Sound(ScoreBrackets, ST) /\ \A b \in DOMAIN Incoming : Sound(Incoming[b], ST)
    /\ phase = "pass" => \A x \in Dirty : x <= at[1] => Repeat
    /\ phase # "pass" => Dirty = {}
    /\ ~fn.isEntryFunction =>
          /\ \A T \in InstCounterType \ {"STORE_CNT"} : Hard[<<1, 1>>][T] = 0
          /\ 1 \in DOMAIN Incoming
          /\ WaitEventMask(ST)["STORE_CNT"] \subseteq Incoming[1].PendingEvents

CertInv(C, W) == IInv /\ PassOK /\ Cert(C, W)

\* A step of the pass gives new brackets to no place but the one it goes to.
KeptBut(C, D, there) == \A p \in Places : p # there => D[p] = C[p]

\* What the code and the target say does not change.
LEMMA SameAfter ==
    ASSUME fn' = fn, NEW B, NEW I, NEW W
    PROVE  /\ AfterOf(B, I, W)' = AfterOf(B, I, W) /\ Encoded(W)' = Encoded(W)
           /\ Strong(B, I, W)' <=> Strong(B, I, W)
<1>1. bracketsBefore(B, I, W)' = bracketsBefore(B, I, W)
    BY DEF bracketsBefore, needsVmWait, ST
<1>2. \A D : updateEventWaitcntAfter(D, I)' = updateEventWaitcntAfter(D, I)
    BY DEF updateEventWaitcntAfter, vmemEvent, flatEvents, bufferEvents, getVmemWaitEventType,
           ST, isVMEMOrFLAT, mayAccessVMEMThroughFlat, mayAccessLDSThroughFlat, accessEvent,
           ldsMarks
<1>3. AfterOf(B, I, W)' = AfterOf(B, I, W)
    BY <1>1, <1>2 DEF AfterOf
<1>4. Encoded(W)' = Encoded(W)
    BY DEF Encoded, ST
<1>5. \A T : SlotsToWaitFor(B, I, T)' = SlotsToWaitFor(B, I, T)
    BY DEF SlotsToWaitFor, needsVmWait, ST
<1>6. Strong(B, I, W)' <=> Strong(B, I, W)
    BY <1>5 DEF Strong, ST
<1>. QED  BY <1>3, <1>4, <1>6

\* An instruction whose place keeps its brackets and its wait stays done.
LEMMA DoneKept ==
    ASSUME fn' = fn, NEW C, NEW W, NEW D, NEW X, NEW b, NEW k, Done(C, W, b, k),
           D[<<b, k>>] = C[<<b, k>>], D[<<b, k + 1>>] = C[<<b, k + 1>>],
           X[<<b, k>>] = W[<<b, k>>], Hard'[<<b, k>>] = Hard[<<b, k>>]
    PROVE  Done(D, X, b, k)'
BY SameAfter DEF Done

\* So does the end of a block while the brackets of its successors grow.
LEMMA LeftKept ==
    ASSUME fn' = fn, WellFormed(fn), NEW C, NEW W, NEW D, NEW X, NEW b \in Blocks, Left(C, W, b),
           D[EndOf(b)] = C[EndOf(b)], X[EndOf(b)] = W[EndOf(b)],
           Hard'[EndOf(b)] = Hard[EndOf(b)],
           Sound(C[EndOf(b)], ST), W[EndOf(b)] \in Waitcnt,
           \A s \in DOMAIN Incoming :
              /\ s \in DOMAIN Incoming' /\ Covers(Incoming'[s], Incoming[s])
              /\ Sound(Incoming[s], ST) /\ Sound(Incoming'[s], ST)
    PROVE  Left(D, X, b)'
<1> DEFINE B == applyWaitcnt(C[EndOf(b)], W[EndOf(b)])
<1>1. EndOf(b)' = EndOf(b)
    BY DEF EndOf, Length
<1>2. Sound(B, ST)
    BY ApplySound, Code
<1>3. Hard'[EndOf(b)] = Encoded(X[EndOf(b)])'
    BY <1>1, SameAfter DEF Left
<1>4. CASE B.PendingEvents = {}
    BY <1>1, <1>3, <1>4 DEF Left
<1>5. CASE \A s \in fn.succ[b] : s \in DOMAIN Incoming /\ Covers(Incoming[s], B)
    <2>1. ASSUME NEW s \in fn.succ[b]
          PROVE  s \in DOMAIN Incoming' /\ Covers(Incoming'[s], B)
        <3>1. s \in DOMAIN Incoming /\ Covers(Incoming[s], B)
            BY <1>5
        <3>2. /\ BracketOK(Incoming[s], ST) /\ BracketOK(Incoming'[s], ST) /\ BracketOK(B, ST)
              /\ Covers(Incoming'[s], Incoming[s])
            BY <1>2, <3>1 DEF Sound
        <3> HIDE DEF B
        <3>. QED  BY <3>1, <3>2, CoversTrans
    <2>. QED  BY <1>1, <1>3, <2>1 DEF Left
<1>. QED  BY <1>4, <1>5 DEF Left

\* A block keeps what its visit began with while no stricter brackets come.
LEMMA EnteredKept ==
    ASSUME fn' = fn, NEW C, NEW D, NEW b, Entered(C, b), D[<<b, 1>>] = C[<<b, 1>>],
           Sound(C[<<b, 1>>], ST),
           b \in DOMAIN Incoming =>
              /\ b \in DOMAIN Incoming' /\ Covers(Incoming'[b], Incoming[b])
              /\ Sound(Incoming[b], ST) /\ Sound(Incoming'[b], ST),
           b \in DOMAIN Incoming' => b \in DOMAIN Incoming /\ Covers(Incoming[b], Incoming'[b])
    PROVE  Entered(D, b)'
<1>1. CASE b \in DOMAIN Incoming'
    <2>1. /\ b \in DOMAIN Incoming /\ Covers(Incoming[b], Incoming'[b])
          /\ Covers(Incoming'[b], Incoming[b])
          /\ Covers(C[<<b, 1>>], Incoming[b]) /\ Covers(Incoming[b], C[<<b, 1>>])
        BY <1>1 DEF Entered
    <2>2. /\ BracketOK(Incoming[b], ST) /\ BracketOK(Incoming'[b], ST)
          /\ BracketOK(C[<<b, 1>>], ST)
        BY <2>1 DEF Sound
    <2>3. Covers(C[<<b, 1>>], Incoming'[b]) /\ Covers(Incoming'[b], C[<<b, 1>>])
        BY <2>1, <2>2, CoversTrans
    <2>. QED  BY <1>1, <2>3 DEF Entered
<1>2. CASE b \notin DOMAIN Incoming'
    BY <1>2, SameFunction DEF Entered
<1>. QED  BY <1>1, <1>2

\* A block visited earlier keeps its certificate while another one is visited.
LEMMA OthersKept ==
    ASSUME fn' = fn, NEW C, NEW W, CertInv(C, W), NEW D, NEW X, NEW b \in Blocks, Settled(b),
           \A p \in Places : p[1] = b => D[p] = C[p] /\ X[p] = W[p] /\ Hard'[p] = Hard[p],
           \A s \in DOMAIN Incoming :
              /\ s \in DOMAIN Incoming' /\ Covers(Incoming'[s], Incoming[s])
              /\ Sound(Incoming'[s], ST),
           b \in DOMAIN Incoming' => b \in DOMAIN Incoming /\ Covers(Incoming[b], Incoming'[b])
    PROVE  /\ Entered(D, b)' /\ Left(D, X, b)'
           /\ \A k \in 1..Length(b) : Done(D, X, b, k)'
<1>1. /\ WellFormed(fn) /\ Cert(C, W) /\ Entered(C, b) /\ Left(C, W, b)
      /\ \A k \in 1..Length(b) : Done(C, W, b, k)
      /\ \A p \in Places : Sound(C[p], ST) /\ W[p] \in Waitcnt
      /\ \A s \in DOMAIN Incoming : Sound(Incoming[s], ST)
    BY DEF CertInv, IInv, VariableTypes, PassOK, Cert
<1>2. Length(b) \in Nat
    BY <1>1, Code
<1>3. ASSUME NEW k \in 1..Length(b) + 1
      PROVE  /\ <<b, k>> \in Places /\ D[<<b, k>>] = C[<<b, k>>]
             /\ X[<<b, k>>] = W[<<b, k>>] /\ Hard'[<<b, k>>] = Hard[<<b, k>>]
    <2>1. <<b, k>> \in Places
        BY <1>1, <1>2, PlaceFacts
    <2>. QED  BY <2>1
<1>4. Entered(D, b)'
    <2>1. D[<<b, 1>>] = C[<<b, 1>>] /\ Sound(C[<<b, 1>>], ST)
        BY <1>1, <1>2, <1>3
    <2>2. b \in DOMAIN Incoming =>
             /\ b \in DOMAIN Incoming' /\ Covers(Incoming'[b], Incoming[b])
             /\ Sound(Incoming[b], ST) /\ Sound(Incoming'[b], ST)
        BY <1>1
    <2>. QED  BY <1>1, <2>1, <2>2, EnteredKept
<1>5. Left(D, X, b)'
    <2>1. Length(b) + 1 \in 1..Length(b) + 1
        BY <1>2
    <2>2. /\ EndOf(b) \in Places /\ D[EndOf(b)] = C[EndOf(b)] /\ X[EndOf(b)] = W[EndOf(b)]
          /\ Hard'[EndOf(b)] = Hard[EndOf(b)]
        BY <1>3, <2>1 DEF EndOf
    <2>3. Sound(C[EndOf(b)], ST) /\ W[EndOf(b)] \in Waitcnt
        BY <1>1, <2>2
    <2>. QED  BY <1>1, <2>2, <2>3, LeftKept
<1>6. ASSUME NEW k \in 1..Length(b)
      PROVE  Done(D, X, b, k)'
    <2>1. k \in 1..Length(b) + 1 /\ k + 1 \in 1..Length(b) + 1
        BY <1>2
    <2>. QED  BY <1>1, <1>3, <2>1, DoneKept
<1>. QED  BY <1>4, <1>5, <1>6

\* An encoded wait asks for no less.
LEMMA EncodedLeast ==
    ASSUME NEW W \in Waitcnt, NEW T \in InstCounterType
    PROVE  Encoded(W)[T] <= W[T] /\ Encoded(W)[T] \in Nat /\ W[T] \in Nat
BY LimitsAssumption DEF Encoded, Waitcnt, Least

\* A step of the wave leaves the certificate as it is.
LEMMA WaveCert ==
    ASSUME NEW C, NEW W, CertInv(C, W), UNCHANGED <<fn, passVars>>,
           phase # "pass", phase' # "pass"
    PROVE  PassOK' /\ Cert(C, W)'
<1>1. /\ WellFormed(fn) /\ fn' = fn /\ Dirty' = Dirty /\ Incoming' = Incoming /\ Hard' = Hard
      /\ ScoreBrackets' = ScoreBrackets
    BY DEF CertInv, IInv, VariableTypes, passVars
<1>2. PassOK'
    BY <1>1, SameFunction DEF CertInv, PassOK
<1>3. ~Visiting /\ ~Visiting'
    BY DEF Visiting
<1>4. \A s \in DOMAIN Incoming :
         s \in DOMAIN Incoming' /\ Covers(Incoming'[s], Incoming[s]) /\ Sound(Incoming'[s], ST)
    BY <1>1, CoversItself DEF CertInv, PassOK, Sound
<1>5. ASSUME NEW b \in Blocks, Settled(b)'
      PROVE  /\ Entered(C, b)' /\ Left(C, W, b)'
             /\ \A k \in 1..Length(b) : Done(C, W, b, k)'
    <2>1. Settled(b)
        BY <1>1, <1>3, <1>5 DEF Settled
    <2>2. b \in DOMAIN Incoming' => b \in DOMAIN Incoming /\ Covers(Incoming[b], Incoming'[b])
        BY <1>1, <1>4
    <2>3. \A p \in Places : p[1] = b => C[p] = C[p] /\ W[p] = W[p] /\ Hard'[p] = Hard[p]
        BY <1>1
    <2>4. fn' = fn
        BY <1>1
    <2>. QED  BY <1>4, <2>1, <2>2, <2>3, <2>4, OthersKept
<1>6. \A b : Length(b)' = Length(b)
    BY <1>1 DEF Length
<1>. QED  BY <1>1, <1>2, <1>3, <1>5, <1>6, SameFunction DEF CertInv, Cert

LEMMA InitCert == Init => PassOK /\ \E C, W : Cert(C, W)
<1>. SUFFICES ASSUME Init PROVE PassOK /\ \E C, W : Cert(C, W)
    OBVIOUS
<1>1. IInv /\ WellFormed(fn) /\ ST \in Generations
    BY InitInv, Code DEF IInv, VariableTypes
<1>2. Sound(NewBrackets(ST), ST) /\ NewBrackets(ST) \in BracketsType
    BY <1>1, NewView DEF Sound, BracketOK
<1>3. /\ Sound(setStateOnFunctionEntryOrReturn(NewBrackets(ST)), ST)
      /\ WaitEventMask(ST)["STORE_CNT"]
            \subseteq setStateOnFunctionEntryOrReturn(NewBrackets(ST)).PendingEvents
    <2>1. NewBrackets(ST).ST = ST
        BY DEF NewBrackets
    <2>. QED  BY <1>1, <1>2, <2>1, EntrySound, EntryView
<1>4. PassOK
    <2>1. phase = "pass" /\ at[1] = 0 /\ Dirty = Blocks
        BY DEF Init
    <2>2. ASSUME ~fn.isEntryFunction
          PROVE  /\ \A T \in InstCounterType \ {"STORE_CNT"} : Hard[<<1, 1>>][T] = 0
                 /\ 1 \in DOMAIN Incoming
                 /\ WaitEventMask(ST)["STORE_CNT"] \subseteq Incoming[1].PendingEvents
        <3>1. <<1, 1>> \in Places
            BY <1>1, PlaceFacts
        <3>2. Hard[<<1, 1>>] = getAllZeroWaitcnt
            BY <2>2, <3>1 DEF Init
        <3>3. 1 \in DOMAIN Incoming
              /\ Incoming[1] = setStateOnFunctionEntryOrReturn(NewBrackets(ST))
            BY <2>2 DEF Init
        <3>. QED  BY <1>3, <3>2, <3>3 DEF getAllZeroWaitcnt
    <2>3. /\ \A b \in DOMAIN Incoming : Sound(Incoming[b], ST)
          /\ Sound(ScoreBrackets, ST)
        BY <1>2, <1>3 DEF Init
    <2>4. \A x \in Dirty : ~(x <= at[1])
        BY <2>1 DEF Blocks
    <2>. QED  BY <2>1, <2>2, <2>3, <2>4 DEF PassOK
<1>5. Cert([p \in Places |-> NewBrackets(ST)], [p \in Places |-> NoWaits])
    <2>1. ~Visiting /\ \A b \in Blocks : ~Settled(b)
        BY DEF Init, Visiting, Settled
    <2>2. [p \in Places |-> NoWaits] \in [Places -> Waitcnt]
        BY NoWaitsType
    <2>. QED  BY <1>2, <2>1, <2>2 DEF Cert
<1>. QED  BY <1>4, <1>5

\* The brackets that blocks start with are the same after a step.
LEMMA SameIncoming ==
    ASSUME NEW C, NEW W, CertInv(C, W), Incoming' = Incoming, fn' = fn
    PROVE  /\ \A s \in DOMAIN Incoming :
                 /\ s \in DOMAIN Incoming' /\ Covers(Incoming'[s], Incoming[s])
                 /\ Sound(Incoming'[s], ST)
           /\ \A b : b \in DOMAIN Incoming' =>
                        b \in DOMAIN Incoming /\ Covers(Incoming[b], Incoming'[b])
BY CoversItself DEF CertInv, PassOK, Sound

\* A round starts again, or the pass is over: no block has been visited.
LEMMA RoundCert ==
    ASSUME NEW C, NEW W, CertInv(C, W), RepeatRound \/ FinishPass
    PROVE  PassOK' /\ Cert(C, W)'
<1>1. /\ WellFormed(fn) /\ fn' = fn /\ Dirty' = Dirty /\ Incoming' = Incoming /\ Hard' = Hard
      /\ ScoreBrackets' = ScoreBrackets /\ phase = "pass" /\ at[2] = 0
      /\ \A b \in Dirty : b <= at[1]
    BY DEF CertInv, IInv, VariableTypes, passVars, RepeatRound, FinishPass, EndOfRound
<1>2. ~Visiting /\ ~Visiting'
    BY <1>1 DEF Visiting, RepeatRound, FinishPass
<1>3. PassOK'
    <2>1. phase' = "pass" => \A x \in Dirty' : x <= at'[1] => Repeat'
        <3>1. phase' = "pass" => at'[1] = 0
            BY DEF RepeatRound, FinishPass
        <3>2. \A x \in Dirty' : ~(x <= 0)
            BY <1>1 DEF CertInv, IInv, VariableTypes, Blocks
        <3>. QED  BY <3>1, <3>2
    <2>2. phase' # "pass" => Dirty' = {}
        BY <1>1 DEF RepeatRound, FinishPass, CertInv, PassOK
    <2>. QED  BY <1>1, <2>1, <2>2, SameFunction DEF CertInv, PassOK
<1>4. ASSUME NEW b \in Blocks, Settled(b)'
      PROVE  /\ Entered(C, b)' /\ Left(C, W, b)'
             /\ \A k \in 1..Length(b) : Done(C, W, b, k)'
    <2>1. Settled(b)
        BY <1>1, <1>2, <1>4 DEF Settled
    <2>2. \A p \in Places : p[1] = b => C[p] = C[p] /\ W[p] = W[p] /\ Hard'[p] = Hard[p]
        BY <1>1
    <2>3. /\ \A s \in DOMAIN Incoming :
                /\ s \in DOMAIN Incoming' /\ Covers(Incoming'[s], Incoming[s])
                /\ Sound(Incoming'[s], ST)
          /\ (b \in DOMAIN Incoming' => b \in DOMAIN Incoming /\ Covers(Incoming[b], Incoming'[b]))
        BY <1>1, SameIncoming
    <2>4. fn' = fn
        BY <1>1
    <2>. QED  BY <2>1, <2>2, <2>3, <2>4, OthersKept
<1>5. \A b : Length(b)' = Length(b)
    BY <1>1 DEF Length
<1>. QED  BY <1>1, <1>2, <1>3, <1>4, <1>5, SameFunction DEF CertInv, Cert

\* A visit begins: the certificate of the block is given up.
LEMMA StartCert ==
    ASSUME NEW C, NEW W, CertInv(C, W), StartBlock
    PROVE  PassOK' /\ \E D : Cert(D, W)' /\ KeptBut(C, D, at')
<1>1. /\ WellFormed(fn) /\ fn' = fn /\ Incoming' = Incoming /\ Hard' = Hard
      /\ phase = "pass" /\ phase' = "pass" /\ at[2] = 0 /\ Repeat' = Repeat
      /\ PassOK /\ Cert(C, W) /\ IInv
    BY DEF CertInv, IInv, VariableTypes, StartBlock
<1>2. PICK b0 \in Dirty :
         /\ b0 > at[1] /\ \A x \in Dirty : x > at[1] => b0 <= x
         /\ at' = <<b0, 1>> /\ Dirty' = Dirty \ {b0}
         /\ ScoreBrackets' = IF b0 \in DOMAIN Incoming THEN Incoming[b0] ELSE NewBrackets(ST)
    BY DEF StartBlock
<1>3. /\ b0 \in Blocks /\ Length(b0) \in Nat /\ <<b0, 1>> \in Places /\ ST \in Generations
      /\ Dirty \subseteq Blocks /\ at[1] \in Nat
    <2>1. b0 \in Blocks /\ Dirty \subseteq Blocks /\ at[1] \in Nat
        BY <1>1 DEF IInv, VariableTypes
    <2>2. Length(b0) \in Nat /\ 1 <= Length(b0) + 1 /\ ST \in Generations
        BY <1>1, <2>1, Code
    <2>. QED  BY <1>1, <2>1, <2>2, PlaceFacts
<1>4. Sound(ScoreBrackets', ST) /\ ScoreBrackets' \in BracketsType
    <2>1. Sound(NewBrackets(ST), ST) /\ \A b \in DOMAIN Incoming : Sound(Incoming[b], ST)
        BY <1>1, <1>3, NewView DEF PassOK
    <2>2. Sound(ScoreBrackets', ST)
        BY <1>2, <2>1
    <2>. QED  BY <2>2 DEF Sound, BracketOK
<1>5. PassOK'
    <2>1. \A x \in Dirty' : x <= at'[1] => Repeat'
        <3>. SUFFICES ASSUME NEW x \in Dirty', x <= at'[1] PROVE Repeat
            BY <1>1
        <3>1. x \in Dirty /\ x # b0 /\ x <= b0 /\ x \in Nat /\ b0 \in Nat
            BY <1>2, <1>3 DEF Blocks
        <3>2. x <= at[1]
            BY <1>2, <1>3, <3>1
        <3>. QED  BY <1>1, <3>1, <3>2 DEF PassOK
    <2>. QED  BY <1>1, <1>4, <2>1, SameFunction DEF PassOK
<1>6. PICK D : D = [C EXCEPT ![<<b0, 1>>] = ScoreBrackets']
    OBVIOUS
<1>7. /\ D \in [Places -> BracketsType] /\ \A p \in Places : Sound(D[p], ST)
      /\ \A p \in Places : p[1] # b0 => D[p] = C[p]
      /\ D[<<b0, 1>>] = ScoreBrackets' /\ C \in [Places -> BracketsType]
      /\ W \in [Places -> Waitcnt]
    <2>1. /\ C \in [Places -> BracketsType] /\ \A p \in Places : Sound(C[p], ST)
          /\ W \in [Places -> Waitcnt]
        BY <1>1 DEF Cert
    <2>2. D[<<b0, 1>>] = ScoreBrackets' /\ \A p \in Places : p # <<b0, 1>> => D[p] = C[p]
        BY <1>3, <1>6, <2>1
    <2>3. \A p \in Places : p[1] # b0 => p # <<b0, 1>>
        OBVIOUS
    <2>4. D \in [Places -> BracketsType]
        BY <1>3, <1>4, <1>6, <2>1
    <2>. QED  BY <1>4, <2>1, <2>2, <2>3, <2>4
<1>8. ASSUME NEW b \in Blocks, Settled(b)'
      PROVE  /\ Entered(D, b)' /\ Left(D, W, b)'
             /\ \A k \in 1..Length(b) : Done(D, W, b, k)'
    <2>1. b # b0 /\ Settled(b)
        BY <1>1, <1>2, <1>8 DEF Settled, Visiting
    <2>2. \A p \in Places : p[1] = b => D[p] = C[p] /\ W[p] = W[p] /\ Hard'[p] = Hard[p]
        BY <1>1, <1>7, <2>1
    <2>3. /\ \A s \in DOMAIN Incoming :
                /\ s \in DOMAIN Incoming' /\ Covers(Incoming'[s], Incoming[s])
                /\ Sound(Incoming'[s], ST)
          /\ (b \in DOMAIN Incoming' => b \in DOMAIN Incoming /\ Covers(Incoming[b], Incoming'[b]))
        BY <1>1, SameIncoming
    <2>4. fn' = fn
        BY <1>1
    <2>. QED  BY <2>1, <2>2, <2>3, <2>4, OthersKept
<1>9. D[at'] = ScoreBrackets' /\ Entered(D, at[1])'
    <2>1. at' = <<b0, 1>> /\ at'[1] = b0
        BY <1>2
    <2>2. b0 \in DOMAIN Incoming => Covers(Incoming[b0], Incoming[b0])
        BY <1>1, CoversItself DEF PassOK, Sound
    <2>3. IF b0 \in DOMAIN Incoming'
          THEN Covers(D[<<b0, 1>>], Incoming'[b0]) /\ Covers(Incoming'[b0], D[<<b0, 1>>])
          ELSE D[<<b0, 1>>] = NewBrackets(ST)
        BY <1>1, <1>2, <1>7, <2>2
    <2>. QED  BY <1>1, <1>7, <2>1, <2>3, SameFunction DEF Entered
<1>10. \A k \in 1..at'[2] - 1 : Done(D, W, at[1], k)'
    BY <1>2
<1>11. \A b : Length(b)' = Length(b)
    BY <1>1 DEF Length
<1>12. Cert(D, W)'
    BY <1>1, <1>7, <1>8, <1>9, <1>10, <1>11, SameFunction DEF Cert
<1>13. KeptBut(C, D, at')
    BY <1>2, <1>3, <1>6, <1>7 DEF KeptBut
<1>. QED  BY <1>5, <1>12, <1>13

\* A wait that is generated anew keeps the wait a called function begins with.
LEMMA EntryWaitKept ==
    ASSUME NEW C, NEW W, CertInv(C, W), NEW w \in Waitcnt, at \in Places,
           \A T \in InstCounterType : w[T] <= Hard[at][T],
           Hard' = [Hard EXCEPT ![at] = Encoded(w)], ~fn.isEntryFunction,
           NEW T \in InstCounterType \ {"STORE_CNT"}
    PROVE  Hard'[<<1, 1>>][T] = 0
<1>1. Hard \in [Places -> Waitcnt] /\ Hard[<<1, 1>>][T] = 0
    BY DEF CertInv, IInv, VariableTypes, PassOK
<1>2. Encoded(w)[T] <= w[T] /\ Encoded(w)[T] \in Nat /\ w[T] \in Nat
    BY EncodedLeast
<1>3. CASE at = <<1, 1>>
    <2>1. Hard'[<<1, 1>>] = Encoded(w)
        BY <1>1, <1>3
    <2>2. w[T] <= 0
        BY <1>1, <1>3
    <2>. QED  BY <1>2, <2>1, <2>2
<1>4. CASE at # <<1, 1>>
    <2>1. Hard'[<<1, 1>>] = Hard[<<1, 1>>]
        BY <1>1, <1>4
    <2>. QED  BY <1>1, <2>1
<1>. QED  BY <1>3, <1>4

\* An instruction is visited: its place and the next one get their part.
LEMMA VisitCert ==
    ASSUME NEW C, NEW W, CertInv(C, W), VisitInstruction
    PROVE  PassOK' /\ \E D, X : Cert(D, X)' /\ KeptBut(C, D, at')
<1>1. /\ WellFormed(fn) /\ fn' = fn /\ Incoming' = Incoming /\ Dirty' = Dirty
      /\ phase = "pass" /\ phase' = "pass" /\ Repeat' = Repeat /\ Visiting
      /\ PassOK /\ Cert(C, W) /\ IInv /\ at[2] > 0 /\ at[2] <= Length(at[1])
      /\ Hard \in [Places -> Waitcnt]
    BY DEF CertInv, IInv, VariableTypes, VisitInstruction, Visiting
<1>2. /\ at \in Places /\ at[1] \in Blocks /\ at[2] \in Nat /\ at = <<at[1], at[2]>>
      /\ Inst \in Instruction /\ <<at[1], at[2] + 1>> \in Places /\ Length(at[1]) \in Nat
    BY <1>1, InstOK
<1>3. Sensible(Inst)
    <2>1. at[1] \in 1..Len(fn.code) /\ at[2] \in 1..Length(at[1])
        BY <1>1, <1>2 DEF Blocks
    <2>. QED  BY <1>1, <2>1 DEF WellFormed, Inst, Length
<1>4. PICK w : w = generatedWait(ScoreBrackets, at,
                        simplifyWaitcnt(ScoreBrackets, RequiredWait(ScoreBrackets, Inst)))
    OBVIOUS
<1>5. /\ Hard' = [Hard EXCEPT ![at] = Encoded(w)]
      /\ ScoreBrackets' = AfterOf(ScoreBrackets, Inst, w)
      /\ at' = <<at[1], at[2] + 1>>
    BY <1>4 DEF VisitInstruction, AfterOf
<1>6. Sound(ScoreBrackets, ST) /\ C[at] = ScoreBrackets
    BY <1>1 DEF PassOK, Cert
<1>7. /\ w \in Waitcnt /\ \A T \in InstCounterType : w[T] <= Hard[at][T]
      /\ Strong(ScoreBrackets, Inst, w)
    BY <1>1, <1>2, <1>4, <1>6, GeneratedStrong
<1>8. Sound(ScoreBrackets', ST) /\ ScoreBrackets' \in BracketsType
    <2>1. Sound(bracketsBefore(ScoreBrackets, Inst, w), ST)
        BY <1>1, <1>2, <1>6, <1>7, BeforeWaited DEF Waited
    <2>2. Sound(AfterOf(ScoreBrackets, Inst, w), ST)
        BY <1>1, <1>2, <1>3, <2>1, AfterSound DEF AfterOf
    <2>. QED  BY <1>5, <2>2 DEF Sound, BracketOK
<1>9. PassOK'
    <2>1. \A x \in Dirty' : x <= at'[1] => Repeat'
        BY <1>1, <1>5 DEF PassOK
    <2>2. ~fn.isEntryFunction => \A T \in InstCounterType \ {"STORE_CNT"} : Hard'[<<1, 1>>][T] = 0
        BY <1>2, <1>5, <1>7, EntryWaitKept
    <2>. QED  BY <1>1, <1>8, <2>1, <2>2, SameFunction DEF PassOK
<1>10. PICK D : D = [C EXCEPT ![<<at[1], at[2] + 1>>] = ScoreBrackets']
    OBVIOUS
<1>11. PICK X : X = [W EXCEPT ![at] = w]
    OBVIOUS
<1>12. /\ C \in [Places -> BracketsType] /\ W \in [Places -> Waitcnt]
       /\ \A p \in Places : Sound(C[p], ST)
    BY <1>1 DEF Cert
<1>13. /\ D \in [Places -> BracketsType] /\ \A p \in Places : Sound(D[p], ST)
       /\ D[<<at[1], at[2] + 1>>] = ScoreBrackets'
       /\ \A p \in Places : p # <<at[1], at[2] + 1>> => D[p] = C[p]
    <2>1. /\ D[<<at[1], at[2] + 1>>] = ScoreBrackets'
          /\ \A p \in Places : p # <<at[1], at[2] + 1>> => D[p] = C[p]
        BY <1>2, <1>10, <1>12
    <2>2. D \in [Places -> BracketsType]
        BY <1>2, <1>8, <1>10, <1>12
    <2>. QED  BY <1>8, <1>12, <2>1, <2>2
<1>14. /\ X \in [Places -> Waitcnt] /\ X[at] = w
       /\ \A p \in Places : p # at => X[p] = W[p] /\ Hard'[p] = Hard[p]
       /\ Hard'[at] = Encoded(w)
    BY <1>1, <1>2, <1>5, <1>7, <1>11, <1>12
<1>15. ASSUME NEW b \in Blocks, Settled(b)'
       PROVE  /\ Entered(D, b)' /\ Left(D, X, b)'
              /\ \A k \in 1..Length(b) : Done(D, X, b, k)'
    <2>1. b # at[1] /\ Settled(b)
        <3>1. Visiting' /\ at'[1] = at[1]
            BY <1>1, <1>2, <1>5 DEF Visiting
        <3>. QED  BY <1>1, <1>15, <3>1 DEF Settled
    <2>2. \A p \in Places : p[1] = b => D[p] = C[p] /\ X[p] = W[p] /\ Hard'[p] = Hard[p]
        <3>. SUFFICES ASSUME NEW p \in Places, p[1] = b
                      PROVE  D[p] = C[p] /\ X[p] = W[p] /\ Hard'[p] = Hard[p]
            OBVIOUS
        <3>1. p # at /\ p # <<at[1], at[2] + 1>>
            BY <2>1
        <3>. QED  BY <1>13, <1>14, <3>1
    <2>3. /\ \A s \in DOMAIN Incoming :
                /\ s \in DOMAIN Incoming' /\ Covers(Incoming'[s], Incoming[s])
                /\ Sound(Incoming'[s], ST)
          /\ (b \in DOMAIN Incoming' => b \in DOMAIN Incoming /\ Covers(Incoming[b], Incoming'[b]))
        BY <1>1, SameIncoming
    <2>4. fn' = fn
        BY <1>1
    <2>. QED  BY <2>1, <2>2, <2>3, <2>4, OthersKept
<1>16. D[at'] = ScoreBrackets'
    BY <1>5, <1>13
<1>17. Entered(D, at[1])'
    <2>1. <<at[1], 1>> \in Places
        <3>1. 1 <= Length(at[1]) + 1
            BY <1>2
        <3>. QED  BY <1>1, <1>2, <3>1, PlaceFacts
    <2>2. <<at[1], 1>> # <<at[1], at[2] + 1>>
        BY <1>1, <1>2
    <2>3. D[<<at[1], 1>>] = C[<<at[1], 1>>]
        BY <1>13, <2>1, <2>2
    <2>4. at'[1] = at[1]
        BY <1>5
    <2>5. Entered(C, at[1])
        BY <1>1 DEF Cert
    <2>. QED  BY <1>1, <2>3, <2>4, <2>5, SameFunction DEF Entered
<1>18. ASSUME NEW k \in 1..at'[2] - 1
       PROVE  Done(D, X, at[1], k)'
    <2>1. k \in 1..at[2] /\ at'[1] = at[1] /\ k \in Nat /\ k > 0 /\ k <= Length(at[1])
        BY <1>1, <1>2, <1>5, <1>18
    <2>2. <<at[1], k>> \in Places /\ <<at[1], k + 1>> \in Places
        BY <1>1, <1>2, <2>1, PlaceFacts
    <2>3. D[<<at[1], k>>] = C[<<at[1], k>>]
        <3>1. <<at[1], k>> # <<at[1], at[2] + 1>>
            BY <1>2, <2>1
        <3>. QED  BY <1>13, <2>2, <3>1
    <2>4. CASE k = at[2]
        <3>1. /\ <<at[1], k>> = at /\ D[<<at[1], k + 1>>] = ScoreBrackets'
              /\ fn.code[at[1]][k] = Inst
            BY <1>2, <1>13, <2>4 DEF Inst
        <3>2. /\ Hard'[<<at[1], k>>] = Encoded(X[<<at[1], k>>])
              /\ Strong(D[<<at[1], k>>], fn.code[at[1]][k], X[<<at[1], k>>])
              /\ D[<<at[1], k + 1>>] =
                    AfterOf(D[<<at[1], k>>], fn.code[at[1]][k], X[<<at[1], k>>])
            BY <1>5, <1>6, <1>7, <1>14, <2>3, <3>1
        <3>. QED  BY <1>1, <2>1, <3>2, SameAfter DEF Done
    <2>5. CASE k # at[2]
        <3>1. k \in 1..at[2] - 1
            BY <1>2, <2>1, <2>5
        <3>2. <<at[1], k>> # at /\ <<at[1], k + 1>> # <<at[1], at[2] + 1>>
            BY <1>2, <2>1, <3>1
        <3>3. /\ D[<<at[1], k + 1>>] = C[<<at[1], k + 1>>] /\ X[<<at[1], k>>] = W[<<at[1], k>>]
              /\ Hard'[<<at[1], k>>] = Hard[<<at[1], k>>]
            BY <1>13, <1>14, <2>2, <3>2
        <3>4. Done(C, W, at[1], k)
            BY <1>1, <3>1 DEF Cert
        <3>5. ASSUME NEW c, c = at[1]
              PROVE  Done(D, X, c, k)'
            BY <1>1, <2>3, <3>3, <3>4, <3>5, DoneKept
        <3>6. Done(D, X, at[1], k)' <=> \A c : c = at'[1] => Done(D, X, c, k)'
            BY DEF Done
        <3>. QED  BY <2>1, <3>5, <3>6
    <2>. QED  BY <2>4, <2>5
<1>19. \A b : Length(b)' = Length(b)
    BY <1>1 DEF Length
<1>20. Cert(D, X)'
    BY <1>1, <1>13, <1>14, <1>15, <1>16, <1>17, <1>18, <1>19, SameFunction DEF Cert
<1>21. KeptBut(C, D, at')
    BY <1>5, <1>13 DEF KeptBut
<1>. QED  BY <1>9, <1>20, <1>21

\* What a join does to the brackets that blocks start with.
LEMMA JoinCovers ==
    ASSUME NEW C, NEW W, CertInv(C, W), NEW b \in Blocks, NEW B, Sound(B, ST),
           NEW J, J = joinSuccessors(b, B)
    PROVE  /\ \A s \in DOMAIN Incoming : s \in DOMAIN J /\ Covers(J[s], Incoming[s])
           /\ \A s \in DOMAIN J :
                 /\ Sound(J[s], ST)
                 /\ s \notin changedSuccessors(b, B) =>
                       s \in DOMAIN Incoming /\ Covers(Incoming[s], J[s])
           /\ \A s \in fn.succ[b] : s \in DOMAIN J /\ Covers(J[s], B)
<1>1. /\ WellFormed(fn) /\ \A s \in DOMAIN Incoming : Sound(Incoming[s], ST)
      /\ ST \in Generations
    BY Code DEF CertInv, IInv, VariableTypes, PassOK
<1>2. /\ DOMAIN J = DOMAIN Incoming \cup fn.succ[b]
      /\ \A s \in DOMAIN J : J[s] = IF s \notin DOMAIN Incoming THEN B
                                    ELSE IF s \in fn.succ[b] THEN merge(Incoming[s], B)
                                    ELSE Incoming[s]
    BY DEF joinSuccessors
<1>3. \A s \in DOMAIN Incoming :
         /\ Sound(merge(Incoming[s], B), ST)
         /\ Covers(merge(Incoming[s], B), Incoming[s]) /\ Covers(merge(Incoming[s], B), B)
         /\ ~StrictDom(Incoming[s], B) => Covers(Incoming[s], merge(Incoming[s], B))
    BY <1>1, MergeCovers
<1>4. Covers(B, B) /\ \A s \in DOMAIN Incoming : Covers(Incoming[s], Incoming[s])
    BY <1>1, CoversItself DEF Sound
<1>5. \A s \in fn.succ[b] : s \notin changedSuccessors(b, B) =>
         s \in DOMAIN Incoming /\ ~StrictDom(Incoming[s], B)
    BY DEF changedSuccessors
<1>6. ASSUME NEW s \in DOMAIN Incoming
      PROVE  s \in DOMAIN J /\ Covers(J[s], Incoming[s])
    BY <1>2, <1>3, <1>4
<1>7. ASSUME NEW s \in DOMAIN J
      PROVE  /\ Sound(J[s], ST)
             /\ s \notin changedSuccessors(b, B) =>
                   s \in DOMAIN Incoming /\ Covers(Incoming[s], J[s])
    <2>1. CASE s \notin DOMAIN Incoming
        BY <1>2, <1>5, <2>1
    <2>2. CASE s \in DOMAIN Incoming /\ s \in fn.succ[b]
        BY <1>2, <1>3, <1>5, <2>2
    <2>3. CASE s \in DOMAIN Incoming /\ s \notin fn.succ[b]
        BY <1>1, <1>2, <1>4, <2>3
    <2>. QED  BY <2>1, <2>2, <2>3
<1>8. ASSUME NEW s \in fn.succ[b]
      PROVE  s \in DOMAIN J /\ Covers(J[s], B)
    BY <1>2, <1>3, <1>4
<1>. QED  BY <1>6, <1>7, <1>8

\* The end of a block: its certificate is complete, and each successor has to
\* be visited that the brackets reach as stricter ones.
LEMMA EndCert ==
    ASSUME NEW C, NEW W, CertInv(C, W), EndBlock
    PROVE  PassOK' /\ \E X : Cert(C, X)'
<1>1. /\ WellFormed(fn) /\ fn' = fn /\ phase = "pass" /\ phase' = "pass" /\ Visiting
      /\ PassOK /\ Cert(C, W) /\ IInv /\ at[2] > 0 /\ at[2] > Length(at[1])
      /\ Hard \in [Places -> Waitcnt]
    BY DEF CertInv, IInv, VariableTypes, EndBlock, Visiting
<1>2. PICK b0 : b0 = at[1]
    OBVIOUS
<1>3. /\ at \in Places /\ b0 \in Blocks /\ at[2] \in Nat /\ Length(b0) \in Nat
      /\ at[2] = Length(b0) + 1 /\ at = EndOf(b0) /\ b0 \in Nat
    <2>1. /\ at \in Places /\ b0 \in Blocks /\ at[2] \in Nat /\ at = <<b0, at[2]>>
          /\ at[2] <= Length(b0) + 1 /\ Length(b0) \in Nat
        BY <1>1, <1>2, InstOK
    <2>2. at[2] = Length(b0) + 1
        BY <1>1, <1>2, <2>1
    <2>. QED  BY <2>1, <2>2 DEF EndOf, Blocks
<1>4. PICK flush \in FlushChoices(b0) :
         LET w == generatedWait(ScoreBrackets, at, flushWait(ScoreBrackets, flush))
             B == applyWaitcnt(ScoreBrackets, w)
             changed == IF B.PendingEvents = {} THEN {} ELSE changedSuccessors(b0, B)
         IN  /\ Hard' = [Hard EXCEPT ![at] = Encoded(w)]
             /\ ScoreBrackets' = B
             /\ Incoming' = IF B.PendingEvents = {} THEN Incoming ELSE joinSuccessors(b0, B)
             /\ Dirty' = Dirty \cup changed
             /\ Repeat' = (Repeat \/ \E s \in changed : s <= b0)
    BY <1>2, Zenon DEF EndBlock
<1>5. PICK w : w = generatedWait(ScoreBrackets, at, flushWait(ScoreBrackets, flush))
    OBVIOUS
<1>6. PICK B : B = applyWaitcnt(ScoreBrackets, w)
    OBVIOUS
<1>7. PICK changed : changed = IF B.PendingEvents = {} THEN {} ELSE changedSuccessors(b0, B)
    OBVIOUS
<1>8. /\ Hard' = [Hard EXCEPT ![at] = Encoded(w)] /\ ScoreBrackets' = B
      /\ Incoming' = IF B.PendingEvents = {} THEN Incoming ELSE joinSuccessors(b0, B)
      /\ Dirty' = Dirty \cup changed /\ Repeat' = (Repeat \/ \E s \in changed : s <= b0)
      /\ at' = <<b0, 0>>
    <2>1. at' = <<b0, 0>>
        BY <1>2 DEF EndBlock
    <2>. QED  BY <1>4, <1>5, <1>6, <1>7, <2>1
<1>9. w \in Waitcnt /\ \A T \in InstCounterType : w[T] <= Hard[at][T]
    <2>1. flushWait(ScoreBrackets, flush) \in Waitcnt
        BY NoWaitsType DEF flushWait, Waitcnt
    <2>2. w \in Waitcnt
        BY <1>1, <1>3, <1>5, <2>1, GeneratedType
    <2>3. \A T \in InstCounterType :
             /\ Hard[at][T] \in Nat /\ flushWait(ScoreBrackets, flush)[T] \in Nat
             /\ simplifyWaitcnt(ScoreBrackets, SoftWait(at))[T] \in Nat
        BY <1>1, <1>3, <2>1, SoftWaitType, SimplifyType DEF Waitcnt
    <2>4. \A T \in InstCounterType :
             w[T] = Least(Least(flushWait(ScoreBrackets, flush)[T], Hard[at][T]),
                          simplifyWaitcnt(ScoreBrackets, SoftWait(at))[T])
        BY <1>5 DEF generatedWait, combined
    <2>. QED  BY <2>2, <2>3, <2>4 DEF Least
<1>10. Sound(ScoreBrackets, ST) /\ C[at] = ScoreBrackets /\ Sound(B, ST)
    <2>1. Sound(ScoreBrackets, ST) /\ C[at] = ScoreBrackets
        BY <1>1 DEF PassOK, Cert
    <2>. QED  BY <1>1, <1>6, <1>9, <2>1, Code, ApplySound
<1>11. /\ \A s \in DOMAIN Incoming :
             /\ s \in DOMAIN Incoming' /\ Covers(Incoming'[s], Incoming[s])
             /\ Sound(Incoming'[s], ST) /\ Sound(Incoming[s], ST)
       /\ \A s \in DOMAIN Incoming' :
             /\ Sound(Incoming'[s], ST)
             /\ s \notin changed => s \in DOMAIN Incoming /\ Covers(Incoming[s], Incoming'[s])
       /\ B.PendingEvents = {} \/
             \A s \in fn.succ[b0] : s \in DOMAIN Incoming' /\ Covers(Incoming'[s], B)
    <2>1. \A s \in DOMAIN Incoming : Sound(Incoming[s], ST)
        BY <1>1 DEF PassOK
    <2>2. CASE B.PendingEvents = {}
        <3>1. Incoming' = Incoming
            BY <1>8, <2>2
        <3>. QED  BY <1>1, <2>1, <2>2, <3>1, CoversItself DEF Sound
    <2>3. CASE B.PendingEvents # {}
        <3>1. Incoming' = joinSuccessors(b0, B) /\ changed = changedSuccessors(b0, B)
            BY <1>7, <1>8, <2>3
        <3>2. PICK J : J = joinSuccessors(b0, B)
            OBVIOUS
        <3>3. /\ \A s \in DOMAIN Incoming : s \in DOMAIN J /\ Covers(J[s], Incoming[s])
              /\ \A s \in DOMAIN J :
                    /\ Sound(J[s], ST)
                    /\ s \notin changedSuccessors(b0, B) =>
                          s \in DOMAIN Incoming /\ Covers(Incoming[s], J[s])
              /\ \A s \in fn.succ[b0] : s \in DOMAIN J /\ Covers(J[s], B)
            BY <1>3, <1>10, <3>2, JoinCovers
        <3>. QED  BY <2>1, <3>1, <3>2, <3>3
    <2>. QED  BY <2>2, <2>3
<1>12. PassOK'
    <2>1. \A x \in Dirty' : x <= at'[1] => Repeat'
        BY <1>1, <1>2, <1>8 DEF PassOK
    <2>2. ~fn.isEntryFunction =>
             /\ \A T \in InstCounterType \ {"STORE_CNT"} : Hard'[<<1, 1>>][T] = 0
             /\ 1 \in DOMAIN Incoming'
             /\ WaitEventMask(ST)["STORE_CNT"] \subseteq Incoming'[1].PendingEvents
        <3>. SUFFICES ASSUME ~fn.isEntryFunction
                      PROVE  /\ \A T \in InstCounterType \ {"STORE_CNT"} : Hard'[<<1, 1>>][T] = 0
                             /\ 1 \in DOMAIN Incoming'
                             /\ WaitEventMask(ST)["STORE_CNT"] \subseteq Incoming'[1].PendingEvents
            OBVIOUS
        <3>1. \A T \in InstCounterType \ {"STORE_CNT"} : Hard'[<<1, 1>>][T] = 0
            BY <1>3, <1>8, <1>9, EntryWaitKept
        <3>2. /\ 1 \in DOMAIN Incoming
              /\ WaitEventMask(ST)["STORE_CNT"] \subseteq Incoming[1].PendingEvents
            BY <1>1 DEF PassOK
        <3>. QED  BY <1>11, <3>1, <3>2 DEF Covers
    <2>3. Sound(ScoreBrackets', ST)
        BY <1>8, <1>10
    <2>. QED  BY <1>1, <1>11, <2>1, <2>2, <2>3, SameFunction DEF PassOK
<1>13. PICK X : X = [W EXCEPT ![at] = w]
    OBVIOUS
<1>14. /\ C \in [Places -> BracketsType] /\ W \in [Places -> Waitcnt]
       /\ \A p \in Places : Sound(C[p], ST)
    BY <1>1 DEF Cert
<1>15. /\ X \in [Places -> Waitcnt] /\ X[at] = w /\ Hard'[at] = Encoded(w)
       /\ \A p \in Places : p # at => X[p] = W[p] /\ Hard'[p] = Hard[p]
    BY <1>1, <1>3, <1>8, <1>9, <1>13, <1>14
<1>16. ASSUME NEW b \in Blocks, Settled(b)', b # b0
       PROVE  /\ Entered(C, b)' /\ Left(C, X, b)'
              /\ \A k \in 1..Length(b) : Done(C, X, b, k)'
    <2>1. Settled(b) /\ b \notin changed
        BY <1>2, <1>8, <1>16 DEF Settled
    <2>2. \A p \in Places : p[1] = b => C[p] = C[p] /\ X[p] = W[p] /\ Hard'[p] = Hard[p]
        BY <1>2, <1>15, <1>16
    <2>3. /\ \A s \in DOMAIN Incoming :
                /\ s \in DOMAIN Incoming' /\ Covers(Incoming'[s], Incoming[s])
                /\ Sound(Incoming'[s], ST)
          /\ (b \in DOMAIN Incoming' => b \in DOMAIN Incoming /\ Covers(Incoming[b], Incoming'[b]))
        BY <1>11, <2>1
    <2>4. fn' = fn
        BY <1>1
    <2>. QED  BY <2>1, <2>2, <2>3, <2>4, OthersKept, Z3
<1>17. ASSUME Settled(b0)'
       PROVE  /\ Entered(C, b0)' /\ Left(C, X, b0)'
              /\ \A k \in 1..Length(b0) : Done(C, X, b0, k)'
    <2>1. b0 \notin changed
        BY <1>8, <1>17 DEF Settled
    <2>2. Entered(C, b0) /\ \A k \in 1..Length(b0) : Done(C, W, b0, k)
        <3>1. \A k \in 1..Length(b0) : k \in 1..at[2] - 1
            BY <1>3
        <3>. QED  BY <1>1, <1>2, <3>1 DEF Cert
    <2>3. \A k \in 1..Length(b0) + 1 : <<b0, k>> \in Places
        BY <1>1, <1>3, PlaceFacts
    <2>4. Entered(C, b0)'
        <3>1. Sound(C[<<b0, 1>>], ST)
            BY <1>3, <1>14, <2>3
        <3>2. b0 \in DOMAIN Incoming =>
                 /\ b0 \in DOMAIN Incoming' /\ Covers(Incoming'[b0], Incoming[b0])
                 /\ Sound(Incoming[b0], ST) /\ Sound(Incoming'[b0], ST)
            BY <1>11
        <3>3. b0 \in DOMAIN Incoming' => b0 \in DOMAIN Incoming /\ Covers(Incoming[b0], Incoming'[b0])
            BY <1>11, <2>1
        <3>4. C[<<b0, 1>>] = C[<<b0, 1>>] /\ fn' = fn
            BY <1>1
        <3>. QED  BY <2>2, <3>1, <3>2, <3>3, <3>4, EnteredKept
    <2>5. Left(C, X, b0)'
        <3>1. EndOf(b0)' = EndOf(b0)
            BY <1>1 DEF EndOf, Length
        <3>2. C[EndOf(b0)] = ScoreBrackets /\ X[EndOf(b0)] = w /\ Hard'[EndOf(b0)] = Encoded(w)
            BY <1>3, <1>10, <1>15
        <3>3. applyWaitcnt(C[EndOf(b0)], X[EndOf(b0)]) = B
            BY <1>6, <3>2
        <3>4. Encoded(X[EndOf(b0)])' = Encoded(w)
            BY <1>1, <3>1, <3>2, SameAfter
        <3>. QED  BY <1>1, <1>11, <3>1, <3>2, <3>3, <3>4 DEF Left
    <2>6. ASSUME NEW k \in 1..Length(b0)
          PROVE  Done(C, X, b0, k)'
        <3>1. <<b0, k>> \in Places /\ <<b0, k>> # at /\ C[<<b0, k>>] = C[<<b0, k>>]
            BY <1>3, <2>3
        <3>2. X[<<b0, k>>] = W[<<b0, k>>] /\ Hard'[<<b0, k>>] = Hard[<<b0, k>>]
            BY <1>15, <3>1
        <3>. QED  BY <1>1, <2>2, <3>1, <3>2, DoneKept
    <2>. QED  BY <2>4, <2>5, <2>6
<1>18. ~Visiting' /\ \A b : Length(b)' = Length(b)
    BY <1>1, <1>8 DEF Length, Visiting
<1>19. \A b \in Blocks : Settled(b)' =>
          /\ Entered(C, b)' /\ Left(C, X, b)'
          /\ \A k \in 1..Length(b) : Done(C, X, b, k)'
    BY <1>16, <1>17
<1>20. Cert(C, X)'
    BY <1>1, <1>14, <1>15, <1>18, <1>19, SameFunction DEF Cert
<1>. QED  BY <1>12, <1>20

-----------------------------------------------------------------------------
(* The wave against the certificate.  Where a called function starts, what   *)
(* the caller has left pending is not known yet, but the wait there ends it. *)

Excused(op) == at = <<1, 1>> /\ ~fn.isEntryFunction /\ CounterOf(op) # "STORE_CNT"

Known(C) ==
    phase = "run" =>
        /\ queue \in Seq(Operation)
        /\ \A k \in 1..Len(queue) : Excused(queue[k]) \/ queue[k].ev \in C[at].PendingEvents

CoverInv == IInv /\ PassOK /\ \E C, W : Cert(C, W) /\ Known(C)

LEMMA PassCert ==
    ASSUME NEW C, NEW W, CertInv(C, W),
           StartBlock \/ VisitInstruction \/ EndBlock \/ RepeatRound
    PROVE  PassOK' /\ phase' = "pass" /\ \E D, X : Cert(D, X)' /\ KeptBut(C, D, at')
<1>1. phase' = "pass"
    BY DEF StartBlock, VisitInstruction, EndBlock, RepeatRound, EndOfRound
<1>2. CASE StartBlock
    BY <1>1, <1>2, StartCert
<1>3. CASE VisitInstruction
    BY <1>1, <1>3, VisitCert
<1>4. CASE EndBlock
    BY <1>1, <1>4, EndCert DEF KeptBut
<1>5. CASE RepeatRound
    BY <1>1, <1>5, RoundCert DEF KeptBut
<1>. QED  BY <1>2, <1>3, <1>4, <1>5

\* Where the wave is, the certificate of every block counts.
LEMMA WaveFacts ==
    ASSUME NEW C, NEW W, CertInv(C, W), phase # "pass"
    PROVE  /\ WellFormed(fn) /\ ST \in Generations
           /\ at \in Places /\ at = <<at[1], at[2]>> /\ at[1] \in Blocks /\ at[2] \in Nat
           /\ Length(at[1]) \in Nat /\ at[2] > 0 /\ at[2] <= Length(at[1]) + 1
           /\ Sound(C[at], ST) /\ W[at] \in Waitcnt
           /\ \A b \in Blocks : Entered(C, b) /\ Left(C, W, b)
           /\ at[2] <= Length(at[1]) =>
                 /\ Done(C, W, at[1], at[2]) /\ Inst \in Instruction /\ Sensible(Inst)
           /\ at[2] > Length(at[1]) => at = EndOf(at[1])
           /\ Hard[at] = Encoded(W[at])
<1>1. /\ IInv /\ WellFormed(fn) /\ PassOK /\ Cert(C, W) /\ at[2] > 0
    BY DEF CertInv, IInv, VariableTypes, Located
<1>2. /\ at \in Places /\ at[1] \in Blocks /\ at[2] \in Nat /\ at = <<at[1], at[2]>>
      /\ at[2] <= Length(at[1]) + 1 /\ Length(at[1]) \in Nat
      /\ at[2] <= Length(at[1]) => Inst \in Instruction
    BY <1>1, InstOK
<1>3. \A b \in Blocks : Settled(b)
    BY <1>1 DEF Settled, Visiting, PassOK
<1>4. \A b \in Blocks : Entered(C, b) /\ Left(C, W, b) /\ \A k \in 1..Length(b) : Done(C, W, b, k)
    BY <1>1, <1>3 DEF Cert
<1>5. ASSUME at[2] <= Length(at[1])
      PROVE  /\ Done(C, W, at[1], at[2]) /\ Sensible(Inst) /\ Hard[at] = Encoded(W[at])
    <2>1. at[1] \in 1..Len(fn.code) /\ at[2] \in 1..Length(at[1])
        BY <1>1, <1>2, <1>5 DEF Blocks
    <2>2. Done(C, W, at[1], at[2])
        BY <1>2, <1>4, <2>1
    <2>3. Sensible(Inst)
        BY <1>1, <2>1 DEF WellFormed, Inst, Length
    <2>. QED  BY <1>2, <2>2, <2>3 DEF Done
<1>6. ASSUME at[2] > Length(at[1])
      PROVE  at = EndOf(at[1]) /\ Hard[at] = Encoded(W[at])
    <2>1. at[2] = Length(at[1]) + 1
        BY <1>2, <1>6
    <2>2. at = EndOf(at[1])
        BY <1>2, <2>1 DEF EndOf
    <2>. QED  BY <1>2, <1>4, <2>2 DEF Left
<1>7. Sound(C[at], ST) /\ W[at] \in Waitcnt /\ ST \in Generations
    BY <1>1, <1>2, Code DEF Cert
<1>8. Hard[at] = Encoded(W[at])
    BY <1>2, <1>5, <1>6
<1>. QED  BY <1>1, <1>2, <1>4, <1>5, <1>6, <1>7, <1>8

\* The event of an operation is one of its counter.
LEMMA EventOfCounter ==
    ASSUME WellFormed(fn), NEW op \in Operation
    PROVE  CounterOf(op) \in InstCounterType /\ op.ev \in WaitEventMask(ST)[CounterOf(op)]
BY EventCounter DEF CounterOf, Operation

\* Once the waits are met, every operation in flight is known.
LEMMA NowKnown ==
    ASSUME NEW C, NEW W, CertInv(C, W), Known(C), phase = "run", WaitsMet
    PROVE  /\ queue \in Seq(Operation) /\ EventsKnown(C[at], queue)
           /\ \A k \in 1..Len(queue) : ~Excused(queue[k])
           /\ \A T \in InstCounterType : Outstanding(T, queue) <= W[at][T]
<1>1. queue \in Seq(Operation)
    BY DEF Known
<1>2. Hard[at] = Encoded(W[at]) /\ W[at] \in Waitcnt /\ at \in Places
    BY WaveFacts
<1>3. \A T \in InstCounterType : Outstanding(T, queue) <= W[at][T]
    <2>. SUFFICES ASSUME NEW T \in InstCounterType PROVE Outstanding(T, queue) <= W[at][T]
        OBVIOUS
    <2>1. Encoded(W[at])[T] <= W[at][T] /\ Encoded(W[at])[T] \in Nat /\ W[at][T] \in Nat
        BY <1>2, EncodedLeast
    <2>2. Outstanding(T, queue) <= Encoded(W[at])[T] /\ Outstanding(T, queue) \in Nat
        BY <1>1, <1>2, Counted DEF WaitsMet
    <2>. QED  BY <2>1, <2>2
<1>4. ASSUME NEW k \in 1..Len(queue)
      PROVE  ~Excused(queue[k]) /\ queue[k].ev \in C[at].PendingEvents
    <2>1. ASSUME Excused(queue[k]) PROVE FALSE
        <3>1. at = <<1, 1>> /\ ~fn.isEntryFunction /\ CounterOf(queue[k]) # "STORE_CNT"
            BY <2>1 DEF Excused
        <3>2. CounterOf(queue[k]) \in InstCounterType \ {"STORE_CNT"}
            <4>1. queue[k] \in Operation /\ WellFormed(fn)
                BY <1>1, WaveFacts
            <4>. QED  BY <3>1, <4>1, EventOfCounter
        <3>3. Hard[at][CounterOf(queue[k])] = 0
            BY <3>1, <3>2 DEF CertInv, PassOK
        <3>4. Outstanding(CounterOf(queue[k]), queue) <= 0
            BY <3>2, <3>3 DEF WaitsMet
        <3>5. /\ Outstanding(CounterOf(queue[k]), queue) \in Nat
              /\ Outstanding(CounterOf(queue[k]), queue) # 0
            BY <1>1, Counted
        <3>. QED  BY <3>4, <3>5
    <2>. QED  BY <2>1 DEF Known
<1>. QED  BY <1>1, <1>3, <1>4 DEF EventsKnown

\* The operations of an instruction are operations.
LEMMA OpsFit ==
    ASSUME WellFormed(fn), NEW I \in Instruction, Sensible(I)
    PROVE  Ops(I) \in Seq(Operation) /\ \A k \in 1..Len(Ops(I)) : Fits(Ops(I)[k], I)
<1>1. CASE I.kind = "call"
    <2>1. Ops(I) = <<>>
        BY <1>1 DEF Ops, isVMEMOrFLAT
    <2>. QED  BY <2>1
<1>2. CASE I.kind # "call"
    <2>1. Sound(NewBrackets(ST), ST)
        BY Code, NewView
    <2>2. \/ Ops(I) = <<>>
          \/ \E op : Fits(op, I) /\ Ops(I) = <<op>>
          \/ \E first, second : Fits(first, I) /\ Fits(second, I)
                                /\ Ops(I) = <<first>> \o <<second>>
        BY <1>2, <2>1, Chain
    <2>3. CASE Ops(I) = <<>>
        BY <2>3
    <2>4. CASE \E op : Fits(op, I) /\ Ops(I) = <<op>>
        BY <2>4 DEF Fits
    <2>5. CASE \E first, second : Fits(first, I) /\ Fits(second, I)
                                  /\ Ops(I) = <<first>> \o <<second>>
        <3>1. PICK first, second : Fits(first, I) /\ Fits(second, I)
                                   /\ Ops(I) = <<first>> \o <<second>>
            BY <2>5
        <3>2. Ops(I) = <<first, second>>
            BY <3>1, Pair
        <3>. QED  BY <3>1, <3>2 DEF Fits
    <2>. QED  BY <2>2, <2>3, <2>4, <2>5
<1>. QED  BY <1>1, <1>2

\* Taking an operation out of the queue leaves others.
LEMMA Removed ==
    ASSUME NEW S, NEW q \in Seq(S), NEW m \in 1..Len(q)
    PROVE  /\ RemoveAt(q, m) \in Seq(S) /\ Len(RemoveAt(q, m)) = Len(q) - 1
           /\ \A i \in 1..Len(q) - 1 :
                 RemoveAt(q, m)[i] = IF i < m THEN q[i] ELSE q[i + 1]
<1> DEFINE a == SubSeq(q, 1, m - 1)
           b == SubSeq(q, m + 1, Len(q))
           c == a \o b
<1>1. Len(q) \in Nat /\ m \in Nat /\ m >= 1 /\ m <= Len(q)
    OBVIOUS
<1>2. a \in Seq(S) /\ Len(a) = m - 1 /\ \A i \in 1..m - 1 : a[i] = q[i]
    <2>1. 1 \in 1..Len(q) + 1 /\ m - 1 \in 0..Len(q)
        BY <1>1
    <2>. QED  BY <1>1, <2>1, SubSeqProperties
<1>3. b \in Seq(S) /\ Len(b) = Len(q) - m /\ \A i \in 1..Len(q) - m : b[i] = q[m + i]
    <2>1. m + 1 \in 1..Len(q) + 1 /\ Len(q) \in 0..Len(q)
        BY <1>1
    <2>. QED  BY <1>1, <2>1, SubSeqProperties
<1>4. RemoveAt(q, m) = c
    BY DEF RemoveAt
<1> HIDE DEF a, b
<1>5. c \in Seq(S)
    BY <1>2, <1>3, ConcatProperties
<1>6. Len(c) = Len(a) + Len(b)
    BY <1>2, <1>3, ConcatProperties
<1>7. \A i \in 1..Len(a) + Len(b) : c[i] = IF i <= Len(a) THEN a[i] ELSE b[i - Len(a)]
    BY <1>2, <1>3, ConcatProperties
<1> HIDE DEF c
<1>8. ASSUME NEW i \in 1..Len(q) - 1
      PROVE  c[i] = IF i < m THEN q[i] ELSE q[i + 1]
    <2>1. c[i] = IF i <= m - 1 THEN a[i] ELSE b[i - (m - 1)]
        BY <1>1, <1>2, <1>3, <1>7
    <2>2. CASE i < m
        BY <1>1, <1>2, <2>1, <2>2
    <2>3. CASE ~(i < m)
        <3>1. i - (m - 1) \in 1..Len(q) - m /\ i \in Int
            BY <1>1, <2>3
        <3>2. m + (i - (m - 1)) = i + 1
            BY <1>1, <3>1
        <3>3. b[i - (m - 1)] = q[m + (i - (m - 1))]
            BY <1>3, <3>1
        <3>. QED  BY <1>1, <2>1, <2>3, <3>1, <3>2, <3>3
    <2>. QED  BY <2>2, <2>3
<1>9. Len(c) = Len(q) - 1
    BY <1>1, <1>2, <1>3, <1>6
<1>. QED  BY <1>4, <1>5, <1>8, <1>9

\* The wave begins: a called function knows of the stores of its caller.
LEMMA FinishKnown ==
    ASSUME NEW C, NEW W, CertInv(C, W), FinishPass
    PROVE  Known(C)'
<1>1. /\ WellFormed(fn) /\ fn' = fn /\ at' = <<1, 1>> /\ phase' = "run"
      /\ queue' \in IF fn.isEntryFunction THEN {<<>>} ELSE PendingOps
    BY DEF CertInv, IInv, VariableTypes, FinishPass
<1>2. PassOK' /\ Cert(C, W)'
    BY RoundCert
<1>3. CASE fn.isEntryFunction
    <2>1. queue' = <<>>
        BY <1>1, <1>3
    <2>. QED  BY <1>1, <2>1 DEF Known
<1>4. CASE ~fn.isEntryFunction
    <2>1. PICK I \in LeftPending, J \in LeftPending : queue' = Ops(I) \o Ops(J)
        BY <1>1, <1>4 DEF PendingOps
    <2>2. Ops(I) \in Seq(Operation) /\ Ops(J) \in Seq(Operation)
        BY <1>1, LeftPendingAssumption, OpsFit
    <2>3. queue' \in Seq(Operation)
        BY <2>1, <2>2, ConcatProperties
    <2>4. WaitEventMask(ST)["STORE_CNT"] \subseteq C[<<1, 1>>].PendingEvents
        <3>1. 1 \in Blocks
            BY <1>1, PlaceFacts
        <3>2. Settled(1)'
            BY <1>1, <1>2 DEF PassOK, Settled, Visiting
        <3>3. Entered(C, 1)'
            BY <1>1, <1>2, <3>1, <3>2, SameFunction DEF Cert
        <3>4. /\ 1 \in DOMAIN Incoming'
              /\ WaitEventMask(ST)["STORE_CNT"] \subseteq Incoming'[1].PendingEvents
            BY <1>1, <1>2, <1>4, SameFunction DEF PassOK
        <3>. QED  BY <3>3, <3>4 DEF Entered, Covers
    <2>5. ASSUME NEW k \in 1..Len(queue')
          PROVE  (Excused(queue[k]) \/ queue[k].ev \in C[at].PendingEvents)'
        <3>1. queue'[k] \in Operation
            BY <2>3
        <3>2. CASE CounterOf(queue'[k]) = "STORE_CNT"
            BY <1>1, <2>4, <3>1, <3>2, EventOfCounter
        <3>3. CASE CounterOf(queue'[k]) # "STORE_CNT"
            <4>1. CounterOf(queue[k])' # "STORE_CNT"
                BY <1>1, <3>3, SameFunction DEF CounterOf
            <4>. QED  BY <1>1, <1>4, <4>1 DEF Excused
        <3>. QED  BY <3>2, <3>3
    <2>. QED  BY <2>3, <2>5 DEF Known
<1>. QED  BY <1>3, <1>4

\* An operation ends.
LEMMA CompleteKnown ==
    ASSUME NEW C, Known(C), Complete
    PROVE  Known(C)'
<1>1. phase = "run" /\ at' = at /\ fn' = fn /\ queue \in Seq(Operation)
    BY DEF Complete, Known
<1>2. PICK m \in 1..Len(queue) : queue' = RemoveAt(queue, m)
    BY DEF Complete
<1>3. /\ queue' \in Seq(Operation) /\ Len(queue') = Len(queue) - 1 /\ Len(queue) \in Nat
      /\ \A i \in 1..Len(queue) - 1 : queue'[i] = IF i < m THEN queue[i] ELSE queue[i + 1]
    BY <1>1, <1>2, Removed
<1>4. ASSUME NEW i \in 1..Len(queue')
      PROVE  (Excused(queue[i]) \/ queue[i].ev \in C[at].PendingEvents)'
    <2>1. \E j \in 1..Len(queue) : queue'[i] = queue[j]
        <3>1. i \in 1..Len(queue) /\ i + 1 \in 1..Len(queue)
            BY <1>3
        <3>2. queue'[i] = IF i < m THEN queue[i] ELSE queue[i + 1]
            BY <1>3
        <3>. QED  BY <3>1, <3>2
    <2>2. PICK j \in 1..Len(queue) : queue'[i] = queue[j]
        BY <2>1
    <2>3. Excused(queue[j]) \/ queue[j].ev \in C[at].PendingEvents
        BY <1>1 DEF Known
    <2>. QED  BY <1>1, <2>2, <2>3, SameFunction DEF Excused, CounterOf
<1>. QED  BY <1>3, <1>4 DEF Known

\* An instruction is issued: its wait is met, and what it starts is known.
LEMMA IssueStep ==
    ASSUME NEW C, NEW W, CertInv(C, W), Known(C), Issue
    PROVE  Known(C)'
<1>1. /\ phase = "run" /\ phase' = "run" /\ at[2] <= Length(at[1]) /\ WaitsMet
      /\ Inst.kind # "call" /\ queue' = queue \o Ops(Inst) /\ at' = <<at[1], at[2] + 1>>
    BY DEF Issue, Ready
<1>2. /\ WellFormed(fn) /\ Sound(C[at], ST) /\ W[at] \in Waitcnt /\ at = <<at[1], at[2]>>
      /\ Done(C, W, at[1], at[2]) /\ Inst \in Instruction /\ Sensible(Inst)
    BY <1>1, WaveFacts
<1>3. /\ queue \in Seq(Operation) /\ EventsKnown(C[at], queue)
      /\ \A T \in InstCounterType : Outstanding(T, queue) <= W[at][T]
    BY <1>1, NowKnown
<1>4. PICK B : B = bracketsBefore(C[at], Inst, W[at])
    OBVIOUS
<1>5. Waited(C[at], W[at], B) /\ Sound(B, ST)
    BY <1>2, <1>4, BeforeWaited DEF Waited
<1>6. EventsKnown(B, queue)
    <2>. SUFFICES ASSUME NEW k \in 1..Len(queue) PROVE queue[k].ev \in B.PendingEvents
        BY DEF EventsKnown
    <2>1. queue[k].ev \in C[at].PendingEvents
        BY <1>3 DEF EventsKnown
    <2>. QED  BY <1>2, <1>3, <1>5, <2>1, WaitKnown
<1>7. /\ queue \o Ops(Inst) \in Seq(Operation)
      /\ EventsKnown(updateEventWaitcntAfter(B, Inst), queue \o Ops(Inst))
    BY <1>1, <1>2, <1>3, <1>5, <1>6, IssueKnown
<1>8. C[at'] = updateEventWaitcntAfter(B, Inst)
    <2>1. Inst = fn.code[at[1]][at[2]]
        BY DEF Inst
    <2>. QED  BY <1>1, <1>2, <1>4, <2>1 DEF Done, AfterOf
<1>. QED  BY <1>1, <1>7, <1>8 DEF Known, EventsKnown

\* A call returns with stores pending, and the brackets say so.
LEMMA CallStep ==
    ASSUME NEW C, NEW W, CertInv(C, W), Known(C), Call
    PROVE  Known(C)'
<1>1. /\ phase = "run" /\ phase' = "run" /\ at[2] <= Length(at[1])
      /\ Inst.kind = "call" /\ queue' \in PendingStores /\ at' = <<at[1], at[2] + 1>>
      /\ fn' = fn
    BY DEF Call, Ready
<1>2. /\ WellFormed(fn) /\ Sound(C[at], ST) /\ W[at] \in Waitcnt /\ at = <<at[1], at[2]>>
      /\ Done(C, W, at[1], at[2]) /\ Inst \in Instruction
    BY <1>1, WaveFacts
<1>3. PICK B : B = bracketsBefore(C[at], Inst, W[at])
    OBVIOUS
<1>4. Sound(B, ST)
    BY <1>2, <1>3, BeforeWaited DEF Waited
<1>5. WaitEventMask(ST)["STORE_CNT"] \subseteq C[at'].PendingEvents
    <2>1. C[at'] = updateEventWaitcntAfter(B, Inst)
        <3>1. Inst = fn.code[at[1]][at[2]]
            BY DEF Inst
        <3>. QED  BY <1>1, <1>2, <1>3, <3>1 DEF Done, AfterOf
    <2>. QED  BY <1>1, <1>2, <1>4, <2>1, CallView
<1>6. CASE queue' = <<>>
    BY <1>1, <1>6 DEF Known
<1>7. CASE \E I \in LeftPending :
              /\ queue' = Ops(I)
              /\ \A k \in 1..Len(queue') : CounterOf(queue'[k]) = "STORE_CNT"
    <2>1. PICK I \in LeftPending :
             /\ queue' = Ops(I)
             /\ \A k \in 1..Len(queue') : CounterOf(queue'[k]) = "STORE_CNT"
        BY <1>7
    <2>2. queue' \in Seq(Operation)
        BY <1>2, <2>1, LeftPendingAssumption, OpsFit
    <2>3. ASSUME NEW k \in 1..Len(queue')
          PROVE  (queue[k].ev \in C[at].PendingEvents)'
        <3>1. queue'[k] \in Operation /\ CounterOf(queue'[k]) = "STORE_CNT"
            BY <2>1, <2>2
        <3>2. queue'[k].ev \in WaitEventMask(ST)["STORE_CNT"]
            BY <1>2, <3>1, EventOfCounter
        <3>. QED  BY <1>5, <3>2
    <2>. QED  BY <2>2, <2>3 DEF Known
<1>. QED  BY <1>1, <1>6, <1>7 DEF PendingStores

\* A branch: what the block ends with has reached the successor.
LEMMA BranchStep ==
    ASSUME NEW C, NEW W, CertInv(C, W), Known(C), Branch
    PROVE  Known(C)'
<1>1. /\ phase = "run" /\ phase' = "run" /\ at[2] > Length(at[1]) /\ WaitsMet /\ queue' = queue
    BY DEF Branch
<1>2. PICK s \in fn.succ[at[1]] : at' = <<s, 1>>
    BY DEF Branch
<1>3. /\ WellFormed(fn) /\ Sound(C[at], ST) /\ W[at] \in Waitcnt /\ at[1] \in Blocks
      /\ at = EndOf(at[1]) /\ Left(C, W, at[1])
      /\ \A b \in Blocks : Entered(C, b)
    BY <1>1, WaveFacts
<1>4. s \in Blocks
    BY <1>3, Code
<1>5. /\ queue \in Seq(Operation) /\ EventsKnown(C[at], queue)
      /\ \A T \in InstCounterType : Outstanding(T, queue) <= W[at][T]
    BY <1>1, NowKnown
<1>6. PICK B : B = applyWaitcnt(C[at], W[at])
    OBVIOUS
<1>7. Waited(C[at], W[at], B)
    BY <1>3, <1>6, ApplyWaited
<1>8. ASSUME NEW k \in 1..Len(queue)
      PROVE  queue[k].ev \in B.PendingEvents
    <2>1. queue[k].ev \in C[at].PendingEvents
        BY <1>5 DEF EventsKnown
    <2>. QED  BY <1>3, <1>5, <1>7, <2>1, WaitKnown
<1>9. ASSUME NEW k \in 1..Len(queue)
      PROVE  queue[k].ev \in C[at'].PendingEvents
    <2>1. queue[k].ev \in B.PendingEvents
        BY <1>8
    <2>2. s \in DOMAIN Incoming /\ Covers(Incoming[s], B)
        BY <1>3, <1>6, <2>1 DEF Left
    <2>3. Covers(C[<<s, 1>>], Incoming[s])
        BY <1>3, <1>4, <2>2 DEF Entered
    <2>. QED  BY <1>2, <2>1, <2>2, <2>3 DEF Covers
<1>. QED  BY <1>1, <1>5, <1>9 DEF Known

\* A stuttering step leaves the certificate as it is.
LEMMA StutterCert ==
    ASSUME NEW C, NEW W, CertInv(C, W), UNCHANGED vars
    PROVE  Cert(C, W)'
<1>1. /\ fn' = fn /\ Dirty' = Dirty /\ Incoming' = Incoming /\ Hard' = Hard /\ phase' = phase
      /\ ScoreBrackets' = ScoreBrackets /\ at' = at
    BY DEF vars, passVars
<1>2. \A b : (Settled(b)' <=> Settled(b)) /\ Length(b)' = Length(b)
    BY <1>1 DEF Settled, Visiting, Length
<1>3. ASSUME NEW b PROVE Entered(C, b)' <=> Entered(C, b)
    BY <1>1, SameFunction DEF Entered
<1>4. ASSUME NEW b PROVE Left(C, W, b)' <=> Left(C, W, b)
    <2>1. EndOf(b)' = EndOf(b)
        BY <1>2 DEF EndOf
    <2>. QED  BY <1>1, <2>1, SameAfter DEF Left
<1>5. ASSUME NEW b, NEW k PROVE Done(C, W, b, k)' <=> Done(C, W, b, k)
    BY <1>1, SameAfter DEF Done
<1>6. Visiting' <=> Visiting
    BY <1>1 DEF Visiting
<1>7. Visiting => /\ Entered(C, at[1])'
                  /\ \A k \in 1..at[2] - 1 : Done(C, W, at[1], k)'
    BY <1>1, SameAfter, SameFunction DEF CertInv, Cert, Entered, Done
<1>. QED  BY <1>1, <1>2, <1>3, <1>4, <1>5, <1>6, <1>7, SameFunction DEF CertInv, Cert

LEMMA InitCover == Init => CoverInv
<1>. SUFFICES ASSUME Init PROVE CoverInv
    OBVIOUS
<1>1. PICK C, W : Cert(C, W)
    BY InitCert
<1>2. Known(C)
    BY DEF Known, Init
<1>. QED  BY <1>1, <1>2, InitInv, InitCert DEF CoverInv

LEMMA NextCover == CoverInv /\ [Next]_vars => CoverInv'
<1>. SUFFICES ASSUME CoverInv, [Next]_vars PROVE CoverInv'
    OBVIOUS
<1>1. IInv'
    BY NextInv DEF CoverInv
<1>2. PICK C, W : CertInv(C, W) /\ Known(C)
    BY DEF CoverInv, CertInv
<1>3. CASE StartBlock \/ VisitInstruction \/ EndBlock \/ RepeatRound
    <2>1. PassOK' /\ phase' = "pass" /\ \E D, X : Cert(D, X)'
        BY <1>2, <1>3, PassCert
    <2>2. \A D : Known(D)'
        BY <2>1 DEF Known
    <2>. QED  BY <1>1, <2>1, <2>2 DEF CoverInv
<1>4. CASE FinishPass
    <2>1. PassOK' /\ Cert(C, W)' /\ Known(C)'
        BY <1>2, <1>4, RoundCert, FinishKnown
    <2>. QED  BY <1>1, <2>1 DEF CoverInv
<1>5. CASE Complete \/ Issue \/ Call \/ Leave \/ Branch
    <2>1. PassOK' /\ Cert(C, W)'
        <3>1. UNCHANGED <<fn, passVars>> /\ phase # "pass" /\ phase' # "pass"
            BY <1>5 DEF Complete, Issue, Call, Leave, Branch, Ready
        <3>. QED  BY <1>2, <3>1, WaveCert
    <2>2. Known(C)'
        <3>1. CASE Leave
            BY <3>1 DEF Leave, Known
        <3>. QED  BY <1>2, <1>5, <3>1, CompleteKnown, IssueStep, CallStep, BranchStep
    <2>. QED  BY <1>1, <2>1, <2>2 DEF CoverInv
<1>6. CASE UNCHANGED vars
    <2>1. /\ UNCHANGED <<fn, passVars>> /\ phase' = phase /\ at' = at /\ queue' = queue
          /\ Dirty' = Dirty /\ Incoming' = Incoming /\ Hard' = Hard
          /\ ScoreBrackets' = ScoreBrackets /\ Repeat' = Repeat
        BY <1>6 DEF vars, passVars
    <2>2. PassOK'
        BY <1>2, <2>1, SameFunction DEF PassOK, CertInv
    <2>3. Cert(C, W)'
        BY <1>2, <1>6, StutterCert
    <2>4. Known(C)'
        BY <1>2, <2>1, SameFunction DEF Known, Excused, CounterOf
    <2>. QED  BY <1>1, <2>2, <2>3, <2>4 DEF CoverInv
<1>. QED  BY <1>3, <1>4, <1>5, <1>6 DEF Next, Pass, Ended

LEMMA Coverage == Spec => []CoverInv
BY InitCover, NextCover, PTL DEF Spec

\* The brackets a block starts with have the event pending of every operation
\* in flight where the wave enters it, whichever path led there: the rounds
\* over the blocks stop only when no join brings anything stricter.  For any
\* function, limits and registers, and whatever the pass flushes.
THEOREM EventsCovered == Spec => []IncomingCoversEvents
<1>1. CoverInv => IncomingCoversEvents
    <2>. SUFFICES ASSUME CoverInv, EntersBusy
                  PROVE  /\ at[1] \in DOMAIN Incoming
                         /\ \A k \in 1..Len(queue) :
                               queue[k].ev \in Incoming[at[1]].PendingEvents
        BY DEF IncomingCoversEvents
    <2>1. /\ phase = "run" /\ at[2] = 1 /\ queue # <<>>
          /\ ~(at[1] = 1 /\ ~fn.isEntryFunction)
        BY DEF EntersBusy
    <2>2. PICK C, W : CertInv(C, W) /\ Known(C)
        BY DEF CoverInv, CertInv
    <2>3. at = <<at[1], 1>> /\ Entered(C, at[1]) /\ ST \in Generations
        BY <2>1, <2>2, WaveFacts
    <2>4. queue \in Seq(Operation)
          /\ \A k \in 1..Len(queue) : queue[k].ev \in C[<<at[1], 1>>].PendingEvents
        BY <2>1, <2>2, <2>3 DEF Known, Excused
    <2>5. at[1] \in DOMAIN Incoming
        <3>. SUFFICES ASSUME at[1] \notin DOMAIN Incoming PROVE FALSE
            OBVIOUS
        <3>1. C[<<at[1], 1>>].PendingEvents = {}
            BY <2>3, NewView DEF Entered
        <3>2. 1 \in 1..Len(queue)
            BY <2>1, <2>4
        <3>. QED  BY <2>4, <3>1, <3>2
    <2>6. Covers(Incoming[at[1]], C[<<at[1], 1>>])
        BY <2>3, <2>5 DEF Entered
    <2>. QED  BY <2>4, <2>5, <2>6 DEF Covers
<1>. QED  BY <1>1, Coverage, PTL

\* A function returns with nothing in flight but stores, on every path: the
\* wait before the return leaves out no counter that has anything pending.
THEOREM ReturnsAreDrained == Spec => []ReturnsDrained
<1>1. CoverInv => ReturnsDrained
    <2>. SUFFICES ASSUME CoverInv, Ready, Inst.kind = "return",
                         NEW k \in 1..Len(queue), CounterOf(queue[k]) # "STORE_CNT"
                  PROVE  FALSE
        BY DEF ReturnsDrained
    <2>1. phase = "run" /\ at[2] <= Length(at[1]) /\ WaitsMet
        BY DEF Ready
    <2>2. PICK C, W : CertInv(C, W) /\ Known(C)
        BY DEF CoverInv, CertInv
    <2>3. /\ WellFormed(fn) /\ at = <<at[1], at[2]>> /\ Done(C, W, at[1], at[2])
          /\ Sound(C[at], ST)
        BY <2>1, <2>2, WaveFacts
    <2>4. /\ queue \in Seq(Operation) /\ EventsKnown(C[at], queue)
          /\ \A T \in InstCounterType : Outstanding(T, queue) <= W[at][T]
        BY <2>1, <2>2, NowKnown
    <2>5. /\ CounterOf(queue[k]) \in InstCounterType \ {"STORE_CNT"}
          /\ queue[k].ev \in WaitEventMask(ST)[CounterOf(queue[k])]
        <3>1. queue[k] \in Operation
            BY <2>4
        <3>. QED  BY <2>3, <3>1, EventOfCounter
    <2>6. PendingOn(C[at], CounterOf(queue[k])) # {}
        <3>1. C[at].ST = ST
            BY <2>3 DEF Sound, BracketOK
        <3>. QED  BY <2>4, <2>5, <3>1 DEF EventsKnown, PendingOn
    <2>7. W[at][CounterOf(queue[k])] = 0
        <3>1. Strong(C[at], Inst, W[at])
            BY <2>3 DEF Done, Inst
        <3>. QED  BY <2>5, <2>6, <3>1 DEF Strong
    <2>8. /\ Outstanding(CounterOf(queue[k]), queue) \in Nat
          /\ Outstanding(CounterOf(queue[k]), queue) # 0
        BY <2>4, Counted
    <2>9. Outstanding(CounterOf(queue[k]), queue) <= 0
        BY <2>4, <2>5, <2>7
    <2>. QED  BY <2>8, <2>9
<1>. QED  BY <1>1, Coverage, PTL

-----------------------------------------------------------------------------
(* The registers of an operation in flight: they have a score that may be    *)
(* pending, and no fewer operations of its counter follow it than the score  *)
(* tells, where the counter is decremented in order.                         *)

Registers(op) == op.writes \cup op.locks

\* The operations of its counter that follow q[j].
Later(q, j) == {i \in 1..Len(q) : i > j /\ CounterOf(q[i]) = CounterOf(q[j])}

\* The slot r is known to have an operation that n operations follow.
Traces(B, T, r, n) ==
    Held(B, T, r) /\ (counterOutOfOrder(B, T) \/ Distance(B, T, r) <= n)

LEMMA FourFinite ==
    ASSUME NEW a, NEW b, NEW c, NEW d
    PROVE  IsFiniteSet({a, b, c, d})
<1>1. IsFiniteSet({a}) /\ IsFiniteSet({b}) /\ IsFiniteSet({c}) /\ IsFiniteSet({d})
    BY FS_Singleton
<1>2. IsFiniteSet({a} \cup {b}) /\ IsFiniteSet({c} \cup {d})
    BY <1>1, FS_Union
<1>3. IsFiniteSet(({a} \cup {b}) \cup ({c} \cup {d}))
    BY <1>2, FS_Union
<1>4. ({a} \cup {b}) \cup ({c} \cup {d}) = {a, b, c, d}
    OBVIOUS
<1>. QED  BY <1>3, <1>4

LEMMA FiniteEvents == IsFiniteSet(WaitEventType)
<1> DEFINE A == {"VMEM_ACCESS", "VMEM_READ_ACCESS", "VMEM_SAMPLER_READ_ACCESS",
                 "VMEM_BVH_READ_ACCESS"}
           B == {"VMEM_WRITE_ACCESS", "SCRATCH_WRITE_ACCESS", "LDS_ACCESS", "GDS_ACCESS"}
           C == {"SQ_MESSAGE", "SMEM_ACCESS", "EXP_GPR_LOCK", "GDS_GPR_LOCK"}
           D == {"EXP_POS_ACCESS", "EXP_PARAM_ACCESS", "VMW_GPR_LOCK", "EXP_LDS_ACCESS"}
<1>1. IsFiniteSet(A) /\ IsFiniteSet(B) /\ IsFiniteSet(C) /\ IsFiniteSet(D)
    BY FourFinite
<1>2. WaitEventType = (A \cup B) \cup (C \cup D)
    BY DEF WaitEventType
<1> HIDE DEF A, B, C, D
<1>3. IsFiniteSet(A \cup B) /\ IsFiniteSet(C \cup D)
    BY <1>1, FS_Union
<1>. QED  BY <1>2, <1>3, FS_Union

\* More events pending leave a counter out of order.
LEMMA MoreOutOfOrder ==
    ASSUME NEW B, NEW C, C.ST = B.ST, C.PendingEvents \subseteq WaitEventType, NEW T,
           PendingOn(B, T) \subseteq PendingOn(C, T),
           T = SmemAccessCounter(B.ST) /\ "SMEM_ACCESS" \in B.PendingEvents =>
              "SMEM_ACCESS" \in C.PendingEvents,
           counterOutOfOrder(B, T)
    PROVE  counterOutOfOrder(C, T)
<1>1. CASE hasMixedPendingEvents(B, T)
    <2> DEFINE P == PendingOn(B, T)
               Q == PendingOn(C, T)
    <2>1. Q \in SUBSET WaitEventType
        BY DEF PendingOn
    <2>2. IsFiniteSet(Q)
        <3> HIDE DEF Q
        <3>. QED  BY <2>1, FiniteEvents, FS_Subset
    <2>3. P \in SUBSET Q
        OBVIOUS
    <2>4. Cardinality(P) <= Cardinality(Q) /\ Cardinality(P) \in Nat /\ Cardinality(Q) \in Nat
        <3> HIDE DEF P, Q
        <3>. QED  BY <2>2, <2>3, FS_Subset, FS_CardinalityType
    <2>. QED  BY <1>1, <2>4 DEF hasMixedPendingEvents, counterOutOfOrder
<1>2. CASE ~hasMixedPendingEvents(B, T)
    BY <1>2 DEF counterOutOfOrder, hasPendingEvent
<1>. QED  BY <1>1, <1>2

\* Where a counter is in order all that is pending on it is of one event, and
\* no scalar read.
LEMMA SameEvent ==
    ASSUME NEW B, B.PendingEvents \subseteq WaitEventType, NEW T, ~counterOutOfOrder(B, T),
           T = SmemAccessCounter(B.ST) \/ "SMEM_ACCESS" \notin PendingOn(B, T),
           NEW E \in PendingOn(B, T), NEW F \in PendingOn(B, T)
    PROVE  E = F /\ E # "SMEM_ACCESS"
<1> DEFINE P == PendingOn(B, T)
<1>1. P \in SUBSET WaitEventType /\ ~(Cardinality(P) > 1)
    BY DEF PendingOn, counterOutOfOrder, hasMixedPendingEvents
<1>2. E # "SMEM_ACCESS"
    BY DEF PendingOn, counterOutOfOrder, hasPendingEvent
<1> HIDE DEF P
<1>3. IsFiniteSet(P)
    BY <1>1, FiniteEvents, FS_Subset
<1>4. Cardinality(P) \in Nat
    BY <1>3, FS_CardinalityType
<1>5. P # {} /\ E \in P /\ F \in P
    BY DEF P
<1>6. Cardinality(P) = 1
    BY <1>1, <1>3, <1>4, <1>5, FS_EmptySet
<1>7. PICK x : P = {x}
    BY <1>3, <1>6, FS_Singleton
<1>. QED  BY <1>2, <1>5, <1>7

\* A counter on which one event at most is pending, and no scalar read.
LEMMA OneEvent ==
    ASSUME NEW B, B.PendingEvents \subseteq WaitEventType, NEW T, T # SmemAccessCounter(B.ST),
           \A E, F \in PendingOn(B, T) : E = F
    PROVE  ~counterOutOfOrder(B, T)
<1> DEFINE P == PendingOn(B, T)
<1>1. CASE P = {}
    <2>1. Cardinality(P) = 0
        BY <1>1, FS_EmptySet
    <2>. QED  BY <2>1 DEF counterOutOfOrder, hasMixedPendingEvents
<1>2. CASE P # {}
    <2>1. PICK x : x \in P
        BY <1>2
    <2>2. P = {x}
        BY <2>1
    <2>3. Cardinality(P) = 1
        <3> HIDE DEF P
        <3>. QED  BY <2>2, FS_Singleton
    <2>. QED  BY <2>3 DEF counterOutOfOrder, hasMixedPendingEvents
<1>. QED  BY <1>1, <1>2

\* A wait that the operations behind it have met keeps a slot's operation.
LEMMA TracesWaited ==
    ASSUME WellFormed(fn), NEW B, Sound(B, ST), NEW W \in Waitcnt, NEW C, Waited(B, W, C),
           NEW T \in InstCounterType, NEW r \in Slots, NEW n \in Nat, Traces(B, T, r, n),
           n + 1 <= W[T]
    PROVE  Traces(C, T, r, n)
<1>1. /\ B.LB[T] \in Nat /\ B.UB[T] \in Nat /\ B.LB[T] <= B.UB[T] /\ B.Score[T][r] \in Nat
      /\ B.ST = ST /\ C.ST = ST /\ C.PendingEvents \subseteq WaitEventType
      /\ B.PendingEvents \subseteq WaitEventType
    <2>1. BracketOK(B, ST) /\ BracketOK(C, ST)
        BY DEF Sound, Waited
    <2>. QED  BY <2>1, Numbers
<1>2. W[T] \in Nat /\ W[T] # 0
    BY DEF Waitcnt
<1>3. /\ C.UB[T] = B.UB[T] /\ C.Score[T][r] = B.Score[T][r]
      /\ C.LB[T] = appliedLB(B, T, W[T])
    BY DEF Waited
<1>4. Held(B, T, r) /\ (counterOutOfOrder(B, T) \/ Distance(B, T, r) <= n)
    BY DEF Traces
<1>5. Held(C, T, r)
    <2>1. CASE W[T] >= B.UB[T] \/ counterOutOfOrder(B, T)
        BY <1>2, <1>3, <1>4, <2>1 DEF Held, InBracket, appliedLB
    <2>2. CASE Distance(B, T, r) <= n
        <3>1. B.UB[T] - W[T] < B.Score[T][r]
            BY <1>1, <1>2, <2>2 DEF Distance
        <3>. QED  BY <1>1, <1>2, <1>3, <1>4, <3>1 DEF Held, InBracket, appliedLB, Greatest
    <2>. QED  BY <1>4, <2>1, <2>2
<1>6. counterOutOfOrder(B, T) => counterOutOfOrder(C, T)
    <2>1. ASSUME NEW E \in PendingOn(B, T)
          PROVE  E \in PendingOn(C, T)
        <3>1. E \in WaitEventType /\ E \in WaitEventMask(ST)[T] /\ E \in B.PendingEvents
            BY <1>1 DEF PendingOn
        <3>2. eventCounter(ST, E) = T
            BY <3>1, EventCounter
        <3>. QED  BY <1>1, <1>2, <3>1, <3>2 DEF Waited, PendingOn
    <2>2. T = SmemAccessCounter(ST) /\ "SMEM_ACCESS" \in B.PendingEvents =>
             "SMEM_ACCESS" \in C.PendingEvents
        BY <1>2, Counters DEF Waited
    <2>3. PendingOn(B, T) \subseteq PendingOn(C, T)
        BY <2>1
    <2>. QED  BY <1>1, <2>2, <2>3, MoreOutOfOrder
<1>. QED  BY <1>3, <1>4, <1>5, <1>6 DEF Traces, Distance

\* An operation that starts: a slot that is not its own has one more behind it.
LEMMA TracesStarted ==
    ASSUME WellFormed(fn), NEW B, Sound(B, ST), NEW op \in Operation, NEW C, Starts(B, op, C),
           NEW T \in InstCounterType, NEW r \in Slots, NEW n \in Nat, Traces(B, T, r, n),
           NEW m \in Nat, m = IF CounterOf(op) = T THEN n + 1 ELSE n,
           CounterOf(op) = T /\ T = "EXP_CNT" =>
              ~counterOutOfOrder(B, T) /\ n + 1 < WaitCountMax[T]
    PROVE  Traces(C, T, r, m)
<1>1. /\ B.LB[T] \in Nat /\ B.UB[T] \in Nat /\ B.LB[T] <= B.UB[T] /\ B.Score[T][r] \in Nat
      /\ B.ST = ST /\ C.ST = ST /\ C.PendingEvents \subseteq WaitEventType
      /\ C.PendingEvents = B.PendingEvents \cup {op.ev}
    <2>1. BracketOK(B, ST) /\ BracketOK(C, ST)
        BY DEF Sound, Starts
    <2>. QED  BY <2>1, Numbers DEF Starts
<1>2. Held(B, T, r) /\ (counterOutOfOrder(B, T) \/ Distance(B, T, r) <= n)
    BY DEF Traces
<1>3. counterOutOfOrder(B, T) => counterOutOfOrder(C, T)
    <2>1. PendingOn(B, T) \subseteq PendingOn(C, T)
        BY <1>1 DEF PendingOn
    <2>. QED  BY <1>1, <2>1, MoreOutOfOrder
<1>4. CASE CounterOf(op) = T
    <2>1. /\ C.UB[T] = B.UB[T] + 1 /\ C.LB[T] = raisedLB(B, T, B.UB[T] + 1)
          /\ C.Score[T][r] = B.UB[T] + 1 \/ C.Score[T][r] = B.Score[T][r]
        BY <1>4 DEF Starts
    <2>2. WaitCountMax[T] \in Nat \ {0}
        BY LimitsAssumption
    <2>3. B.LB[T] < B.Score[T][r] /\ B.Score[T][r] <= B.UB[T]
        BY <1>2 DEF Held, InBracket
    <2>4. C.LB[T] < C.Score[T][r]
        <3>1. CASE C.LB[T] = B.LB[T]
            BY <1>1, <2>1, <2>3, <3>1
        <3>2. CASE C.LB[T] # B.LB[T]
            <4> DEFINE raised == T = "EXP_CNT" /\ (B.UB[T] + 1) - B.LB[T] > WaitCountMax[T]
            <4>3. C.LB[T] = IF raised THEN (B.UB[T] + 1) - WaitCountMax[T] ELSE B.LB[T]
                BY <2>1 DEF raisedLB
            <4>4. raised
                <5> HIDE DEF raised
                <5>. QED  BY <3>2, <4>3
            <4>1. T = "EXP_CNT" /\ C.LB[T] = (B.UB[T] + 1) - WaitCountMax[T]
                <5>1. T = "EXP_CNT"
                    BY <4>4
                <5>2. C.LB[T] = (B.UB[T] + 1) - WaitCountMax[T]
                    <6> HIDE DEF raised
                    <6>. QED  BY <4>3, <4>4
                <5>. QED  BY <5>1, <5>2
            <4>2. B.UB[T] - B.Score[T][r] <= n /\ n + 1 < WaitCountMax[T]
                BY <1>2, <1>4, <4>1 DEF Distance
            <4>. QED  BY <1>1, <2>1, <2>2, <4>1, <4>2
        <3>. QED  BY <3>1, <3>2
    <2>5. C.Score[T][r] <= C.UB[T]
        BY <1>1, <2>1, <2>3
    <2>6. Distance(B, T, r) <= n => Distance(C, T, r) <= m
        BY <1>1, <1>4, <2>1 DEF Distance
    <2>. QED  BY <1>2, <1>3, <2>4, <2>5, <2>6 DEF Traces, Held, InBracket
<1>5. CASE CounterOf(op) # T
    <2>1. C.UB[T] = B.UB[T] /\ C.LB[T] = B.LB[T] /\ C.Score[T] = B.Score[T]
        BY <1>5 DEF Starts
    <2>. QED  BY <1>2, <1>3, <1>5, <2>1 DEF Traces, Held, InBracket, Distance
<1>. QED  BY <1>4, <1>5

\* The registers of an operation that starts.
LEMMA TracesOwn ==
    ASSUME WellFormed(fn), NEW B, Sound(B, ST), NEW op \in Operation, NEW C, Starts(B, op, C),
           NEW T, T = CounterOf(op), NEW r \in Slots, r \in Registers(op), NEW n \in Nat
    PROVE  Traces(C, T, r, n)
<1>1. T \in InstCounterType
    BY EventCounter DEF CounterOf, Operation
<1>2. B.LB[T] \in Nat /\ B.UB[T] \in Nat /\ B.LB[T] <= B.UB[T] /\ WaitCountMax[T] \in Nat \ {0}
    BY <1>1, Numbers, LimitsAssumption DEF Sound
<1>3. /\ C.UB[T] = B.UB[T] + 1 /\ C.LB[T] = raisedLB(B, T, B.UB[T] + 1)
      /\ C.Score[T][r] = B.UB[T] + 1
    BY DEF Starts, Registers
<1>4. C.LB[T] < B.UB[T] + 1
    BY <1>2, <1>3 DEF raisedLB
<1>. QED  BY <1>2, <1>3, <1>4 DEF Traces, Held, InBracket, Distance

LEMMA TracesCovered ==
    ASSUME NEW B, BracketOK(B, ST), NEW C, BracketOK(C, ST), Covers(C, B),
           NEW T \in InstCounterType, NEW r \in Slots, NEW n \in Nat, Traces(B, T, r, n)
    PROVE  Traces(C, T, r, n)
<1>1. /\ B.UB[T] \in Nat /\ C.UB[T] \in Nat /\ B.Score[T][r] \in Nat /\ C.Score[T][r] \in Nat
      /\ B.ST = ST /\ C.ST = ST /\ C.PendingEvents \subseteq WaitEventType
    BY Numbers
<1>2. Held(B, T, r) /\ (counterOutOfOrder(B, T) \/ Distance(B, T, r) <= n)
    BY DEF Traces
<1>3. Held(C, T, r) /\ Distance(C, T, r) <= Distance(B, T, r)
    BY <1>2 DEF Covers
<1>4. counterOutOfOrder(B, T) => counterOutOfOrder(C, T)
    <2>1. PendingOn(B, T) \subseteq PendingOn(C, T) /\ B.PendingEvents \subseteq C.PendingEvents
        BY <1>1 DEF PendingOn, Covers
    <2>. QED  BY <1>1, <2>1, MoreOutOfOrder
<1>. QED  BY <1>1, <1>2, <1>3, <1>4 DEF Traces, Distance

\* A wait for a slot that is traced ends the operation traced.
LEMMA TracesAwaited ==
    ASSUME WellFormed(fn), NEW B, BracketOK(B, ST), NEW T \in InstCounterType, NEW r \in Slots,
           NEW n \in Nat, Traces(B, T, r, n), NEW w \in Nat, w <= determineWait(B, T, r)
    PROVE  w <= n
<1>1. /\ B.UB[T] \in Nat /\ B.Score[T][r] \in Nat /\ B.ST = ST /\ ST \in Nat
    BY Numbers, Code
<1>2. Held(B, T, r) /\ (counterOutOfOrder(B, T) \/ Distance(B, T, r) <= n)
    BY DEF Traces
<1>3. getWaitCountMax(ST, T) - 1 \in Int
    BY <1>1, CountMax
<1>4. B.UB[T] - B.Score[T][r] \in Int
    BY <1>1
<1>5. determineWait(B, T, r) = 0 \/ determineWait(B, T, r) <= n
    <2>1. CASE counterOutOfOrder(B, T)
        BY <1>2, <2>1 DEF determineWait, Held
    <2>2. CASE ~counterOutOfOrder(B, T)
        <3>1. B.UB[T] - B.Score[T][r] <= n
            BY <1>2, <2>2 DEF Distance
        <3>2. Least(B.UB[T] - B.Score[T][r], getWaitCountMax(B.ST, T) - 1) <= n
            BY <1>1, <1>3, <1>4, <3>1 DEF Least
        <3>3. \/ determineWait(B, T, r) = 0
              \/ determineWait(B, T, r) =
                    Least(B.UB[T] - B.Score[T][r], getWaitCountMax(B.ST, T) - 1)
            BY <1>2, <2>2 DEF determineWait, Held
        <3>. QED  BY <3>2, <3>3
    <2>. QED  BY <2>1, <2>2
<1>6. determineWait(B, T, r) \in Int
    BY <1>1, <1>2, <1>3, <1>4 DEF determineWait, Held, Least
<1>. QED  BY <1>5, <1>6

\* The operations that follow one, as the queue changes.
LEMMA LaterCount ==
    ASSUME NEW q \in Seq(Operation), NEW j \in 1..Len(q)
    PROVE  /\ IsFiniteSet(Later(q, j)) /\ Cardinality(Later(q, j)) \in Nat
           /\ Cardinality(Later(q, j)) + 1 <= Outstanding(CounterOf(q[j]), q)
<1> DEFINE T == CounterOf(q[j])
           D == {k \in 1..Len(q) : CounterOf(q[k]) = T}
           L == Later(q, j)
<1>1. D \in SUBSET (1..Len(q)) /\ IsFiniteSet(1..Len(q))
    BY FS_Interval
<1>2. L \in SUBSET (1..Len(q)) /\ L \cup {j} \in SUBSET D /\ j \notin L
    BY DEF Later
<1>3. Outstanding(T, q) = Cardinality(D)
    BY DEF Outstanding
<1> HIDE DEF T, D, L
<1>4. IsFiniteSet(D) /\ IsFiniteSet(L)
    BY <1>1, <1>2, FS_Subset
<1>5. Cardinality(D) \in Nat /\ Cardinality(L) \in Nat
    BY <1>4, FS_CardinalityType
<1>6. IsFiniteSet(L \cup {j}) /\ Cardinality(L \cup {j}) = Cardinality(L) + 1
    BY <1>2, <1>4, FS_AddElement
<1>7. Cardinality(L \cup {j}) <= Cardinality(D)
    BY <1>2, <1>4, FS_Subset
<1>. QED  BY <1>3, <1>4, <1>5, <1>6, <1>7 DEF T, L

LEMMA OutstandingAppend ==
    ASSUME NEW q \in Seq(Operation), NEW op \in Operation, NEW T
    PROVE  Outstanding(T, Append(q, op))
              = Outstanding(T, q) + (IF CounterOf(op) = T THEN 1 ELSE 0)
<1> DEFINE a == Append(q, op)
           D == {k \in 1..Len(q) : CounterOf(q[k]) = T}
           E == {k \in 1..Len(a) : CounterOf(a[k]) = T}
           n == Len(q) + 1
<1>1. /\ a \in Seq(Operation) /\ Len(a) = n /\ Len(q) \in Nat
      /\ \A i \in 1..Len(q) : a[i] = q[i]
      /\ a[n] = op
    BY AppendProperties, LenProperties
<1>2. D \in SUBSET (1..Len(q)) /\ IsFiniteSet(1..Len(q))
    BY <1>1, FS_Interval
<1> HIDE DEF a
<1>3. \A k : k \in 1..Len(a) <=> (k \in 1..Len(q) \/ k = n)
    BY <1>1
<1>4. E = IF CounterOf(op) = T THEN D \cup {n} ELSE D
    BY <1>1, <1>3
<1>5. n \notin D
    BY <1>1
<1>6. Outstanding(T, q) = Cardinality(D) /\ Outstanding(T, a) = Cardinality(E)
    BY DEF Outstanding
<1> HIDE DEF D, E, n
<1>7. IsFiniteSet(D) /\ Cardinality(D) \in Nat
    BY <1>2, FS_Subset, FS_CardinalityType
<1>8. Cardinality(D \cup {n}) = Cardinality(D) + 1
    BY <1>5, <1>7, FS_AddElement
<1>. QED  BY <1>4, <1>6, <1>7, <1>8 DEF a

LEMMA LaterAppend ==
    ASSUME NEW q \in Seq(Operation), NEW op \in Operation, NEW j \in 1..Len(q)
    PROVE  Cardinality(Later(Append(q, op), j))
              = IF CounterOf(op) = CounterOf(q[j]) THEN Cardinality(Later(q, j)) + 1
                ELSE Cardinality(Later(q, j))
<1> DEFINE a == Append(q, op)
           n == Len(q) + 1
           D == Later(q, j)
           E == Later(a, j)
<1>1. /\ a \in Seq(Operation) /\ Len(a) = n /\ Len(q) \in Nat
      /\ \A i \in 1..Len(q) : a[i] = q[i]
      /\ a[n] = op
    BY AppendProperties, LenProperties
<1> HIDE DEF a
<1>3. \A k : k \in 1..Len(a) <=> (k \in 1..Len(q) \/ k = n)
    BY <1>1
<1>4. E = IF CounterOf(op) = CounterOf(q[j]) THEN D \cup {n} ELSE D
    BY <1>1, <1>3 DEF Later
<1>5. n \notin D
    BY <1>1 DEF Later
<1> HIDE DEF D, E, n
<1>6. IsFiniteSet(D)
    BY LaterCount DEF D
<1>7. Cardinality(D \cup {n}) = Cardinality(D) + 1
    BY <1>5, <1>6, FS_AddElement
<1>. QED  BY <1>4, <1>7 DEF a, D, E

\* None is lost that is not taken out.
LEMMA LaterRemoved ==
    ASSUME NEW q \in Seq(Operation), NEW m \in 1..Len(q), NEW p, p = RemoveAt(q, m),
           NEW j \in 1..Len(p), NEW i, i = (IF j < m THEN j ELSE j + 1), m \notin Later(q, i)
    PROVE  Cardinality(Later(q, i)) <= Cardinality(Later(p, j))
<1> DEFINE A == Later(q, i)
           B == Later(p, j)
           f == [x \in A |-> IF x < m THEN x ELSE x - 1]
<1>1. /\ p \in Seq(Operation) /\ Len(p) = Len(q) - 1 /\ Len(q) \in Nat
      /\ \A k \in 1..Len(q) - 1 : p[k] = IF k < m THEN q[k] ELSE q[k + 1]
    BY Removed
<1>2. i \in 1..Len(q) /\ p[j] = q[i] /\ i # m
    BY <1>1
<1>3. ASSUME NEW x \in A
      PROVE  f[x] \in B
    <2>1. x \in 1..Len(q) /\ x > i /\ CounterOf(q[x]) = CounterOf(q[i]) /\ x # m
        BY <1>3 DEF Later
    <2>2. f[x] = IF x < m THEN x ELSE x - 1
        BY <1>3
    <2> HIDE DEF f
    <2>3. f[x] \in 1..Len(p) /\ f[x] > j
        BY <1>1, <1>2, <2>1, <2>2
    <2>4. p[f[x]] = q[x]
        <3>1. CASE x < m
            BY <1>1, <2>1, <2>2, <2>3, <3>1
        <3>2. CASE ~(x < m)
            <4>1. x - 1 \in 1..Len(q) - 1 /\ ~(x - 1 < m) /\ (x - 1) + 1 = x
                BY <1>1, <2>1, <3>2
            <4>2. p[x - 1] = q[(x - 1) + 1]
                BY <1>1, <4>1
            <4>. QED  BY <2>2, <3>2, <4>1, <4>2
        <3>. QED  BY <3>1, <3>2
    <2>. QED  BY <1>2, <2>1, <2>3, <2>4 DEF Later
<1>4. ASSUME NEW x \in A, NEW y \in A, f[x] = f[y]
      PROVE  x = y
    <2>1. x \in 1..Len(q) /\ x # m /\ y \in 1..Len(q) /\ y # m
        BY <1>4 DEF Later
    <2>. QED  BY <1>4, <2>1
<1>5. IsFiniteSet(B)
    BY <1>1, LaterCount
<1> HIDE DEF A, B
<1>6. f \in [A -> B]
    BY <1>3
<1>7. f \in Injection(A, B)
    BY <1>4, <1>6 DEF Injection, IsInjective
<1> HIDE DEF f
<1>8. Cardinality(A) <= Cardinality(B)
    BY <1>5, <1>7, FS_Injection
<1>. QED  BY <1>8 DEF A, B

-----------------------------------------------------------------------------
(* The kinds of exports that the brackets know of are those of the function.  *)

ExportedBy(f, E) ==
    \E b \in 1..Len(f.code) : \E k \in 1..Len(f.code[b]) : E \in Exports(f.gen, f.code[b][k])

ExportsKnown(B) == \A E \in B.PendingEvents \cap ExpEvents : ExportedBy(fn, E)

ExportsOK ==
    ExportsKnown(ScoreBrackets) /\ \A b \in DOMAIN Incoming : ExportsKnown(Incoming[b])

LEMMA NoStoreExported ==
    ASSUME NEW st
    PROVE  WaitEventMask(st)["STORE_CNT"] \cap ExpEvents = {}
BY DEF WaitEventMask, WaitEventMaskForInstPreGFX12, WaitEventMaskForInstGFX12Plus, ExpEvents

LEMMA ExportsNew == ExportsKnown(NewBrackets(ST))
BY DEF NewBrackets, ExportsKnown

LEMMA ExportsEntry ==
    ASSUME NEW B \in BracketsType, ExportsKnown(B)
    PROVE  ExportsKnown(setStateOnFunctionEntryOrReturn(B))
<1> DEFINE C == setStateOnFunctionEntryOrReturn(B)
<1>1. C.PendingEvents = B.PendingEvents \cup WaitEventMask(B.ST)["STORE_CNT"]
    BY EntryView
<1> HIDE DEF C
<1>. QED  BY <1>1, NoStoreExported DEF ExportsKnown, C

\* An instruction of the function adds the exports it has.
LEMMA ExportsAfter ==
    ASSUME WellFormed(fn), NEW b \in Blocks, NEW k \in Nat, k > 0, k <= Length(b),
           NEW I, I = fn.code[b][k], NEW B, Sound(B, ST), ExportsKnown(B)
    PROVE  ExportsKnown(updateEventWaitcntAfter(B, I))
<1>1. b \in 1..Len(fn.code) /\ k \in 1..Len(fn.code[b]) /\ I \in Instruction /\ Sensible(I)
      /\ Length(b) \in Nat
    <2>1. b \in 1..Len(fn.code) /\ Length(b) \in Nat /\ I \in Instruction
        BY Code DEF Blocks
    <2>2. k \in 1..Len(fn.code[b])
        BY <2>1 DEF Length
    <2>. QED  BY <2>1, <2>2 DEF WellFormed
<1>2. \A E : E \in Exports(ST, I) => ExportedBy(fn, E)
    BY <1>1 DEF ExportedBy, ST
<1> DEFINE After == updateEventWaitcntAfter(B, I)
<1>3. ASSUME NEW C, NEW op, NEW D, ExportsKnown(C), Fits(op, I), Starts(C, op, D)
      PROVE  ExportsKnown(D)
    BY <1>2, <1>3 DEF ExportsKnown, Fits, Starts
<1>4. CASE I.kind = "call"
    <2> DEFINE D == applyWaitcnt(B, getAllZeroWaitcnt)
    <2>1. After = setStateOnFunctionEntryOrReturn(D)
        BY <1>4 DEF updateEventWaitcntAfter, isVMEMOrFLAT
    <2>2. Sound(D, ST) /\ D.PendingEvents \subseteq B.PendingEvents
        BY NoWaitsType, ApplyWaited DEF Waited
    <2> HIDE DEF D
    <2>3. ExportsKnown(D) /\ D \in BracketsType
        BY <2>2 DEF ExportsKnown, Sound, BracketOK
    <2>. QED  BY <2>1, <2>3, ExportsEntry
<1>5. CASE I.kind # "call"
    <2>1. \/ Ops(I) = <<>> /\ After = B
          \/ \E op : Fits(op, I) /\ Ops(I) = <<op>> /\ Starts(B, op, After)
          \/ \E first, second, C :
                /\ Fits(first, I) /\ Fits(second, I) /\ Ops(I) = <<first>> \o <<second>>
                /\ Starts(B, first, C) /\ Starts(C, second, After)
        BY <1>1, <1>5, Chain
    <2> HIDE DEF After
    <2>. QED  BY <1>3, <2>1 DEF After
<1>. QED  BY <1>4, <1>5

LEMMA ExportsInit ==
    ASSUME Init
    PROVE  ExportsOK
<1>1. WellFormed(fn) /\ ST \in Generations
    BY FunctionsAssumption, Code DEF Init
<1>2. NewBrackets(ST) \in BracketsType
    BY <1>1, NewOK DEF BracketOK
<1>3. ExportsKnown(setStateOnFunctionEntryOrReturn(NewBrackets(ST)))
    BY <1>2, ExportsNew, ExportsEntry
<1>4. ScoreBrackets = NewBrackets(ST)
      /\ \A b \in DOMAIN Incoming : Incoming[b] = setStateOnFunctionEntryOrReturn(NewBrackets(ST))
    BY DEF Init
<1>. QED  BY <1>3, <1>4, ExportsNew DEF ExportsOK

LEMMA ExportsStart ==
    ASSUME ExportsOK, StartBlock
    PROVE  ExportsOK'
<1>1. fn' = fn /\ Incoming' = Incoming
      /\ \E b : ScoreBrackets' = IF b \in DOMAIN Incoming THEN Incoming[b] ELSE NewBrackets(ST)
    BY DEF StartBlock
<1>2. ExportsKnown(ScoreBrackets')
    BY <1>1, ExportsNew DEF ExportsOK
<1>. QED  BY <1>1, <1>2 DEF ExportsOK, ExportsKnown

LEMMA ExportsVisit ==
    ASSUME IInv, PassOK, ExportsOK, VisitInstruction
    PROVE  ExportsOK'
<1> DEFINE I == Inst
           W == generatedWait(ScoreBrackets, at,
                              simplifyWaitcnt(ScoreBrackets, RequiredWait(ScoreBrackets, I)))
<1>1. /\ WellFormed(fn) /\ fn' = fn /\ Sound(ScoreBrackets, ST) /\ Incoming' = Incoming
      /\ Hard \in [Places -> Waitcnt] /\ at[2] > 0 /\ at[2] <= Length(at[1])
    BY DEF IInv, VariableTypes, PassOK, VisitInstruction
<1>2. at \in Places /\ at[1] \in Blocks /\ at[2] \in Nat /\ I \in Instruction
    BY <1>1, InstOK
<1>3. I = fn.code[at[1]][at[2]]
    BY DEF Inst
<1>4. ScoreBrackets' = updateEventWaitcntAfter(bracketsBefore(ScoreBrackets, I, W), I)
    BY DEF VisitInstruction
<1>5. W \in Waitcnt
    <2> HIDE DEF I
    <2>. QED  BY <1>1, <1>2, GeneratedStrong
<1> HIDE DEF I, W
<1> DEFINE B == bracketsBefore(ScoreBrackets, I, W)
<1>6. Sound(B, ST) /\ B.PendingEvents \subseteq ScoreBrackets.PendingEvents
    BY <1>1, <1>2, <1>5, BeforeWaited DEF Waited
<1> HIDE DEF B
<1>7. ExportsKnown(B)
    BY <1>6 DEF ExportsOK, ExportsKnown
<1>8. ExportsKnown(updateEventWaitcntAfter(B, I))
    BY <1>1, <1>2, <1>3, <1>6, <1>7, ExportsAfter
<1>9. ExportsKnown(ScoreBrackets')
    BY <1>4, <1>8 DEF B
<1>. QED  BY <1>1, <1>9 DEF ExportsOK, ExportsKnown

LEMMA ExportsEnd ==
    ASSUME IInv, PassOK, ExportsOK, EndBlock
    PROVE  ExportsOK'
<1> DEFINE b == at[1]
           W(flush) == generatedWait(ScoreBrackets, at, flushWait(ScoreBrackets, flush))
<1>1. /\ WellFormed(fn) /\ fn' = fn /\ Sound(ScoreBrackets, ST)
      /\ \A s \in DOMAIN Incoming : Sound(Incoming[s], ST)
      /\ ScoreBrackets \in BracketsType
    BY DEF IInv, VariableTypes, PassOK, EndBlock
<1>2. PICK flush, V, B :
         /\ flush \in FlushChoices(b)
         /\ V = W(flush) /\ B = applyWaitcnt(ScoreBrackets, V)
         /\ ScoreBrackets' = B
         /\ Incoming' = IF B.PendingEvents = {} THEN Incoming ELSE joinSuccessors(b, B)
    BY DEF EndBlock
<1>3. B.PendingEvents \subseteq ScoreBrackets.PendingEvents
    BY <1>1, <1>2, ApplyView
<1>4. ExportsKnown(B)
    BY <1>3 DEF ExportsOK, ExportsKnown
<1>5. ASSUME NEW s \in DOMAIN Incoming'
      PROVE  ExportsKnown(Incoming'[s])
    <2>1. CASE Incoming' = Incoming
        BY <1>5, <2>1 DEF ExportsOK
    <2>2. CASE Incoming' = joinSuccessors(b, B)
        <3>1. \/ Incoming'[s] = B
              \/ s \in DOMAIN Incoming /\ Incoming'[s] = Incoming[s]
              \/ s \in DOMAIN Incoming /\ Incoming'[s] = merge(Incoming[s], B)
            BY <1>5, <2>2 DEF joinSuccessors
        <3>2. ASSUME s \in DOMAIN Incoming
              PROVE  ExportsKnown(merge(Incoming[s], B))
            <4>1. Incoming[s] \in BracketsType /\ B \in BracketsType
                <5>1. BracketOK(B, ST)
                    BY EndBlockInv, <1>1, <1>2, SameFunction DEF IInv, BracketsOK
                <5>. QED  BY <1>1, <3>2, <5>1 DEF Sound, BracketOK
            <4>2. merge(Incoming[s], B).PendingEvents = Incoming[s].PendingEvents \cup B.PendingEvents
                BY <4>1, MergeView
            <4>3. ExportsKnown(Incoming[s])
                BY <3>2 DEF ExportsOK
            <4>. QED  BY <1>4, <4>2, <4>3 DEF ExportsKnown
        <3>. QED  BY <1>4, <3>1, <3>2 DEF ExportsOK
    <2>. QED  BY <1>2, <2>1, <2>2
<1>. QED  BY <1>1, <1>2, <1>4, <1>5 DEF ExportsOK, ExportsKnown

\* Other steps leave the brackets of the pass as they are.
LEMMA ExportsSame ==
    ASSUME ExportsOK, fn' = fn, ScoreBrackets' = ScoreBrackets, Incoming' = Incoming
    PROVE  ExportsOK'
BY DEF ExportsOK, ExportsKnown

-----------------------------------------------------------------------------
(* The operations in flight are traced.                                       *)
(*                                                                            *)
(* Exports of several kinds are not: the lower bound of their counter rises   *)
(* with the number in flight, as if the oldest were the first to end.  Nor,   *)
(* on targets where they end out of order, are instructions that go to both   *)
(* memories: brackets tell them apart from others only while they are recent. *)

\* All the exports of f, the locks of stores and of GDS, and the loads by the
\* export path are of one kind.
ExportsAlike(f) == \A E, F \in ExpEvents : ExportedBy(f, E) /\ ExportedBy(f, F) => E = F

\* No instruction of f ends out of order for going to both memories.
FlatInOrder(f) ==
    \/ hasFlatLgkmVMemCountInOrder(f.gen)
    \/ \A b \in 1..Len(f.code) : \A k \in 1..Len(f.code[b]) : OneMemory(f.code[b][k])

Reliable(T) == IF T = "EXP_CNT" THEN ExportsAlike(fn) ELSE FlatInOrder(fn)

\* Which counters tell of which registers, and what ends in order.
Tidy(op) ==
    /\ op \in Operation
    /\ \A r \in op.writes :
          \/ r \in Vgprs /\ CounterOf(op) \in {"LOAD_CNT", "SAMPLE_CNT", "BVH_CNT", "DS_CNT"}
          \/ r \in Vgprs /\ op.ev = "EXP_LDS_ACCESS"
          \/ r \in Sgprs /\ CounterOf(op) = SmemAccessCounter(ST)
    /\ op.locks # {} => CounterOf(op) = "EXP_CNT"
    /\ Reliable(CounterOf(op)) /\ op.flat =>
          hasFlatLgkmVMemCountInOrder(ST) \/ CounterOf(op) = "STORE_CNT"

OpTraced(B, q, j) ==
    LET T == CounterOf(q[j]) IN
    Reliable(T) => \A r \in Registers(q[j]) : Traces(B, T, r, Cardinality(Later(q, j)))

AllTraced(B, q) == \A j \in 1..Len(q) : Tidy(q[j]) /\ OpTraced(B, q, j)

\* The registers of operations are slots.
LEMMA RegisterSlots ==
    ASSUME NEW op \in Operation
    PROVE  Registers(op) \subseteq Slots
BY DEF Operation, Registers, Slots

\* An operation of the function's own.
LEMMA FitsTidy ==
    ASSUME WellFormed(fn), NEW b \in Blocks, NEW k \in Nat, k > 0, k <= Length(b),
           NEW I, I = fn.code[b][k], NEW op, Fits(op, I)
    PROVE  Tidy(op)
<1>1. b \in 1..Len(fn.code) /\ k \in 1..Len(fn.code[b])
    <2>1. b \in 1..Len(fn.code) /\ Length(b) \in Nat
        BY Code DEF Blocks
    <2>. QED  BY <2>1 DEF Length
<1>2. ASSUME Reliable(CounterOf(op)), op.flat
      PROVE  hasFlatLgkmVMemCountInOrder(ST)
    <2>1. ~OneMemory(I)
        BY <1>2 DEF Fits
    <2>2. CASE CounterOf(op) # "EXP_CNT"
        BY <1>1, <1>2, <2>1, <2>2 DEF Reliable, FlatInOrder, ST
    <2>3. CASE CounterOf(op) = "EXP_CNT"
        <3>1. op.ev \in WaitEventMask(ST)["EXP_CNT"]
            <4>1. op \in Operation
                BY DEF Fits
            <4>. QED  BY <2>3, <4>1, EventOfCounter
        <3>2. op.ev \in ExpEvents
            BY <3>1 DEF WaitEventMask, WaitEventMaskForInstPreGFX12,
                        WaitEventMaskForInstGFX12Plus
        <3>3. op.ev \in Exports(ST, I)
            BY <3>2 DEF Fits
        <3>4. ~isVMEMOrFLAT(I) \/ I.seg = "buffer"
            BY <3>3 DEF Exports, isVMEMOrFLAT
        <3>. QED  BY <2>1, <3>4 DEF OneMemory, mayAccessLDSThroughFlat
    <2>. QED  BY <2>2, <2>3
<1>. QED  BY <1>2 DEF Fits, Tidy

\* A store has no registers to wait for.
LEMMA StoreTidy ==
    ASSUME NEW I, NEW op, Fits(op, I), CounterOf(op) = "STORE_CNT"
    PROVE  Tidy(op) /\ Registers(op) = {}
<1>1. "STORE_CNT" # SmemAccessCounter(ST) /\ op.ev # "EXP_LDS_ACCESS"
    <2>1. op.ev = "EXP_LDS_ACCESS" => CounterOf(op) = "EXP_CNT"
        BY Counters DEF CounterOf, ExpEvents
    <2>. QED  BY <2>1 DEF SmemAccessCounter
<1>2. op.writes = {} /\ op.locks = {}
    BY <1>1 DEF Fits
<1>. QED  BY <1>2 DEF Fits, Tidy, Registers

LEMMA TidyStore ==
    ASSUME NEW op, Tidy(op), CounterOf(op) = "STORE_CNT"
    PROVE  Registers(op) = {}
<1>1. "STORE_CNT" # SmemAccessCounter(ST) /\ op.ev # "EXP_LDS_ACCESS"
    <2>1. op.ev = "EXP_LDS_ACCESS" => CounterOf(op) = "EXP_CNT"
        BY Counters DEF CounterOf, ExpEvents
    <2>. QED  BY <2>1 DEF SmemAccessCounter
<1>2. op.writes = {} /\ op.locks = {}
    BY <1>1 DEF Tidy
<1>. QED  BY <1>2 DEF Registers

\* Exports of one kind are counted in order.
LEMMA AlikeInOrder ==
    ASSUME NEW B, Sound(B, ST), ExportsKnown(B), ExportsAlike(fn)
    PROVE  ~counterOutOfOrder(B, "EXP_CNT")
<1>1. PendingOn(B, "EXP_CNT") \subseteq B.PendingEvents \cap ExpEvents
    BY DEF PendingOn, WaitEventMask, WaitEventMaskForInstPreGFX12, WaitEventMaskForInstGFX12Plus
<1>2. \A E, F \in PendingOn(B, "EXP_CNT") : E = F
    BY <1>1 DEF ExportsKnown, ExportsAlike
<1>3. B.PendingEvents \subseteq WaitEventType
    BY Numbers DEF Sound, BracketOK, BracketsType
<1>4. "EXP_CNT" # SmemAccessCounter(B.ST)
    BY DEF SmemAccessCounter
<1>. QED  BY <1>2, <1>3, <1>4, OneEvent

LEMMA AllWaited ==
    ASSUME WellFormed(fn), NEW B, Sound(B, ST), NEW W \in Waitcnt, NEW C, Waited(B, W, C),
           NEW q \in Seq(Operation), \A T \in InstCounterType : Outstanding(T, q) <= W[T],
           AllTraced(B, q)
    PROVE  AllTraced(C, q)
<1>. SUFFICES ASSUME NEW j \in 1..Len(q)
              PROVE  Tidy(q[j]) /\ OpTraced(C, q, j)
    BY DEF AllTraced
<1>1. Tidy(q[j]) /\ OpTraced(B, q, j) /\ q[j] \in Operation
    BY DEF AllTraced
<1> DEFINE T == CounterOf(q[j])
           n == Cardinality(Later(q, j))
<1>2. T \in InstCounterType
    BY <1>1, EventOfCounter
<1>3. n \in Nat /\ n + 1 <= Outstanding(T, q) /\ Outstanding(T, q) \in Nat
    BY LaterCount, Counted
<1>4. W[T] \in Nat /\ Outstanding(T, q) <= W[T]
    BY <1>2 DEF Waitcnt
<1>5. ASSUME Reliable(T), NEW r \in Registers(q[j])
      PROVE  Traces(C, T, r, n)
    <2>1. r \in Slots /\ Traces(B, T, r, n)
        BY <1>1, <1>5, RegisterSlots DEF OpTraced
    <2>2. n + 1 <= W[T]
        BY <1>3, <1>4
    <2> HIDE DEF T, n
    <2>. QED  BY <1>2, <1>3, <2>1, <2>2, TracesWaited
<1>. QED  BY <1>1, <1>5 DEF OpTraced

LEMMA AllStarted ==
    ASSUME WellFormed(fn), NEW B, Sound(B, ST), NEW op, Tidy(op), NEW C, Starts(B, op, C),
           NEW q \in Seq(Operation), AllTraced(B, q), ExportsKnown(B),
           CounterOf(op) = "EXP_CNT" =>
              Outstanding("EXP_CNT", Append(q, op)) <= WaitCountMax["EXP_CNT"]
    PROVE  AllTraced(C, Append(q, op))
<1> DEFINE a == Append(q, op)
           n == Len(q) + 1
<1>1. op \in Operation
    BY DEF Tidy
<1>2. /\ a \in Seq(Operation) /\ Len(a) = n /\ Len(q) \in Nat
      /\ \A i \in 1..Len(q) : a[i] = q[i]
      /\ a[n] = op
    BY <1>1, AppendProperties, LenProperties
<1> HIDE DEF a
<1>3. ASSUME NEW j \in 1..Len(q)
      PROVE  Tidy(a[j]) /\ OpTraced(C, a, j)
    <2>1. Tidy(q[j]) /\ OpTraced(B, q, j) /\ q[j] \in Operation /\ a[j] = q[j]
        BY <1>2 DEF AllTraced
    <2> DEFINE T == CounterOf(q[j])
               l == Cardinality(Later(q, j))
               m == Cardinality(Later(a, j))
    <2>2. T \in InstCounterType
        BY <2>1, EventOfCounter
    <2>3. l \in Nat /\ l + 1 <= Outstanding(T, q) /\ Outstanding(T, q) \in Nat
        BY LaterCount, Counted
    <2>4. m = IF CounterOf(op) = T THEN l + 1 ELSE l
        BY <1>1, LaterAppend DEF a
    <2>5. ASSUME Reliable(T), NEW r \in Registers(q[j])
          PROVE  Traces(C, T, r, m)
        <3>1. r \in Slots /\ Traces(B, T, r, l)
            BY <2>1, <2>5, RegisterSlots DEF OpTraced
        <3>2. ASSUME CounterOf(op) = T, T = "EXP_CNT"
              PROVE  ~counterOutOfOrder(B, T) /\ l + 1 < WaitCountMax[T]
            <4>1. ~counterOutOfOrder(B, "EXP_CNT")
                BY <2>5, <3>2, AlikeInOrder DEF Reliable
            <4>2. Outstanding(T, a) = Outstanding(T, q) + 1
                BY <1>1, <3>2, OutstandingAppend DEF a
            <4>3. Outstanding(T, a) <= WaitCountMax[T] /\ WaitCountMax[T] \in Nat
                BY <2>2, <3>2, LimitsAssumption DEF a
            <4> HIDE DEF T, l
            <4>. QED  BY <2>3, <3>2, <4>1, <4>2, <4>3
        <3>3. m \in Nat
            BY <2>3, <2>4
        <3> HIDE DEF T, l, m
        <3>. QED  BY <1>1, <2>2, <2>3, <2>4, <3>1, <3>2, <3>3, TracesStarted
    <2>. QED  BY <2>1, <2>5 DEF OpTraced
<1>4. Tidy(a[n]) /\ OpTraced(C, a, n)
    <2> DEFINE m == Cardinality(Later(a, n))
    <2>1. n \in 1..Len(a)
        BY <1>2
    <2>2. m \in Nat
        BY <1>2, <2>1, LaterCount
    <2>3. Registers(op) \subseteq Slots
        BY <1>1, RegisterSlots
    <2>4. ASSUME NEW r \in Registers(op)
          PROVE  Traces(C, CounterOf(op), r, m)
        <3> HIDE DEF m
        <3>. QED  BY <1>1, <2>2, <2>3, <2>4, TracesOwn
    <2>. QED  BY <1>2, <2>4 DEF OpTraced
<1>5. \A j : j \in 1..Len(a) <=> (j \in 1..Len(q) \/ j = n)
    BY <1>2
<1>. QED  BY <1>3, <1>4, <1>5 DEF AllTraced, a

LEMMA OutstandingFew ==
    ASSUME NEW a \in Operation, NEW b \in Operation, NEW T
    PROVE  /\ Outstanding(T, <<a>>) = IF CounterOf(a) = T THEN 1 ELSE 0
           /\ Outstanding(T, <<a>> \o <<b>>)
                 = (IF CounterOf(a) = T THEN 1 ELSE 0) + (IF CounterOf(b) = T THEN 1 ELSE 0)
<1> DEFINE one == IF CounterOf(a) = T THEN 1 ELSE 0
           two == IF CounterOf(b) = T THEN 1 ELSE 0
           none == <<>>
           s == <<a>>
           p == <<a>> \o <<b>>
<1>1. Outstanding(T, none) = 0
    <2>1. {k \in 1..Len(none) : CounterOf(none[k]) = T} = {}
        OBVIOUS
    <2>. QED  BY <2>1, FS_EmptySet DEF Outstanding
<1>2. none \in Seq(Operation) /\ s \in Seq(Operation) /\ one \in Nat
    OBVIOUS
<1>3. Append(none, a) = s
    OBVIOUS
<1>4. Append(s, b) = p
    BY <1>2, Appended
<1>5. Outstanding(T, Append(none, a)) = Outstanding(T, none) + one
    BY <1>2, OutstandingAppend
<1>6. Outstanding(T, Append(s, b)) = Outstanding(T, s) + two
    BY <1>2, OutstandingAppend
<1> HIDE DEF none, s, p, one, two
<1>7. Outstanding(T, s) = one
    BY <1>1, <1>2, <1>3, <1>5
<1>8. Outstanding(T, p) = one + two
    BY <1>4, <1>6, <1>7
<1>. QED  BY <1>7, <1>8 DEF s, p, one, two

\* The operations an instruction of the function starts are traced.
LEMMA IssueTraced ==
    ASSUME WellFormed(fn), NEW B, Sound(B, ST), NEW b \in Blocks, NEW k \in Nat, k > 0,
           k <= Length(b), NEW I, I = fn.code[b][k], I.kind # "call",
           NEW q \in Seq(Operation), AllTraced(B, q), ExportsKnown(B),
           Outstanding("EXP_CNT", Ops(I)) > 0 =>
              Outstanding("EXP_CNT", q) + Outstanding("EXP_CNT", Ops(I)) <= WaitCountMax["EXP_CNT"]
    PROVE  AllTraced(updateEventWaitcntAfter(B, I), q \o Ops(I))
<1> DEFINE After == updateEventWaitcntAfter(B, I)
           T == "EXP_CNT"
<1>1. I \in Instruction /\ Sensible(I)
    <2>1. b \in 1..Len(fn.code) /\ Length(b) \in Nat /\ I \in Instruction
        BY Code DEF Blocks
    <2>2. k \in 1..Len(fn.code[b])
        BY <2>1 DEF Length
    <2>. QED  BY <2>1, <2>2 DEF WellFormed
<1>2. \/ Ops(I) = <<>> /\ After = B
      \/ \E op : Fits(op, I) /\ Ops(I) = <<op>> /\ Starts(B, op, After)
      \/ \E first, second, C :
            /\ Fits(first, I) /\ Fits(second, I) /\ Ops(I) = <<first>> \o <<second>>
            /\ Starts(B, first, C) /\ Starts(C, second, After)
    BY <1>1, Chain
<1>3. ASSUME NEW op, Fits(op, I)
      PROVE  Tidy(op) /\ op \in Operation
    BY <1>3, FitsTidy DEF Tidy
<1>4. /\ Outstanding(T, q) \in Nat /\ WaitCountMax[T] \in Nat
    BY Counted, LimitsAssumption DEF InstCounterType
<1> HIDE DEF After
<1>5. CASE Ops(I) = <<>> /\ After = B
    <2>1. q \o <<>> = q
        BY ConcatEmptySeq
    <2>. QED  BY <1>5, <2>1 DEF After
<1>6. CASE \E op : Fits(op, I) /\ Ops(I) = <<op>> /\ Starts(B, op, After)
    <2>1. PICK op : Fits(op, I) /\ Ops(I) = <<op>> /\ Starts(B, op, After)
        BY <1>6
    <2>2. op \in Operation /\ Tidy(op)
        BY <1>3, <2>1
    <2>3. q \o Ops(I) = Append(q, op)
        BY <2>1, <2>2, Appended
    <2>4. CounterOf(op) = T => Outstanding(T, Append(q, op)) <= WaitCountMax[T]
        <3>1. Outstanding(T, Ops(I)) = IF CounterOf(op) = T THEN 1 ELSE 0
            BY <2>1, <2>2, OutstandingFew
        <3>2. Outstanding(T, Append(q, op))
                 = Outstanding(T, q) + (IF CounterOf(op) = T THEN 1 ELSE 0)
            BY <2>2, OutstandingAppend
        <3>. QED  BY <1>4, <3>1, <3>2
    <2>5. AllTraced(After, Append(q, op))
        BY <2>1, <2>2, <2>4, AllStarted
    <2>. QED  BY <2>3, <2>5 DEF After
<1>7. CASE \E first, second, C :
              /\ Fits(first, I) /\ Fits(second, I) /\ Ops(I) = <<first>> \o <<second>>
              /\ Starts(B, first, C) /\ Starts(C, second, After)
    <2>1. PICK first, second, C :
              /\ Fits(first, I) /\ Fits(second, I) /\ Ops(I) = <<first>> \o <<second>>
              /\ Starts(B, first, C) /\ Starts(C, second, After)
        BY <1>7
    <2>2. /\ first \in Operation /\ second \in Operation /\ Tidy(first) /\ Tidy(second)
          /\ Fits(first, I)
        BY <1>3, <2>1
    <2> DEFINE p == Append(q, first)
               one == IF CounterOf(first) = T THEN 1 ELSE 0
               two == IF CounterOf(second) = T THEN 1 ELSE 0
    <2>3. q \o Ops(I) = Append(p, second)
        <3>1. Ops(I) = <<first>> \o <<second>>
            BY <2>1
        <3>2. q \o (<<first>> \o <<second>>) = Append(Append(q, first), second)
            BY <2>2, Appended
        <3>. QED  BY <3>1, <3>2, Zenon
    <2>4. p \in Seq(Operation)
        BY <2>2, AppendProperties
    <2>5. Outstanding(T, Ops(I)) = one + two
        <3>1. Outstanding(T, <<first>> \o <<second>>) = one + two
            BY <2>2, OutstandingFew
        <3>2. Ops(I) = <<first>> \o <<second>>
            BY <2>1
        <3>. QED  BY <3>1, <3>2, Zenon
    <2>6. Outstanding(T, p) = Outstanding(T, q) + one
        BY <2>2, OutstandingAppend
    <2>7. Outstanding(T, Append(p, second)) = Outstanding(T, p) + two
        <3> HIDE DEF p
        <3>. QED  BY <2>2, <2>4, OutstandingAppend
    <2>8. ExportsKnown(C) /\ Sound(C, ST)
        <3>1. first.ev \in ExpEvents => ExportedBy(fn, first.ev)
            <4>1. b \in 1..Len(fn.code) /\ Length(b) \in Nat
                BY Code DEF Blocks
            <4>2. k \in 1..Len(fn.code[b])
                BY <4>1 DEF Length
            <4>. QED  BY <2>2, <4>1, <4>2 DEF Fits, ExportedBy, ST
        <3>. QED  BY <2>1, <3>1 DEF ExportsKnown, Starts
    <2>9. CounterOf(first) = T => Outstanding(T, p) <= WaitCountMax[T]
        <3> HIDE DEF p
        <3>. QED  BY <1>4, <2>5, <2>6
    <2>10. AllTraced(C, p)
        BY <2>1, <2>2, <2>9, AllStarted
    <2>11. CounterOf(second) = T => Outstanding(T, Append(p, second)) <= WaitCountMax[T]
        <3> HIDE DEF p
        <3>. QED  BY <1>4, <2>5, <2>6, <2>7
    <2> HIDE DEF p
    <2>12. AllTraced(After, Append(p, second))
        BY <2>1, <2>2, <2>4, <2>8, <2>10, <2>11, AllStarted
    <2>. QED  BY <2>3, <2>12 DEF After
<1>. QED  BY <1>2, <1>5, <1>6, <1>7

-----------------------------------------------------------------------------
(* The invariant: the certificate, and what it knows of the operations.       *)

TracedNow(C) ==
    phase = "run" =>
        /\ ExportsKnown(C[at])
        /\ \A j \in 1..Len(queue) :
              Excused(queue[j]) \/ (Tidy(queue[j]) /\ OpTraced(C[at], queue, j))

\* The counters of vector-memory reads.
VmemCounters == {"LOAD_CNT", "SAMPLE_CNT", "BVH_CNT"}

\* A FLAT load of f reads vector memory as type t, which the brackets do not
\* record.
Unrecorded(f, t) ==
    \E b \in 1..Len(f.code) : \E k \in 1..Len(f.code[b]) :
        LET I == f.code[b][k]
        IN  I.kind = "load" /\ I.seg = "flat" /\ mayAccessVMEMThroughFlat(I) /\ I.type = t

\* Where reads of one type write in order, all of those whose types are
\* recorded are of the type of the FLAT loads, if there are any.
TypesAlike(f) ==
    hasVmemWriteVgprInOrder(f.gen) =>
        \A b \in 1..Len(f.code) : \A k \in 1..Len(f.code[b]) : \A t :
            LET I == f.code[b][k]
            IN  I.kind = "load" /\ updateVMCntOnly(I) /\ Unrecorded(f, t) => I.type = t

\* The type of an operation that reads vector memory is known of each register
\* it writes.
TypeKnown(B, op) ==
    CounterOf(op) \in VmemCounters =>
        \A v \in op.writes \cap Vgprs : op.type \in B.VmemTypes[v] \/ Unrecorded(fn, op.type)

TypesNow(C) ==
    phase = "run" /\ FlatInOrder(fn) =>
        \A j \in 1..Len(queue) : Excused(queue[j]) \/ TypeKnown(C[at], queue[j])

TraceInv ==
    /\ IInv /\ PassOK /\ ExportsOK
    /\ \E C, W : Cert(C, W) /\ Known(C) /\ TracedNow(C) /\ TypesNow(C)

LEMMA ExportsEntered ==
    ASSUME ExportsOK, NEW C, NEW b, Entered(C, b)
    PROVE  ExportsKnown(C[<<b, 1>>])
<1>1. CASE b \in DOMAIN Incoming
    <2>1. Covers(Incoming[b], C[<<b, 1>>]) /\ ExportsKnown(Incoming[b])
        BY <1>1 DEF Entered, ExportsOK
    <2>. QED  BY <2>1 DEF Covers, ExportsKnown
<1>2. CASE b \notin DOMAIN Incoming
    BY <1>2, ExportsNew DEF Entered
<1>. QED  BY <1>1, <1>2

\* Nothing of the function and the generation changes.
LEMMA SameTidy ==
    ASSUME fn' = fn
    PROVE  /\ \A op : (Tidy(op)' <=> Tidy(op)) /\ CounterOf(op)' = CounterOf(op)
           /\ \A B : ExportsKnown(B)' <=> ExportsKnown(B)
           /\ \A B, q, j : OpTraced(B, q, j)' <=> OpTraced(B, q, j)
<1>1. ST' = ST
    BY SameFunction
<1>2. ASSUME NEW op PROVE CounterOf(op)' = CounterOf(op)
    BY <1>1 DEF CounterOf
<1>3. ASSUME NEW T PROVE Reliable(T)' <=> Reliable(T)
    BY DEF Reliable, ExportsAlike, FlatInOrder
<1>4. ASSUME NEW op PROVE Tidy(op)' <=> Tidy(op)
    BY <1>1, <1>2, <1>3 DEF Tidy
<1>5. ASSUME NEW B PROVE ExportsKnown(B)' <=> ExportsKnown(B)
    BY DEF ExportsKnown
<1>6. ASSUME NEW B, NEW q, NEW j PROVE OpTraced(B, q, j)' <=> OpTraced(B, q, j)
    <2>1. Later(q, j)' = Later(q, j)
        BY <1>2 DEF Later
    <2>. QED  BY <1>2, <1>3, <2>1 DEF OpTraced
<1>. QED  BY <1>2, <1>4, <1>5, <1>6

\* Where the wave begins what is in flight is a store, or ends at once.
LEMMA FinishTraced ==
    ASSUME NEW C, NEW W, CertInv(C, W), ExportsOK, FinishPass
    PROVE  TracedNow(C)'
<1>1. /\ WellFormed(fn) /\ fn' = fn /\ at' = <<1, 1>> /\ phase' = "run"
      /\ Incoming' = Incoming /\ ScoreBrackets' = ScoreBrackets
      /\ queue' \in IF fn.isEntryFunction THEN {<<>>} ELSE PendingOps
    BY DEF CertInv, IInv, VariableTypes, FinishPass, passVars
<1>2. PassOK' /\ Cert(C, W)'
    BY RoundCert
<1>3. ExportsKnown(C[at])'
    <2>1. 1 \in Blocks
        BY <1>1, PlaceFacts
    <2>2. Settled(1)'
        BY <1>1, <1>2 DEF PassOK, Settled, Visiting
    <2>3. Entered(C, 1)'
        BY <1>1, <1>2, <2>1, <2>2, SameFunction DEF Cert
    <2>4. Entered(C, 1)
        BY <1>1, <2>3, SameFunction DEF Entered
    <2>5. ExportsKnown(C[<<1, 1>>])
        BY <2>4, ExportsEntered
    <2>6. ExportsKnown(C[at'])
        BY <1>1, <2>5
    <2>. QED  BY <1>1, <2>6 DEF ExportsKnown
<1>4. CASE fn.isEntryFunction
    <2>1. queue' = <<>>
        BY <1>1, <1>4
    <2>. QED  BY <1>1, <1>3, <2>1 DEF TracedNow
<1>5. CASE ~fn.isEntryFunction
    <2>1. PICK I \in LeftPending, J \in LeftPending : queue' = Ops(I) \o Ops(J)
        BY <1>1, <1>5 DEF PendingOps
    <2> DEFINE a == Ops(I)
               c == Ops(J)
    <2>2. /\ a \in Seq(Operation) /\ c \in Seq(Operation)
          /\ \A k \in 1..Len(a) : Fits(a[k], I)
          /\ \A k \in 1..Len(c) : Fits(c[k], J)
        BY <1>1, LeftPendingAssumption, OpsFit
    <2>3. queue' = a \o c
        BY <2>1
    <2> HIDE DEF a, c
    <2>4. ASSUME NEW k \in 1..Len(queue'), CounterOf(queue'[k]) = "STORE_CNT"
          PROVE  Tidy(queue'[k]) /\ Registers(queue'[k]) = {}
        <3>1. Len(a) \in Nat /\ Len(c) \in Nat /\ Len(queue') = Len(a) + Len(c)
              /\ \A i \in 1..Len(a) + Len(c) :
                    queue'[i] = IF i <= Len(a) THEN a[i] ELSE c[i - Len(a)]
            BY <2>2, <2>3, ConcatProperties, LenProperties
        <3>2. CASE k <= Len(a)
            <4>1. queue'[k] = a[k] /\ k \in 1..Len(a)
                BY <3>1, <3>2
            <4>. QED  BY <2>2, <2>4, <4>1, StoreTidy
        <3>3. CASE ~(k <= Len(a))
            <4>1. queue'[k] = c[k - Len(a)] /\ k - Len(a) \in 1..Len(c)
                BY <3>1, <3>3
            <4>. QED  BY <2>2, <2>4, <4>1, StoreTidy
        <3>. QED  BY <3>2, <3>3
    <2>5. ASSUME NEW k \in 1..Len(queue')
          PROVE  (Excused(queue[k]) \/ (Tidy(queue[k]) /\ OpTraced(C[at], queue, k)))'
        <3>1. CASE CounterOf(queue'[k]) = "STORE_CNT"
            <4>1. Tidy(queue'[k]) /\ Registers(queue'[k]) = {}
                BY <2>4, <3>1
            <4>2. OpTraced(C[at'], queue', k)
                BY <4>1 DEF OpTraced
            <4>3. Tidy(queue[k])' /\ OpTraced(C[at], queue, k)'
                BY <1>1, <4>1, <4>2, SameTidy
            <4>. QED  BY <4>3
        <3>2. CASE CounterOf(queue'[k]) # "STORE_CNT"
            <4>1. CounterOf(queue[k])' # "STORE_CNT"
                BY <1>1, <3>2, SameFunction DEF CounterOf
            <4>. QED  BY <1>1, <1>5, <4>1 DEF Excused
        <3>. QED  BY <3>1, <3>2
    <2>. QED  BY <1>3, <2>5 DEF TracedNow
<1>. QED  BY <1>4, <1>5

\* An operation ends: the others have as many behind them, or their counter
\* is out of order.
LEMMA CompleteTraced ==
    ASSUME NEW C, NEW W, CertInv(C, W), Known(C), TracedNow(C), Complete
    PROVE  TracedNow(C)'
<1>1. phase = "run" /\ at' = at /\ fn' = fn /\ queue \in Seq(Operation)
    BY DEF Complete, Known, passVars
<1>2. PICK m \in 1..Len(queue) :
         /\ \A j \in 1..m-1 : ~InOrder(queue[j], queue[m])
         /\ queue' = RemoveAt(queue, m)
    BY DEF Complete
<1>3. /\ queue' \in Seq(Operation) /\ Len(queue') = Len(queue) - 1 /\ Len(queue) \in Nat
      /\ \A i \in 1..Len(queue) - 1 : queue'[i] = IF i < m THEN queue[i] ELSE queue[i + 1]
    BY <1>1, <1>2, Removed
<1>4. WellFormed(fn) /\ Sound(C[at], ST)
    BY <1>1, WaveFacts
<1>5. PICK B : B = C[at]
    OBVIOUS
<1>6. ASSUME NEW j \in 1..Len(queue')
      PROVE  (Excused(queue[j]) \/ (Tidy(queue[j]) /\ OpTraced(C[at], queue, j)))'
    <2>1. PICK i \in 1..Len(queue) : i = IF j < m THEN j ELSE j + 1
        BY <1>3
    <2>2. queue'[j] = queue[i] /\ i # m /\ (i < m \/ i > m)
        BY <1>3, <2>1
    <2>3. CASE Excused(queue[i])
        BY <1>1, <2>2, <2>3, SameFunction DEF Excused, CounterOf
    <2>4. CASE ~Excused(queue[i])
        <3>1. Tidy(queue[i]) /\ OpTraced(B, queue, i) /\ queue[i] \in Operation
              /\ queue[i].ev \in B.PendingEvents
            BY <1>1, <1>5, <2>4 DEF TracedNow, Known, Tidy
        <3> DEFINE T == CounterOf(queue[i])
                   l == Cardinality(Later(queue, i))
                   n == Cardinality(Later(queue', j))
        <3>2. l \in Nat /\ n \in Nat /\ T \in InstCounterType
            BY <1>1, <1>3, <3>1, LaterCount, EventOfCounter, <1>4
        <3>3. ASSUME Reliable(T), NEW r \in Registers(queue[i])
              PROVE  Traces(B, T, r, n)
            <4>1. Traces(B, T, r, l)
                BY <3>1, <3>3 DEF OpTraced
            <4>2. CASE counterOutOfOrder(B, T)
                BY <4>1, <4>2 DEF Traces
            <4>3. CASE ~counterOutOfOrder(B, T)
                <5>1. ASSUME m \in Later(queue, i) PROVE FALSE
                    <6>1. m > i /\ CounterOf(queue[m]) = T
                        BY <5>1 DEF Later
                    <6>2. queue[m] \in Operation /\ i \in 1..m-1
                        BY <1>1, <1>3, <6>1
                    <6>3. queue[m].ev \in B.PendingEvents
                        BY <1>1, <1>5, <2>4, <6>1 DEF Known, Excused
                    <6>4. B.ST = ST /\ B.PendingEvents \subseteq WaitEventType
                        BY <1>4, <1>5, Numbers DEF Sound, BracketOK, BracketsType
                    <6>5. queue[i].ev \in PendingOn(B, T) /\ queue[m].ev \in PendingOn(B, T)
                        <7>1. queue[i].ev \in WaitEventMask(ST)[T]
                              /\ queue[m].ev \in WaitEventMask(ST)[T]
                            BY <1>4, <3>1, <6>1, <6>2, EventOfCounter
                        <7>. QED  BY <3>1, <6>3, <6>4, <7>1 DEF PendingOn
                    <6>6. T = SmemAccessCounter(B.ST) \/ "SMEM_ACCESS" \notin PendingOn(B, T)
                        <7>. SUFFICES ASSUME "SMEM_ACCESS" \in PendingOn(B, T)
                                      PROVE  T = SmemAccessCounter(B.ST)
                            OBVIOUS
                        <7>1. "SMEM_ACCESS" \in WaitEventType
                              /\ "SMEM_ACCESS" \in WaitEventMask(ST)[T]
                            BY <6>4 DEF PendingOn
                        <7>2. eventCounter(ST, "SMEM_ACCESS") = T
                            BY <3>2, <7>1, EventCounter
                        <7>. QED  BY <6>4, <7>2, Counters
                    <6>7. queue[i].ev = queue[m].ev /\ queue[i].ev # "SMEM_ACCESS"
                        <7> HIDE DEF T
                        <7>. QED  BY <4>3, <6>4, <6>5, <6>6, SameEvent
                    <6>8. queue[i].flat => hasFlatLgkmVMemCountInOrder(ST)
                        BY <3>1, <3>3, TidyStore DEF Tidy
                    <6>9. queue[m].flat => hasFlatLgkmVMemCountInOrder(ST)
                        <7>1. ~Excused(queue[m])
                            BY <2>4, <6>1 DEF Excused
                        <7>2. Tidy(queue[m])
                            BY <1>1, <7>1 DEF TracedNow
                        <7>3. T # "STORE_CNT"
                            BY <3>1, <3>3, TidyStore
                        <7>. QED  BY <3>3, <6>1, <7>2, <7>3 DEF Tidy
                    <6>10. InOrder(queue[i], queue[m])
                        BY <6>7, <6>8, <6>9 DEF InOrder
                    <6>. QED  BY <1>2, <6>2, <6>10
                <5>2. l <= n
                    BY <1>1, <1>2, <2>1, <5>1, LaterRemoved
                <5>3. B.UB[T] \in Nat /\ \A x \in Slots : B.Score[T][x] \in Nat
                    BY <1>4, <1>5, <3>2, Numbers DEF Sound
                <5>4. r \in Slots
                    BY <3>1, RegisterSlots
                <5> HIDE DEF T, l, n
                <5>. QED  BY <3>2, <4>1, <4>3, <5>2, <5>3, <5>4 DEF Traces, Distance
            <4>. QED  BY <4>2, <4>3
        <3>4. OpTraced(B, queue', j)
            BY <2>2, <3>3 DEF OpTraced
        <3>5. Tidy(queue[j])' /\ OpTraced(C[at], queue, j)'
            BY <1>1, <1>5, <2>2, <3>1, <3>4, SameTidy
        <3>. QED  BY <3>5
    <2>. QED  BY <2>3, <2>4
<1>7. ExportsKnown(C[at])'
    <2>1. ExportsKnown(C[at])
        BY <1>1 DEF TracedNow
    <2>. QED  BY <1>1, <2>1, SameTidy
<1>. QED  BY <1>6, <1>7 DEF TracedNow

LEMMA TracedAfter ==
    ASSUME NEW C, fn' = fn, ExportsKnown(C[at']), AllTraced(C[at'], queue')
    PROVE  TracedNow(C)'
<1>1. ExportsKnown(C[at])'
    BY DEF ExportsKnown
<1>2. ASSUME NEW j \in 1..Len(queue')
      PROVE  (Tidy(queue[j]) /\ OpTraced(C[at], queue, j))'
    <2>1. Tidy(queue'[j]) /\ OpTraced(C[at'], queue', j)
        BY <1>2 DEF AllTraced
    <2>. QED  BY <2>1, SameTidy
<1>. QED  BY <1>1, <1>2 DEF TracedNow

\* Once the waits are met, every operation in flight is traced.
LEMMA NowTraced ==
    ASSUME NEW C, NEW W, CertInv(C, W), Known(C), TracedNow(C), phase = "run", WaitsMet
    PROVE  AllTraced(C[at], queue) /\ ExportsKnown(C[at])
<1>1. \A k \in 1..Len(queue) : ~Excused(queue[k])
    BY NowKnown
<1>. QED  BY <1>1 DEF TracedNow, AllTraced

\* An instruction is issued: its wait is met, and what it starts is traced.
LEMMA IssueTracedStep ==
    ASSUME NEW C, NEW W, CertInv(C, W), Known(C), TracedNow(C), Issue
    PROVE  TracedNow(C)'
<1>1. /\ phase = "run" /\ phase' = "run" /\ at[2] <= Length(at[1]) /\ WaitsMet /\ fn' = fn
      /\ Inst.kind # "call" /\ queue' = queue \o Ops(Inst) /\ at' = <<at[1], at[2] + 1>>
      /\ Outstanding("EXP_CNT", Ops(Inst)) > 0 =>
            Outstanding("EXP_CNT", queue) + Outstanding("EXP_CNT", Ops(Inst))
               <= WaitCountMax["EXP_CNT"]
    BY DEF Issue, Ready, InstCounterType
<1>2. /\ WellFormed(fn) /\ Sound(C[at], ST) /\ W[at] \in Waitcnt /\ at = <<at[1], at[2]>>
      /\ Done(C, W, at[1], at[2]) /\ Inst \in Instruction
      /\ at[1] \in Blocks /\ at[2] \in Nat /\ at[2] > 0
    BY <1>1, WaveFacts
<1>3. /\ queue \in Seq(Operation) /\ AllTraced(C[at], queue) /\ ExportsKnown(C[at])
      /\ \A T \in InstCounterType : Outstanding(T, queue) <= W[at][T]
    BY <1>1, NowKnown, NowTraced
<1>4. PICK B, I : B = bracketsBefore(C[at], Inst, W[at]) /\ I = Inst
    OBVIOUS
<1>5. Waited(C[at], W[at], B) /\ Sound(B, ST)
    BY <1>2, <1>4, BeforeWaited DEF Waited
<1>6. AllTraced(B, queue)
    BY <1>2, <1>3, <1>5, AllWaited
<1>7. ExportsKnown(B)
    BY <1>3, <1>5 DEF ExportsKnown, Waited
<1>8. I = fn.code[at[1]][at[2]]
    BY <1>4 DEF Inst
<1>9. AllTraced(updateEventWaitcntAfter(B, I), queue \o Ops(I))
    BY <1>1, <1>2, <1>3, <1>4, <1>5, <1>6, <1>7, <1>8, IssueTraced
<1>10. ExportsKnown(updateEventWaitcntAfter(B, I))
    BY <1>1, <1>2, <1>5, <1>7, <1>8, ExportsAfter
<1>11. C[at'] = updateEventWaitcntAfter(B, I) /\ queue' = queue \o Ops(I)
    BY <1>1, <1>2, <1>4, <1>8 DEF Done, AfterOf
<1>12. AllTraced(C[at'], queue') /\ ExportsKnown(C[at'])
    BY <1>9, <1>10, <1>11
<1>. QED  BY <1>1, <1>12, TracedAfter

\* A call returns with stores, which have no registers to wait for.
LEMMA CallTraced ==
    ASSUME NEW C, NEW W, CertInv(C, W), Known(C), TracedNow(C), Call
    PROVE  TracedNow(C)'
<1>1. /\ phase = "run" /\ phase' = "run" /\ at[2] <= Length(at[1]) /\ WaitsMet
      /\ queue' \in PendingStores /\ at' = <<at[1], at[2] + 1>>
      /\ fn' = fn
    BY DEF Call, Ready
<1>2. /\ WellFormed(fn) /\ Sound(C[at], ST) /\ W[at] \in Waitcnt /\ at = <<at[1], at[2]>>
      /\ Done(C, W, at[1], at[2]) /\ Inst \in Instruction
      /\ at[1] \in Blocks /\ at[2] \in Nat /\ at[2] > 0
    BY <1>1, WaveFacts
<1>3. PICK B, I : B = bracketsBefore(C[at], Inst, W[at]) /\ I = Inst
    OBVIOUS
<1>4. Waited(C[at], W[at], B) /\ Sound(B, ST)
    BY <1>2, <1>3, BeforeWaited DEF Waited
<1>5. ExportsKnown(B)
    <2>1. ExportsKnown(C[at])
        BY <1>1 DEF TracedNow
    <2>. QED  BY <1>4, <2>1 DEF ExportsKnown, Waited
<1>6. I = fn.code[at[1]][at[2]]
    BY <1>3 DEF Inst
<1>7. ExportsKnown(updateEventWaitcntAfter(B, I))
    BY <1>1, <1>2, <1>4, <1>5, <1>6, ExportsAfter
<1>8. ExportsKnown(C[at'])
    BY <1>1, <1>2, <1>3, <1>6, <1>7 DEF Done, AfterOf
<1>9. ASSUME NEW k \in 1..Len(queue')
      PROVE  Tidy(queue'[k]) /\ Registers(queue'[k]) = {}
    <2>1. CASE queue' = <<>>
        BY <1>9, <2>1
    <2>2. CASE \E J \in LeftPending :
                  /\ queue' = Ops(J)
                  /\ \A i \in 1..Len(queue') : CounterOf(queue'[i]) = "STORE_CNT"
        <3>1. PICK J \in LeftPending :
                 /\ queue' = Ops(J)
                 /\ \A i \in 1..Len(queue') : CounterOf(queue'[i]) = "STORE_CNT"
            BY <2>2
        <3>2. Fits(queue'[k], J)
            BY <1>2, <1>9, <3>1, LeftPendingAssumption, OpsFit
        <3>. QED  BY <1>9, <3>1, <3>2, StoreTidy
    <2>. QED  BY <1>1, <2>1, <2>2 DEF PendingStores
<1>10. AllTraced(C[at'], queue')
    BY <1>9 DEF AllTraced, OpTraced
<1>. QED  BY <1>1, <1>8, <1>10, TracedAfter

\* A branch: what the block ends with has reached the successor.
LEMMA BranchTraced ==
    ASSUME NEW C, NEW W, CertInv(C, W), ExportsOK, Known(C), TracedNow(C), Branch
    PROVE  TracedNow(C)'
<1>1. /\ phase = "run" /\ phase' = "run" /\ at[2] > Length(at[1]) /\ WaitsMet /\ queue' = queue
      /\ fn' = fn
    BY DEF Branch
<1>2. PICK s \in fn.succ[at[1]] : at' = <<s, 1>>
    BY DEF Branch
<1>3. /\ WellFormed(fn) /\ Sound(C[at], ST) /\ W[at] \in Waitcnt /\ at[1] \in Blocks
      /\ at = EndOf(at[1]) /\ Left(C, W, at[1])
      /\ \A b \in Blocks : Entered(C, b)
    BY <1>1, WaveFacts
<1>4. s \in Blocks
    BY <1>3, Code
<1>5. /\ queue \in Seq(Operation) /\ EventsKnown(C[at], queue) /\ AllTraced(C[at], queue)
      /\ \A T \in InstCounterType : Outstanding(T, queue) <= W[at][T]
    BY <1>1, NowKnown, NowTraced
<1>6. PICK B : B = applyWaitcnt(C[at], W[at])
    OBVIOUS
<1>7. Waited(C[at], W[at], B) /\ Sound(B, ST)
    BY <1>3, <1>6, ApplyWaited DEF Waited
<1>8. AllTraced(B, queue)
    BY <1>3, <1>5, <1>7, AllWaited
<1>9. ExportsKnown(C[at'])
    BY <1>2, <1>3, <1>4, ExportsEntered
<1>10. ASSUME NEW j \in 1..Len(queue)
       PROVE  Tidy(queue[j]) /\ OpTraced(C[at'], queue, j)
    <2>1. queue[j].ev \in B.PendingEvents
        <3>1. queue[j].ev \in C[at].PendingEvents
            BY <1>5 DEF EventsKnown
        <3>. QED  BY <1>3, <1>5, <1>7, <3>1, WaitKnown
    <2>2. s \in DOMAIN Incoming /\ Covers(Incoming[s], B)
        BY <1>3, <1>6, <2>1 DEF Left
    <2>3. Covers(C[<<s, 1>>], Incoming[s]) /\ Sound(Incoming[s], ST)
        BY <1>3, <1>4, <2>2 DEF Entered, CertInv, PassOK
    <2>4. Sound(C[<<s, 1>>], ST)
        <3>1. 1 \in Nat /\ 1 > 0 /\ 1 <= Length(s) + 1
            BY <1>3, <1>4, Code
        <3>2. <<s, 1>> \in Places
            BY <1>3, <1>4, <3>1, PlaceFacts
        <3>. QED  BY <3>2 DEF CertInv, Cert
    <2>5. PICK D, E : D = C[<<s, 1>>] /\ E = Incoming[s]
        OBVIOUS
    <2>6. Tidy(queue[j]) /\ OpTraced(B, queue, j) /\ queue[j] \in Operation
        BY <1>8 DEF AllTraced, Tidy
    <2> DEFINE T == CounterOf(queue[j])
               n == Cardinality(Later(queue, j))
    <2>7. T \in InstCounterType /\ n \in Nat
        BY <1>3, <1>5, <2>6, EventOfCounter, LaterCount
    <2>8. ASSUME Reliable(T), NEW r \in Registers(queue[j])
          PROVE  Traces(D, T, r, n)
        <3>1. r \in Slots /\ Traces(B, T, r, n)
            BY <2>6, <2>8, RegisterSlots DEF OpTraced
        <3>2. BracketOK(B, ST) /\ BracketOK(D, ST) /\ BracketOK(E, ST)
            BY <1>7, <2>3, <2>4, <2>5 DEF Sound
        <3> HIDE DEF T, n
        <3>3. Traces(E, T, r, n)
            BY <2>2, <2>5, <2>7, <3>1, <3>2, TracesCovered
        <3>. QED  BY <2>3, <2>5, <2>7, <3>1, <3>2, <3>3, TracesCovered
    <2>9. OpTraced(D, queue, j)
        BY <2>8 DEF OpTraced
    <2>. QED  BY <1>2, <2>5, <2>6, <2>9
<1>11. AllTraced(C[at'], queue')
    BY <1>1, <1>10 DEF AllTraced
<1>. QED  BY <1>1, <1>9, <1>11, TracedAfter

\* Where an instruction is issued, no operation is in flight that has a
\* register waited for as the brackets say.
LEMMA NoneAwaited ==
    ASSUME NEW C, NEW W, CertInv(C, W), Known(C), TracedNow(C), Ready,
           NEW k \in 1..Len(queue), Reliable(CounterOf(queue[k])),
           NEW r \in Registers(queue[k]),
           Held(C[at], CounterOf(queue[k]), r) =>
              W[at][CounterOf(queue[k])] <= determineWait(C[at], CounterOf(queue[k]), r)
    PROVE  FALSE
<1> DEFINE T == CounterOf(queue[k])
           n == Cardinality(Later(queue, k))
<1>1. phase = "run" /\ WaitsMet
    BY DEF Ready
<1>2. /\ WellFormed(fn) /\ Sound(C[at], ST) /\ W[at] \in Waitcnt
      /\ queue \in Seq(Operation) /\ AllTraced(C[at], queue)
      /\ \A U \in InstCounterType : Outstanding(U, queue) <= W[at][U]
    BY <1>1, WaveFacts, NowKnown, NowTraced
<1>3. queue[k] \in Operation /\ OpTraced(C[at], queue, k)
    BY <1>2 DEF AllTraced
<1>4. T \in InstCounterType /\ r \in Slots
    BY <1>2, <1>3, EventOfCounter, RegisterSlots
<1>5. n \in Nat /\ n + 1 <= Outstanding(T, queue) /\ Outstanding(T, queue) \in Nat
    BY <1>2, LaterCount, Counted
<1>6. Outstanding(T, queue) <= W[at][T] /\ W[at][T] \in Nat
    BY <1>2, <1>4 DEF Waitcnt
<1>7. Traces(C[at], T, r, n)
    BY <1>3 DEF OpTraced
<1>8. W[at][T] <= determineWait(C[at], T, r)
    BY <1>7 DEF Traces
<1> DEFINE w == W[at][T]
<1>9. BracketOK(C[at], ST)
    BY <1>2 DEF Sound
<1>10. w <= n
    <2>1. w \in Nat /\ w <= determineWait(C[at], T, r)
        BY <1>6, <1>8
    <2> HIDE DEF T, n, w
    <2>. QED  BY <1>2, <1>4, <1>5, <1>7, <1>9, <2>1, TracesAwaited
<1> HIDE DEF T, n
<1>. QED  BY <1>5, <1>6, <1>10

-----------------------------------------------------------------------------
(* The types of the vector-memory reads in flight. *)

\* What B knows of the types of reads, C does.
TypesGrow(B, C) == \A v \in Vgprs : B.VmemTypes[v] \subseteq C.VmemTypes[v]

LEMMA UpdateTypes ==
    ASSUME NEW B \in BracketsType, NEW E \in WaitEventType, NEW marks, NEW vmem
    PROVE  LET C == updateByEvent(B, E, marks, vmem) IN
           /\ TypesGrow(B, C)
           /\ \A v \in Vgprs \cap marks : vmem \subseteq C.VmemTypes[v]
<1> DEFINE C == updateByEvent(B, E, marks, vmem)
<1>1. \A v \in Vgprs : C.VmemTypes[v] = IF v \in marks THEN B.VmemTypes[v] \cup vmem
                                         ELSE B.VmemTypes[v]
    <2>1. C.VmemTypes = [x \in Vgprs |-> IF x \in marks THEN B.VmemTypes[x] \cup vmem
                                          ELSE B.VmemTypes[x]]
        <3>1. Updated(B, C, E, eventCounter(B.ST, E), B.UB[eventCounter(B.ST, E)] + 1, marks,
                      vmem)
            BY UpdateParts
        <3> HIDE DEF C
        <3>. QED  BY <3>1 DEF Updated
    <2> HIDE DEF C
    <2>. QED  BY <2>1
<1> HIDE DEF C
<1>. QED  BY <1>1 DEF TypesGrow, C

LEMMA TypesGrowTrans ==
    ASSUME NEW B, NEW C, NEW D, TypesGrow(B, C), TypesGrow(C, D)
    PROVE  TypesGrow(B, D)
BY DEF TypesGrow

\* What an access adds to the types of the registers it defines.
LEMMA AccessTypes ==
    ASSUME WellFormed(fn), NEW B, BracketOK(B, ST), NEW E \in WaitEventType,
           NEW I \in Instruction, NEW vmem \in SUBSET VmemType
    PROVE  LET D == accessEvent(B, E, I, vmem) IN
           /\ D \in BracketsType /\ TypesGrow(B, D)
           /\ \A v \in I.defs \cap Vgprs : vmem \subseteq D.VmemTypes[v]
<1> DEFINE marks == I.defs \cup ldsMarks(B, I)
           C == updateByEvent(B, E, marks, vmem)
           D == accessEvent(B, E, I, vmem)
<1>1. B \in BracketsType /\ ST \in Generations
    BY Code DEF BracketOK
<1>2. D \in BracketsType
    BY AccessOK DEF BracketOK
<1>3. C \in BracketsType
    <2> HIDE DEF marks
    <2>. QED  BY <1>1, UpdateOK DEF BracketOK
<1>4. TypesGrow(B, C) /\ \A v \in Vgprs \cap marks : vmem \subseteq C.VmemTypes[v]
    <2> HIDE DEF marks
    <2>. QED  BY <1>1, UpdateTypes
<1>5. D.VmemTypes = C.VmemTypes
    <2>1. D = IF mayWriteLds(I) /\ I.lds # {}
              THEN recordDmaStore(C, CHOOSE o \in I.lds : TRUE) ELSE C
        BY DEF accessEvent
    <2> HIDE DEF C, D
    <2>. QED  BY <1>3, <2>1 DEF recordDmaStore, BracketsType
<1>6. I.defs \subseteq marks
    OBVIOUS
<1> HIDE DEF C, D, marks
<1>. QED  BY <1>2, <1>4, <1>5, <1>6 DEF TypesGrow, D

\* A vector-memory access: its type is recorded but for FLAT ones.
LEMMA VmemEventTypes ==
    ASSUME WellFormed(fn), NEW B, Sound(B, ST), NEW I \in Instruction
    PROVE  /\ vmemEvent(B, I) \in BracketsType
           /\ TypesGrow(B, vmemEvent(B, I))
           /\ I.kind = "load" /\ I.seg # "flat" =>
                 \A v \in I.defs \cap Vgprs : I.type \in vmemEvent(B, I).VmemTypes[v]
<1> DEFINE ev == getVmemWaitEventType(I)
           types == IF updateVMCntOnly(I) THEN {I.type} ELSE {}
           D == vmemEvent(B, I)
<1>1. BracketOK(B, ST) /\ ev \in WaitEventType /\ types \in SUBSET VmemType
    BY EventTypes DEF Sound
<1>2. D = accessEvent(B, ev, I, types)
    BY DEF vmemEvent
<1>3. I.kind = "load" /\ I.seg # "flat" => types = {I.type}
    BY DEF updateVMCntOnly, isVMEMOrFLAT
<1> HIDE DEF D, ev, types
<1>4. /\ D \in BracketsType /\ TypesGrow(B, D)
      /\ \A v \in I.defs \cap Vgprs : types \subseteq D.VmemTypes[v]
    BY <1>1, <1>2, AccessTypes
<1>. QED  BY <1>3, <1>4 DEF D

\* An event that says nothing of vector memory.
LEMMA PlainTypes ==
    ASSUME WellFormed(fn), NEW B \in BracketsType, NEW E \in WaitEventType, NEW marks
    PROVE  TypesGrow(B, updateByEvent(B, E, marks, {}))
BY UpdateTypes

\* What the brackets know of types after an instruction.
LEMMA TypesAfter ==
    ASSUME WellFormed(fn), NEW B, Sound(B, ST), NEW I \in Instruction, Sensible(I),
           I.kind # "call"
    PROVE  /\ TypesGrow(B, updateEventWaitcntAfter(B, I))
           /\ I.kind = "load" /\ I.seg # "flat" =>
                 \A v \in I.defs \cap Vgprs :
                     I.type \in updateEventWaitcntAfter(B, I).VmemTypes[v]
<1> DEFINE After == updateEventWaitcntAfter(B, I)
           V == vmemEvent(B, I)
<1>1. BracketOK(B, ST) /\ B \in BracketsType /\ ST \in Generations
      /\ {"LDS_ACCESS", "GDS_ACCESS", "GDS_GPR_LOCK", "VMW_GPR_LOCK", "SMEM_ACCESS",
          "EXP_LDS_ACCESS", "SQ_MESSAGE"} \subseteq WaitEventType
      /\ I.event \in WaitEventType
    BY EventTypes, Code DEF Sound, BracketOK
<1>2. /\ V \in BracketsType /\ TypesGrow(B, V)
      /\ I.kind = "load" /\ I.seg # "flat" => \A v \in I.defs \cap Vgprs : I.type \in V.VmemTypes[v]
    BY VmemEventTypes
<1>3. ASSUME NEW C, TypesGrow(V, C)
      PROVE  /\ TypesGrow(B, C)
             /\ I.kind = "load" /\ I.seg # "flat" =>
                   \A v \in I.defs \cap Vgprs : I.type \in C.VmemTypes[v]
    <2> HIDE DEF V
    <2>. QED  BY <1>2, <1>3 DEF TypesGrow
<1>4. CASE I.kind \in {"alu", "return", "endpgm"}
    <2>1. After = B
        BY <1>4 DEF updateEventWaitcntAfter, isVMEMOrFLAT
    <2>. QED  BY <1>4, <2>1 DEF TypesGrow
<1>5. CASE I.kind \in {"smem", "ldsdir", "export", "message"}
    <2>1. \E E \in WaitEventType : \E marks : After = updateByEvent(B, E, marks, {})
        BY <1>1, <1>5 DEF updateEventWaitcntAfter, isVMEMOrFLAT
    <2> HIDE DEF After
    <2>2. TypesGrow(B, After)
        BY <1>1, <2>1, PlainTypes
    <2>. QED  BY <1>5, <2>2 DEF After
<1>6. CASE I.kind = "gds"
    <2> DEFINE C == accessEvent(B, "GDS_ACCESS", I, {})
    <2>1. After = updateByEvent(C, "GDS_GPR_LOCK", I.uses, {})
        BY <1>6 DEF updateEventWaitcntAfter, isVMEMOrFLAT
    <2>2. BracketOK(C, ST) /\ TypesGrow(B, C)
        BY <1>1, AccessOK, AccessTypes
    <2> HIDE DEF C, After
    <2>3. TypesGrow(C, After)
        BY <1>1, <2>1, <2>2, PlainTypes DEF BracketOK
    <2>4. TypesGrow(B, After)
        BY <2>2, <2>3, TypesGrowTrans
    <2>. QED  BY <1>6, <2>4 DEF After
<1>7. CASE isVMEMOrFLAT(I) /\ I.seg = "buffer"
    <2>1. After = bufferEvents(B, I)
        BY <1>7 DEF updateEventWaitcntAfter, isVMEMOrFLAT
    <2>2. After = V \/ After = updateByEvent(V, "VMW_GPR_LOCK", I.data, {})
        BY <2>1 DEF bufferEvents
    <2> HIDE DEF V, After
    <2>3. TypesGrow(V, After)
        BY <1>1, <1>2, <2>2, PlainTypes DEF TypesGrow
    <2>. QED  BY <1>3, <2>3 DEF After
<1>8. CASE isVMEMOrFLAT(I) /\ I.seg # "buffer"
    <2> DEFINE lds(C) == accessEvent(C, "LDS_ACCESS", I, {})
    <2>1. After = flatEvents(B, I)
        BY <1>8 DEF updateEventWaitcntAfter, isVMEMOrFLAT
    <2>2. CASE ~mayAccessVMEMThroughFlat(I)
        <3>1. After = lds(B) /\ I.seg = "flat"
            BY <1>8, <2>1, <2>2 DEF flatEvents, mayAccessVMEMThroughFlat, Sensible, isVMEMOrFLAT
        <3> HIDE DEF After
        <3>2. TypesGrow(B, After)
            BY <1>1, <3>1, AccessTypes
        <3>. QED  BY <3>1, <3>2 DEF After
    <2>3. CASE mayAccessVMEMThroughFlat(I)
        <3>1. After = V \/ After = setPendingFlat(lds(V))
            BY <2>1, <2>3 DEF flatEvents
        <3>2. TypesGrow(V, lds(V)) /\ lds(V) \in BracketsType
            <4>1. BracketOK(V, ST)
                BY <1>1, VmemOK
            <4> HIDE DEF V
            <4>. QED  BY <1>1, <4>1, AccessTypes
        <3> HIDE DEF V, After, lds
        <3>3. setPendingFlat(lds(V)).VmemTypes = lds(V).VmemTypes
            BY <3>2 DEF setPendingFlat, BracketsType
        <3>4. TypesGrow(V, After)
            BY <3>1, <3>2, <3>3 DEF TypesGrow
        <3>. QED  BY <1>3, <3>4 DEF After
    <2>. QED  BY <2>2, <2>3
<1>9. CASE I.kind = "ds"
    <2>1. After = accessEvent(B, "LDS_ACCESS", I, {})
        BY <1>9 DEF updateEventWaitcntAfter, isVMEMOrFLAT
    <2> HIDE DEF After
    <2>2. TypesGrow(B, After)
        BY <1>1, <2>1, AccessTypes
    <2>. QED  BY <1>9, <2>2 DEF After
<1>10. \/ I.kind \in {"alu", "return", "endpgm", "ds", "smem", "ldsdir", "export", "message", "gds"}
       \/ isVMEMOrFLAT(I)
    BY InstructionFields DEF isVMEMOrFLAT
<1>. QED  BY <1>4, <1>5, <1>6, <1>7, <1>8, <1>9, <1>10

\* Which operations of an instruction read vector memory.
LEMMA VmemReads ==
    ASSUME WellFormed(fn), NEW I \in Instruction, Sensible(I), NEW k \in 1..Len(Ops(I)),
           CounterOf(Ops(I)[k]) \in VmemCounters, Ops(I)[k].writes # {}
    PROVE  /\ I.kind = "load" /\ mayAccessVMEMThroughFlat(I)
           /\ Ops(I)[k].type = I.type /\ Ops(I)[k].writes = I.defs
<1> DEFINE Fine(op) == CounterOf(op) \in VmemCounters /\ op.writes # {} =>
                          /\ I.kind = "load" /\ mayAccessVMEMThroughFlat(I)
                          /\ op.type = I.type /\ op.writes = I.defs
           S == {op \in Operation : Fine(op)}
<1>1. ASSUME NEW op \in Operation,
             op.ev \in ExpEvents \cup {"LDS_ACCESS", "GDS_ACCESS", "SMEM_ACCESS", "SQ_MESSAGE"}
      PROVE  op \in S
    BY <1>1, Counters DEF CounterOf, VmemCounters, SmemAccessCounter
<1> HIDE DEF S
<1>2. I.kind = "ds" \/ (isVMEMOrFLAT(I) /\ mayAccessLDSThroughFlat(I)) => LdsOp(I) \in S
    BY <1>1, LdsOpFits DEF Fits
<1>3. ASSUME NEW E \in Exports(ST, I), NEW locks \in SUBSET Vgprs
      PROVE  ExpOp(E, I, locks) \in S
    <2>1. ExpOp(E, I, locks) \in Operation /\ ExpOp(E, I, locks).ev = E /\ E \in ExpEvents
        BY ExpOpFits DEF Fits, Exports
    <2>. QED  BY <1>1, <2>1
<1>4. isVMEMOrFLAT(I) /\ mayAccessVMEMThroughFlat(I) => VmemOp(I) \in S
    <2>. SUFFICES ASSUME isVMEMOrFLAT(I), mayAccessVMEMThroughFlat(I) PROVE VmemOp(I) \in S
        OBVIOUS
    <2>1. VmemOp(I) \in Operation /\ VmemOp(I).writes = I.defs
        BY VmemOpFits DEF Fits
    <2>2. VmemOp(I).type = I.type
        <3> DEFINE o == Op(getVmemWaitEventType(I), I)
        <3>1. o \in Operation
            BY EventTypes, OpType
        <3>2. VmemOp(I) = [o EXCEPT !.writes = I.defs, !.type = I.type,
                  !.flat = mayAccessVMEMThroughFlat(I) /\ mayAccessLDSThroughFlat(I),
                  !.lds = IF I.kind = "dma" THEN I.lds ELSE {}]
            BY DEF VmemOp
        <3> HIDE DEF o
        <3>. QED  BY <3>1, <3>2 DEF Operation
    <2>3. I.kind = "load" \/ I.defs = {}
        BY DEF Sensible, isVMEMOrFLAT
    <2>. QED  BY <2>1, <2>2, <2>3 DEF S
<1>5. ASSUME NEW E \in {"GDS_ACCESS", "SMEM_ACCESS", "SQ_MESSAGE", "EXP_LDS_ACCESS"},
             NEW ptr \in Pointers \cup {NoPointer}
      PROVE  [Op(E, I) EXCEPT !.writes = I.defs] \in S
             /\ [Op(E, I) EXCEPT !.writes = I.defs, !.reads = ptr] \in S
    <2> DEFINE o == Op(E, I)
    <2>1. o \in Operation /\ o.ev = E
        <3>1. E \in WaitEventType
            BY EventTypes
        <3>2. o \in Operation
            BY <3>1, OpType
        <3>3. o.ev = E
            BY DEF Op
        <3>. QED  BY <3>2, <3>3
    <2>2. I.defs \subseteq Vgprs \cup Sgprs
        BY InstructionFields
    <2> HIDE DEF o
    <2> DEFINE x == [o EXCEPT !.writes = I.defs]
               y == [o EXCEPT !.writes = I.defs, !.reads = ptr]
    <2>3. x \in Operation /\ y \in Operation /\ x.ev = E /\ y.ev = E
        BY <2>1, <2>2 DEF Operation
    <2> HIDE DEF x, y
    <2>4. E \in ExpEvents \cup {"LDS_ACCESS", "GDS_ACCESS", "SMEM_ACCESS", "SQ_MESSAGE"}
        BY DEF ExpEvents
    <2>5. x \in S /\ y \in S
        BY <1>1, <2>3, <2>4
    <2>. QED  BY <2>5 DEF x, y, o
<1>6. Ops(I) \in Seq(S)
    <2>1. CASE isVMEMOrFLAT(I)
        <3> DEFINE a == IF mayAccessVMEMThroughFlat(I) THEN <<VmemOp(I)>> ELSE <<>>
                   b == IF mayAccessLDSThroughFlat(I) THEN <<LdsOp(I)>> ELSE <<>>
                   c == IF vmemWriteNeedsExpWaitcnt(ST) /\ I.seg = "buffer" /\ I.data # {}
                        THEN <<ExpOp("VMW_GPR_LOCK", I, I.data)>> ELSE <<>>
        <3>1. a \in Seq(S)
            BY <1>4, <2>1
        <3>2. b \in Seq(S)
            BY <1>2, <2>1
        <3>3. c \in Seq(S)
            <4>1. I.data \in SUBSET Vgprs
                BY InstructionFields
            <4>2. vmemWriteNeedsExpWaitcnt(ST) /\ I.seg = "buffer" /\ I.data # {} =>
                     "VMW_GPR_LOCK" \in Exports(ST, I)
                BY <2>1 DEF Exports, ExpEvents
            <4>. QED  BY <1>3, <4>1, <4>2
        <3>4. Ops(I) = a \o b \o c
            BY <2>1 DEF Ops, isVMEMOrFLAT
        <3> HIDE DEF a, b, c
        <3>5. a \o b \in Seq(S)
            BY <3>1, <3>2, ConcatProperties
        <3>6. (a \o b) \o c \in Seq(S)
            BY <3>3, <3>5, ConcatProperties
        <3>. QED  BY <3>4, <3>6
    <2>2. CASE I.kind = "ds"
        BY <1>2, <2>2 DEF Ops, isVMEMOrFLAT
    <2>3. CASE I.kind = "gds"
        <3> DEFINE x == [Op("GDS_ACCESS", I) EXCEPT !.writes = I.defs]
                   y == ExpOp("GDS_GPR_LOCK", I, I.uses)
        <3>1. x \in S
            BY <1>5
        <3>2. y \in S
            <4>1. "GDS_GPR_LOCK" \in Exports(ST, I) /\ I.uses \in SUBSET Vgprs
                BY <2>3 DEF Exports, ExpEvents, Sensible
            <4>. QED  BY <1>3, <4>1
        <3>3. Ops(I) = <<x, y>>
            BY <2>3 DEF Ops, isVMEMOrFLAT
        <3> HIDE DEF x, y
        <3>. QED  BY <3>1, <3>2, <3>3
    <2>4. CASE I.kind = "smem"
        <3>1. I.ptr \in Pointers \cup {NoPointer}
            BY InstructionFields
        <3>2. Ops(I) = <<[Op("SMEM_ACCESS", I) EXCEPT !.writes = I.defs, !.reads = I.ptr]>>
            BY <2>4 DEF Ops, isVMEMOrFLAT
        <3>3. [Op("SMEM_ACCESS", I) EXCEPT !.writes = I.defs, !.reads = I.ptr] \in S
            BY <1>5, <3>1
        <3>. QED  BY <3>2, <3>3
    <2>5. CASE I.kind = "message"
        <3>1. Ops(I) = <<[Op("SQ_MESSAGE", I) EXCEPT !.writes = I.defs]>>
            BY <2>5 DEF Ops, isVMEMOrFLAT
        <3>2. [Op("SQ_MESSAGE", I) EXCEPT !.writes = I.defs] \in S
            BY <1>5
        <3>. QED  BY <3>1, <3>2
    <2>6. CASE I.kind = "ldsdir"
        <3>1. Ops(I) = <<[Op("EXP_LDS_ACCESS", I) EXCEPT !.writes = I.defs]>>
            BY <2>6 DEF Ops, isVMEMOrFLAT
        <3>2. [Op("EXP_LDS_ACCESS", I) EXCEPT !.writes = I.defs] \in S
            BY <1>5
        <3>. QED  BY <3>1, <3>2
    <2>7. CASE I.kind = "export"
        <3>1. Ops(I) = <<ExpOp(I.event, I, I.uses)>>
            BY <2>7 DEF Ops, isVMEMOrFLAT
        <3>2. I.event \in Exports(ST, I) /\ I.uses \in SUBSET Vgprs
            BY <2>7 DEF Exports, ExpEvents, Sensible
        <3>. QED  BY <1>3, <3>1, <3>2
    <2>8. CASE I.kind \in {"alu", "call", "return", "endpgm"}
        BY <2>8 DEF Ops, isVMEMOrFLAT
    <2>. QED  BY <2>1, <2>2, <2>3, <2>4, <2>5, <2>6, <2>7, <2>8, InstructionFields
                DEF isVMEMOrFLAT
<1>7. Ops(I)[k] \in S
    BY <1>6, ElementOfSeq
<1>. QED  BY <1>7 DEF S

\* Where the wave begins, reads of vector memory still have to be waited for.
LEMMA FinishTypes ==
    ASSUME NEW C, WellFormed(fn), FinishPass
    PROVE  TypesNow(C)'
<1>1. /\ fn' = fn /\ at' = <<1, 1>>
      /\ queue' \in IF fn.isEntryFunction THEN {<<>>} ELSE PendingOps
    BY DEF FinishPass, passVars
<1>2. ASSUME NEW j \in 1..Len(queue')
      PROVE  (Excused(queue[j]) \/ TypeKnown(C[at], queue[j]))'
    <2>1. ~fn.isEntryFunction
        BY <1>1, <1>2
    <2>2. CASE CounterOf(queue[j])' = "STORE_CNT"
        BY <2>2 DEF TypeKnown, VmemCounters
    <2>3. CASE CounterOf(queue[j])' # "STORE_CNT"
        BY <1>1, <2>1, <2>3 DEF Excused
    <2>. QED  BY <2>2, <2>3
<1>. QED  BY <1>2 DEF TypesNow

LEMMA SameType ==
    ASSUME fn' = fn
    PROVE  \A B, op : TypeKnown(B, op)' <=> TypeKnown(B, op)
<1>1. \A op : CounterOf(op)' = CounterOf(op)
    BY SameFunction DEF CounterOf
<1>2. \A t : Unrecorded(fn, t)' <=> Unrecorded(fn, t)
    BY DEF Unrecorded
<1>. QED  BY <1>1, <1>2 DEF TypeKnown

\* What the types of all the operations make of the step that has them.
LEMMA TypesOfStep ==
    ASSUME NEW C, fn' = fn,
           FlatInOrder(fn) => \A j \in 1..Len(queue') : TypeKnown(C[at'], queue'[j])
    PROVE  TypesNow(C)'
<1>1. FlatInOrder(fn)' <=> FlatInOrder(fn)
    BY DEF FlatInOrder
<1>2. ASSUME NEW j \in 1..Len(queue'), FlatInOrder(fn)
      PROVE  TypeKnown(C[at], queue[j])'
    <2>1. TypeKnown(C[at'], queue'[j])
        BY <1>2
    <2>2. PICK B, op : B = C[at'] /\ op = queue'[j]
        OBVIOUS
    <2>3. TypeKnown(B, op)'
        BY <2>1, <2>2, SameType
    <2>. QED  BY <2>2, <2>3
<1>. QED  BY <1>1, <1>2 DEF TypesNow

LEMMA CompleteTypes ==
    ASSUME NEW C, Known(C), TypesNow(C), Complete
    PROVE  TypesNow(C)'
<1>1. phase = "run" /\ at' = at /\ fn' = fn /\ queue \in Seq(Operation)
    BY DEF Complete, Known, passVars
<1>2. PICK m \in 1..Len(queue) : queue' = RemoveAt(queue, m)
    BY DEF Complete
<1>3. /\ Len(queue') = Len(queue) - 1 /\ Len(queue) \in Nat
      /\ \A i \in 1..Len(queue) - 1 : queue'[i] = IF i < m THEN queue[i] ELSE queue[i + 1]
    BY <1>1, <1>2, Removed
<1>4. FlatInOrder(fn)' <=> FlatInOrder(fn)
    BY <1>1 DEF FlatInOrder
<1>5. ASSUME NEW j \in 1..Len(queue'), FlatInOrder(fn)
      PROVE  (Excused(queue[j]) \/ TypeKnown(C[at], queue[j]))'
    <2>1. PICK i \in 1..Len(queue) : queue'[j] = queue[i]
        BY <1>3
    <2>2. PICK B, op : B = C[at] /\ op = queue[i]
        OBVIOUS
    <2>3. Excused(op) \/ TypeKnown(B, op)
        BY <1>1, <1>5, <2>2 DEF TypesNow
    <2>4. Excused(op)' \/ TypeKnown(B, op)'
        BY <1>1, <2>3, SameType, SameFunction DEF Excused, CounterOf
    <2>5. B = C[at'] /\ op = queue'[j]
        BY <1>1, <2>1, <2>2
    <2>. QED  BY <2>4, <2>5
<1>. QED  BY <1>4, <1>5 DEF TypesNow

\* An instruction forgets the types of the registers it waits for only, and
\* those it starts to read are recorded.
LEMMA IssueTypes ==
    ASSUME NEW C, NEW W, CertInv(C, W), Known(C), TracedNow(C), TypesNow(C), Issue
    PROVE  TypesNow(C)'
<1>1. /\ phase = "run" /\ at[2] <= Length(at[1]) /\ WaitsMet /\ fn' = fn /\ Ready
      /\ Inst.kind \notin {"call", "return", "endpgm"}
      /\ queue' = queue \o Ops(Inst) /\ at' = <<at[1], at[2] + 1>>
    BY DEF Issue, Ready
<1>2. /\ WellFormed(fn) /\ Sound(C[at], ST) /\ W[at] \in Waitcnt /\ at = <<at[1], at[2]>>
      /\ Done(C, W, at[1], at[2]) /\ Inst \in Instruction /\ Sensible(Inst)
      /\ at[1] \in Blocks /\ at[2] \in Nat /\ at[2] > 0 /\ Length(at[1]) \in Nat
    BY <1>1, WaveFacts
<1>3. /\ queue \in Seq(Operation) /\ AllTraced(C[at], queue)
      /\ \A k \in 1..Len(queue) : ~Excused(queue[k])
    BY <1>1, NowKnown, NowTraced
<1>4. Strong(C[at], Inst, W[at])
    BY <1>2 DEF Done, Inst
<1>5. PICK I, B, A : /\ I = Inst /\ B = bracketsBefore(C[at], I, W[at])
                     /\ A = updateEventWaitcntAfter(B, I)
    OBVIOUS
<1>6. Sound(B, ST)
    BY <1>2, <1>5, BeforeWaited DEF Waited
<1>7. C[at'] = A
    <2>1. I = fn.code[at[1]][at[2]]
        BY <1>5 DEF Inst
    <2>. QED  BY <1>1, <1>2, <1>5, <2>1 DEF Done, AfterOf
<1>8. /\ TypesGrow(B, A)
      /\ I.kind = "load" /\ I.seg # "flat" => \A v \in I.defs \cap Vgprs : I.type \in A.VmemTypes[v]
    BY <1>1, <1>2, <1>5, <1>6, TypesAfter
<1>9. \A v \in Vgprs \ needsVmWait(C[at], I) : B.VmemTypes[v] = C[at].VmemTypes[v]
    <2>1. C[at] \in BracketsType
        BY <1>2 DEF Sound, BracketOK
    <2>2. B = applyWaitcnt(clearVgprVmemTypes(C[at], needsVmWait(C[at], I)), W[at])
        BY <1>1, <1>5 DEF bracketsBefore
    <2>. QED  BY <2>1, <2>2 DEF applyWaitcnt, clearVgprVmemTypes, BracketsType
<1>10. ASSUME FlatInOrder(fn), NEW j \in 1..Len(queue)
       PROVE  TypeKnown(A, queue[j])
    <2>. SUFFICES ASSUME CounterOf(queue[j]) \in VmemCounters,
                         NEW v \in queue[j].writes \cap Vgprs
                  PROVE  queue[j].type \in A.VmemTypes[v] \/ Unrecorded(fn, queue[j].type)
        BY DEF TypeKnown
    <2>1. queue[j].type \in C[at].VmemTypes[v] \/ Unrecorded(fn, queue[j].type)
        BY <1>1, <1>3, <1>10 DEF TypesNow, TypeKnown
    <2>2. v \notin needsVmWait(C[at], I)
        <3>. SUFFICES ASSUME v \in needsVmWait(C[at], I) PROVE FALSE
            OBVIOUS
        <3> DEFINE T == CounterOf(queue[j])
        <3>1. v \in SlotsToWaitFor(C[at], Inst, T)
            BY <1>5 DEF SlotsToWaitFor, VmemCounters
        <3>2. T \in InstCounterType
            BY DEF VmemCounters, InstCounterType
        <3>3. Held(C[at], T, v) => W[at][T] <= determineWait(C[at], T, v)
            BY <1>1, <1>4, <3>1, <3>2 DEF Strong
        <3>4. Reliable(T)
            BY <1>10 DEF Reliable, VmemCounters
        <3>5. v \in Registers(queue[j])
            BY DEF Registers
        <3>. QED  BY <1>1, <3>3, <3>4, <3>5, NoneAwaited
    <2>3. C[at].VmemTypes[v] \subseteq A.VmemTypes[v]
        BY <1>8, <1>9, <2>2 DEF TypesGrow
    <2>. QED  BY <2>1, <2>3
<1>11. ASSUME NEW j \in 1..Len(Ops(I))
       PROVE  TypeKnown(A, Ops(I)[j])
    <2> DEFINE op == Ops(I)[j]
    <2>. SUFFICES ASSUME CounterOf(op) \in VmemCounters, NEW v \in op.writes \cap Vgprs
                  PROVE  op.type \in A.VmemTypes[v] \/ Unrecorded(fn, op.type)
        BY DEF TypeKnown
    <2>1. /\ I.kind = "load" /\ mayAccessVMEMThroughFlat(I) /\ op.type = I.type
          /\ op.writes = I.defs
        BY <1>2, <1>5, VmemReads
    <2>2. CASE I.seg # "flat"
        BY <1>8, <2>1, <2>2
    <2>3. CASE I.seg = "flat"
        <3>1. at[1] \in 1..Len(fn.code) /\ at[2] \in 1..Len(fn.code[at[1]])
            BY <1>1, <1>2 DEF Blocks, Length
        <3>2. I = fn.code[at[1]][at[2]]
            BY <1>5 DEF Inst
        <3> HIDE DEF op
        <3>. QED  BY <2>1, <2>3, <3>1, <3>2 DEF Unrecorded
    <2>. QED  BY <2>2, <2>3
<1>12. ASSUME FlatInOrder(fn), NEW j \in 1..Len(queue')
       PROVE  TypeKnown(A, queue'[j])
    <2> DEFINE q == queue
               o == Ops(I)
    <2>1. o \in Seq(Operation) /\ q \in Seq(Operation) /\ queue' = q \o o
        BY <1>1, <1>2, <1>3, <1>5, OpsFit
    <2> HIDE DEF o, q
    <2>2. /\ Len(q) \in Nat /\ Len(o) \in Nat /\ Len(queue') = Len(q) + Len(o)
          /\ \A i \in 1..Len(q) + Len(o) :
                queue'[i] = IF i <= Len(q) THEN q[i] ELSE o[i - Len(q)]
        BY <2>1, ConcatProperties, LenProperties
    <2>3. CASE j <= Len(q)
        <3>1. queue'[j] = q[j] /\ j \in 1..Len(q)
            BY <1>12, <2>2, <2>3
        <3>. QED  BY <1>10, <1>12, <3>1 DEF q
    <2>4. CASE ~(j <= Len(q))
        <3>1. queue'[j] = o[j - Len(q)] /\ j - Len(q) \in 1..Len(o)
            BY <1>12, <2>2, <2>4
        <3>. QED  BY <1>11, <3>1 DEF o
    <2>. QED  BY <2>3, <2>4
<1>. QED  BY <1>1, <1>7, <1>12, TypesOfStep

\* After a call only stores are in flight.
LEMMA CallTypes ==
    ASSUME NEW C, Call
    PROVE  TypesNow(C)'
<1>1. fn' = fn /\ queue' \in PendingStores
    BY DEF Call
<1>2. ASSUME NEW j \in 1..Len(queue')
      PROVE  TypeKnown(C[at'], queue'[j])
    <2>1. CounterOf(queue'[j]) = "STORE_CNT"
        BY <1>1, <1>2 DEF PendingStores
    <2>. QED  BY <2>1 DEF TypeKnown, VmemCounters
<1>. QED  BY <1>1, <1>2, TypesOfStep

\* A branch: the types have reached the successor.
LEMMA BranchTypes ==
    ASSUME NEW C, NEW W, CertInv(C, W), Known(C), TypesNow(C), Branch
    PROVE  TypesNow(C)'
<1>1. phase = "run" /\ at[2] > Length(at[1]) /\ WaitsMet /\ queue' = queue /\ fn' = fn
    BY DEF Branch
<1>2. PICK s \in fn.succ[at[1]] : at' = <<s, 1>>
    BY DEF Branch
<1>3. /\ WellFormed(fn) /\ Sound(C[at], ST) /\ W[at] \in Waitcnt /\ at[1] \in Blocks
      /\ at = EndOf(at[1]) /\ Left(C, W, at[1])
      /\ \A b \in Blocks : Entered(C, b)
    BY <1>1, WaveFacts
<1>4. s \in Blocks
    BY <1>3, Code
<1>5. /\ queue \in Seq(Operation) /\ EventsKnown(C[at], queue)
      /\ \A T \in InstCounterType : Outstanding(T, queue) <= W[at][T]
      /\ \A k \in 1..Len(queue) : ~Excused(queue[k])
    BY <1>1, NowKnown
<1>6. PICK B : B = applyWaitcnt(C[at], W[at])
    OBVIOUS
<1>7. Waited(C[at], W[at], B)
    BY <1>3, <1>6, ApplyWaited
<1>8. B.VmemTypes = C[at].VmemTypes
    BY <1>3, <1>6 DEF applyWaitcnt, Sound, BracketOK, BracketsType
<1>9. ASSUME FlatInOrder(fn), NEW j \in 1..Len(queue)
      PROVE  TypeKnown(C[at'], queue[j])
    <2>1. queue[j].ev \in B.PendingEvents
        <3>1. queue[j].ev \in C[at].PendingEvents
            BY <1>5 DEF EventsKnown
        <3>. QED  BY <1>3, <1>5, <1>7, <3>1, WaitKnown
    <2>2. s \in DOMAIN Incoming /\ Covers(Incoming[s], B)
        BY <1>3, <1>6, <2>1 DEF Left
    <2>3. Covers(C[<<s, 1>>], Incoming[s])
        BY <1>3, <1>4, <2>2 DEF Entered
    <2>4. \A v \in Vgprs : C[at].VmemTypes[v] \subseteq C[at'].VmemTypes[v]
        BY <1>2, <1>8, <2>2, <2>3 DEF Covers
    <2>5. TypeKnown(C[at], queue[j])
        BY <1>1, <1>5, <1>9 DEF TypesNow
    <2>. QED  BY <2>4, <2>5 DEF TypeKnown
<1>. QED  BY <1>1, <1>9, TypesOfStep

LEMMA InitTrace == Init => TraceInv
<1>. SUFFICES ASSUME Init PROVE TraceInv
    OBVIOUS
<1>1. PICK C, W : Cert(C, W)
    BY InitCert
<1>2. Known(C) /\ TracedNow(C) /\ TypesNow(C)
    BY DEF Known, TracedNow, TypesNow, Init
<1>. QED  BY <1>1, <1>2, InitInv, InitCert, ExportsInit DEF TraceInv

LEMMA NextTrace == TraceInv /\ [Next]_vars => TraceInv'
<1>. SUFFICES ASSUME TraceInv, [Next]_vars PROVE TraceInv'
    OBVIOUS
<1>1. IInv'
    BY NextInv DEF TraceInv
<1>2. PICK C, W : CertInv(C, W) /\ Known(C) /\ TracedNow(C) /\ TypesNow(C)
    BY DEF TraceInv, CertInv
<1>3. IInv /\ PassOK /\ ExportsOK /\ WellFormed(fn)
    BY DEF TraceInv, IInv, VariableTypes
<1>4. CASE StartBlock \/ VisitInstruction \/ EndBlock \/ RepeatRound
    <2>1. PassOK' /\ phase' = "pass" /\ \E D, X : Cert(D, X)'
        BY <1>2, <1>4, PassCert
    <2>2. \A D : Known(D)' /\ TracedNow(D)' /\ TypesNow(D)'
        BY <2>1 DEF Known, TracedNow, TypesNow
    <2>3. ExportsOK'
        <3>1. CASE RepeatRound
            <4>1. fn' = fn /\ ScoreBrackets' = ScoreBrackets /\ Incoming' = Incoming
                BY <3>1 DEF RepeatRound
            <4>. QED  BY <1>3, <4>1, ExportsSame
        <3>. QED  BY <1>3, <1>4, <3>1, ExportsStart, ExportsVisit, ExportsEnd
    <2>. QED  BY <1>1, <2>1, <2>2, <2>3 DEF TraceInv
<1>5. CASE FinishPass
    <2>1. PassOK' /\ Cert(C, W)' /\ Known(C)' /\ TracedNow(C)' /\ TypesNow(C)'
        BY <1>2, <1>3, <1>5, RoundCert, FinishKnown, FinishTraced, FinishTypes
    <2>2. ExportsOK'
        <3>1. fn' = fn /\ ScoreBrackets' = ScoreBrackets /\ Incoming' = Incoming
            BY <1>5 DEF FinishPass, passVars
        <3>. QED  BY <1>3, <3>1, ExportsSame
    <2>. QED  BY <1>1, <2>1, <2>2 DEF TraceInv
<1>6. CASE Complete \/ Issue \/ Call \/ Leave \/ Branch
    <2>1. UNCHANGED <<fn, passVars>> /\ phase # "pass" /\ phase' # "pass"
        BY <1>6 DEF Complete, Issue, Call, Leave, Branch, Ready
    <2>2. PassOK' /\ Cert(C, W)'
        BY <1>2, <2>1, WaveCert
    <2>3. ExportsOK'
        <3>1. fn' = fn /\ ScoreBrackets' = ScoreBrackets /\ Incoming' = Incoming
            BY <2>1 DEF passVars
        <3>. QED  BY <1>3, <3>1, ExportsSame
    <2>4. Known(C)' /\ TracedNow(C)' /\ TypesNow(C)'
        <3>1. CASE Complete
            BY <1>2, <3>1, CompleteKnown, CompleteTraced, CompleteTypes
        <3>2. CASE Issue
            BY <1>2, <3>2, IssueStep, IssueTracedStep, IssueTypes
        <3>3. CASE Call
            BY <1>2, <3>3, CallStep, CallTraced, CallTypes
        <3>4. CASE Leave
            BY <3>4 DEF Leave, Known, TracedNow, TypesNow
        <3>5. CASE Branch
            BY <1>2, <1>3, <3>5, BranchStep, BranchTraced, BranchTypes
        <3>. QED  BY <1>6, <3>1, <3>2, <3>3, <3>4, <3>5
    <2>. QED  BY <1>1, <2>2, <2>3, <2>4 DEF TraceInv
<1>7. CASE UNCHANGED vars
    <2>1. /\ UNCHANGED <<fn, passVars>> /\ phase' = phase /\ at' = at /\ queue' = queue
          /\ Dirty' = Dirty /\ Incoming' = Incoming /\ Hard' = Hard
          /\ ScoreBrackets' = ScoreBrackets /\ Repeat' = Repeat /\ fn' = fn
        BY <1>7 DEF vars, passVars
    <2>2. PassOK'
        BY <1>2, <2>1, SameFunction DEF PassOK, CertInv
    <2>3. Cert(C, W)'
        BY <1>2, <1>7, StutterCert
    <2>4. Known(C)'
        BY <1>2, <2>1, SameFunction DEF Known, Excused, CounterOf
    <2>5. ExportsOK'
        BY <1>3, <2>1, ExportsSame
    <2>6. TracedNow(C)'
        <3>1. \A op : Excused(op)' <=> Excused(op)
            BY <2>1, SameFunction DEF Excused, CounterOf
        <3>2. ASSUME phase = "run"
              PROVE  ExportsKnown(C[at])'
            <4>1. ExportsKnown(C[at])
                BY <1>2, <3>2 DEF TracedNow
            <4>. QED  BY <2>1, <4>1 DEF ExportsKnown
        <3>3. ASSUME phase = "run", NEW j \in 1..Len(queue)
              PROVE  (Excused(queue[j]) \/ (Tidy(queue[j]) /\ OpTraced(C[at], queue, j)))'
            <4>1. Excused(queue[j]) \/ (Tidy(queue[j]) /\ OpTraced(C[at], queue, j))
                BY <1>2, <3>3 DEF TracedNow
            <4>2. PICK B, q, op : B = C[at] /\ q = queue /\ op = queue[j]
                OBVIOUS
            <4>3. Excused(op)' \/ (Tidy(op)' /\ OpTraced(B, q, j)')
                BY <2>1, <3>1, <4>1, <4>2, SameTidy
            <4>4. B = C[at'] /\ q = queue' /\ op = queue'[j]
                BY <2>1, <4>2
            <4>. QED  BY <4>3, <4>4
        <3>. QED  BY <2>1, <3>2, <3>3 DEF TracedNow
    <2>7. TypesNow(C)'
        <3>1. \A op : /\ Excused(op)' <=> Excused(op)
                      /\ \A B : TypeKnown(B, op)' <=> TypeKnown(B, op)
            BY <2>1, SameFunction, SameType DEF Excused, CounterOf
        <3>2. FlatInOrder(fn)' <=> FlatInOrder(fn)
            BY <2>1 DEF FlatInOrder
        <3>3. ASSUME phase = "run", FlatInOrder(fn), NEW j \in 1..Len(queue)
              PROVE  (Excused(queue[j]) \/ TypeKnown(C[at], queue[j]))'
            <4>1. PICK B, op : B = C[at] /\ op = queue[j]
                OBVIOUS
            <4>2. Excused(op) \/ TypeKnown(B, op)
                BY <1>2, <3>3, <4>1 DEF TypesNow
            <4>3. Excused(op)' \/ TypeKnown(B, op)'
                BY <3>1, <4>2
            <4>4. B = C[at'] /\ op = queue'[j]
                BY <2>1, <4>1
            <4>. QED  BY <4>3, <4>4
        <3>. QED  BY <2>1, <3>2, <3>3 DEF TypesNow
    <2>. QED  BY <1>1, <2>2, <2>3, <2>4, <2>5, <2>6, <2>7 DEF TraceInv
<1>. QED  BY <1>4, <1>5, <1>6, <1>7 DEF Next, Pass, Ended

LEMMA Traced == Spec => []TraceInv
BY InitTrace, NextTrace, PTL DEF Spec

\* The function is one of those given.
LEMMA GivenFunction == Spec => [](fn \in Functions)
<1>1. Init => fn \in Functions
    BY DEF Init
<1>2. fn \in Functions /\ [Next]_vars => (fn \in Functions)'
    BY DEF Next, Pass, StartBlock, VisitInstruction, EndBlock, RepeatRound, FinishPass,
           Complete, Issue, Call, Leave, Branch, Ended, vars
<1>. QED  BY <1>1, <1>2, PTL DEF Spec

-----------------------------------------------------------------------------
(* The results. *)

\* No instruction is issued that reads a register an operation in flight may
\* still write, nor a call whose target is still to be written: on any path,
\* for any order of completion the counters allow.  The functions are those
\* with accesses to both memories only where these end in order, and with one
\* kind of export where there are loads by the export path.
THEOREM ResultsArrive ==
    ASSUME \A f \in Functions :
              FlatInOrder(f) /\ (ExportsAlike(f) \/ ~ExportedBy(f, "EXP_LDS_ACCESS"))
    PROVE  Spec => []ResultsArrived
<1>1. TraceInv /\ fn \in Functions => ResultsArrived
    <2>. SUFFICES ASSUME TraceInv, fn \in Functions, Ready, NEW k \in 1..Len(queue),
                         NEW r \in queue[k].writes,
                         r \in IF Inst.kind = "call" THEN SgprOperands(Inst) ELSE Inst.uses
                  PROVE  FALSE
        BY DEF ResultsArrived
    <2> DEFINE T == CounterOf(queue[k])
    <2>1. PICK C, W : CertInv(C, W) /\ Known(C) /\ TracedNow(C)
        BY DEF TraceInv, CertInv
    <2>2. phase = "run" /\ at[2] <= Length(at[1]) /\ WaitsMet
        BY DEF Ready
    <2>3. /\ WellFormed(fn) /\ Sound(C[at], ST) /\ at = <<at[1], at[2]>>
          /\ Done(C, W, at[1], at[2]) /\ Inst \in Instruction /\ Sensible(Inst)
          /\ W[at] \in Waitcnt
        BY <2>1, <2>2, WaveFacts
    <2>4. /\ queue \in Seq(Operation) /\ EventsKnown(C[at], queue) /\ AllTraced(C[at], queue)
          /\ ExportsKnown(C[at]) /\ \A U \in InstCounterType : Outstanding(U, queue) <= W[at][U]
        BY <2>1, <2>2, NowKnown, NowTraced
    <2>5. Strong(C[at], Inst, W[at])
        BY <2>3 DEF Done, Inst
    <2>6. /\ queue[k] \in Operation /\ Tidy(queue[k]) /\ r \in Registers(queue[k])
          /\ queue[k].ev \in C[at].PendingEvents /\ r \in Vgprs \cup Sgprs
        BY <2>4 DEF AllTraced, Tidy, EventsKnown, Registers, Operation
    <2>7. T \in InstCounterType /\ queue[k].ev \in WaitEventMask(ST)[T] /\ T # "STORE_CNT"
        BY <2>3, <2>6, EventOfCounter, TidyStore
    <2>8. \/ r \in Vgprs /\ T \in {"LOAD_CNT", "SAMPLE_CNT", "BVH_CNT", "DS_CNT"}
          \/ r \in Vgprs /\ queue[k].ev = "EXP_LDS_ACCESS" /\ T = "EXP_CNT"
          \/ r \in Sgprs /\ T = SmemAccessCounter(ST)
        <3>1. queue[k].ev = "EXP_LDS_ACCESS" => T = "EXP_CNT"
            BY Counters DEF CounterOf, ExpEvents
        <3>. QED  BY <2>6, <3>1 DEF Tidy
    <2>9. Reliable(T)
        <3>1. ASSUME T = "EXP_CNT"
              PROVE  ExportsAlike(fn)
            <4>1. queue[k].ev = "EXP_LDS_ACCESS"
                BY <2>8, <3>1 DEF SmemAccessCounter
            <4>2. ExportedBy(fn, "EXP_LDS_ACCESS")
                BY <2>4, <2>6, <4>1 DEF ExportsKnown, ExpEvents
            <4>. QED  BY <4>2
        <3>. QED  BY <3>1 DEF Reliable
    <2>10. W[at][T] # 0
        <3>1. Outstanding(T, queue) # 0 /\ Outstanding(T, queue) \in Nat
            BY <2>4, Counted
        <3>2. Outstanding(T, queue) <= W[at][T]
            BY <2>4, <2>7
        <3> HIDE DEF T
        <3>. QED  BY <3>1, <3>2
    <2>11. CASE Inst.kind = "return"
        <3>1. queue[k].ev \in PendingOn(C[at], T)
            BY <2>3, <2>6, <2>7 DEF PendingOn, Sound, BracketOK
        <3>. QED  BY <2>5, <2>7, <2>10, <2>11, <3>1 DEF Strong
    <2>12. CASE Inst.kind = "endpgm"
        BY <2>3, <2>12 DEF Sensible
    <2>13. CASE Inst.kind = "call"
        <3>1. r \in SgprOperands(Inst) /\ r \in Sgprs /\ r \notin Vgprs
            BY <2>13, RegistersAssumption DEF SgprOperands
        <3>2. T = SmemAccessCounter(ST)
            BY <2>8, <3>1
        <3>3. Held(C[at], T, r) => W[at][T] <= determineWait(C[at], T, r)
            BY <2>5, <2>13, <3>1, <3>2 DEF Strong
        <3>. QED  BY <2>1, <2>6, <2>9, <3>3, NoneAwaited
    <2>14. CASE Inst.kind \notin {"call", "return", "endpgm"}
        <3>1. r \in Inst.uses
            BY <2>14
        <3>2. r \in SlotsToWaitFor(C[at], Inst, T)
            <4>1. CASE r \in Vgprs /\ T \in {"LOAD_CNT", "SAMPLE_CNT", "BVH_CNT"}
                BY <3>1, <4>1 DEF SlotsToWaitFor, needsVmWait, VgprOperands
            <4>2. CASE r \in Vgprs /\ T = "DS_CNT"
                BY <3>1, <4>2 DEF SlotsToWaitFor, VgprOperands
            <4>3. CASE r \in Vgprs /\ queue[k].ev = "EXP_LDS_ACCESS" /\ T = "EXP_CNT"
                BY <2>6, <3>1, <4>3 DEF SlotsToWaitFor, VgprOperands, hasPendingEvent
            <4>4. CASE r \in Sgprs /\ T = SmemAccessCounter(ST)
                BY <3>1, <4>4 DEF SlotsToWaitFor, SgprOperands, SmemAccessCounter
            <4>. QED  BY <2>8, <4>1, <4>2, <4>3, <4>4
        <3>3. Held(C[at], T, r) => W[at][T] <= determineWait(C[at], T, r)
            BY <2>5, <2>7, <2>14, <3>2 DEF Strong
        <3>. QED  BY <2>1, <2>6, <2>9, <3>3, NoneAwaited
    <2>. QED  BY <2>11, <2>12, <2>13, <2>14
<1>. QED  BY <1>1, Traced, GivenFunction, PTL

\* No instruction is issued that writes a register an operation in flight may
\* still read, or EXEC while an export may still read it.  The functions are
\* those whose exports, locks and loads by the export path are of one kind.
THEOREM OperandsAreRead ==
    ASSUME \A f \in Functions : ExportsAlike(f)
    PROVE  Spec => []OperandsRead
<1>1. TraceInv /\ fn \in Functions => OperandsRead
    <2>. SUFFICES ASSUME TraceInv, fn \in Functions, Ready, NEW k \in 1..Len(queue),
                         Inst.kind \notin {"call", "return"}
                  PROVE  /\ queue[k].locks \cap Inst.defs = {}
                         /\ Inst.exec => queue[k].ev \notin ExecReaders
        BY DEF OperandsRead
    <2> DEFINE T == CounterOf(queue[k])
    <2>1. PICK C, W : CertInv(C, W) /\ Known(C) /\ TracedNow(C)
        BY DEF TraceInv, CertInv
    <2>2. phase = "run" /\ at[2] <= Length(at[1]) /\ WaitsMet
        BY DEF Ready
    <2>3. /\ WellFormed(fn) /\ Sound(C[at], ST) /\ at = <<at[1], at[2]>>
          /\ Done(C, W, at[1], at[2]) /\ Inst \in Instruction /\ Sensible(Inst)
        BY <2>1, <2>2, WaveFacts
    <2>4. /\ queue \in Seq(Operation) /\ EventsKnown(C[at], queue) /\ AllTraced(C[at], queue)
          /\ \A U \in InstCounterType : Outstanding(U, queue) <= W[at][U]
        BY <2>1, <2>2, NowKnown, NowTraced
    <2>5. Strong(C[at], Inst, W[at])
        BY <2>3 DEF Done, Inst
    <2>6. queue[k] \in Operation /\ Tidy(queue[k]) /\ queue[k].ev \in C[at].PendingEvents
        BY <2>4 DEF AllTraced, Tidy, EventsKnown
    <2>7. Inst.kind = "endpgm" => Inst.defs = {} /\ ~Inst.exec
        BY <2>3 DEF Sensible
    <2>8. ASSUME NEW r \in queue[k].locks, r \in Inst.defs
          PROVE  FALSE
        <3>1. T = "EXP_CNT" /\ r \in Registers(queue[k]) /\ r \in Vgprs
            BY <2>6, <2>8 DEF Tidy, Registers, Operation
        <3>2. Reliable(T)
            BY <3>1 DEF Reliable
        <3>3. Inst.kind \notin {"call", "return", "endpgm"}
            BY <2>7, <2>8
        <3>4. r \in SlotsToWaitFor(C[at], Inst, T)
            BY <2>8, <3>1 DEF SlotsToWaitFor, VgprOperands
        <3>5. Held(C[at], T, r) => W[at][T] <= determineWait(C[at], T, r)
            BY <2>5, <3>1, <3>3, <3>4 DEF Strong, InstCounterType
        <3>. QED  BY <2>1, <3>1, <3>2, <3>5, NoneAwaited
    <2>9. ASSUME Inst.exec, queue[k].ev \in ExecReaders
          PROVE  FALSE
        <3>1. CounterOf(queue[k]) = "EXP_CNT"
            BY <2>9, Counters DEF CounterOf, ExecReaders, ExpEvents
        <3>2. W[at]["EXP_CNT"] = 0
            BY <2>5, <2>6, <2>7, <2>9 DEF Strong
        <3>3. Outstanding("EXP_CNT", queue) \in Nat /\ Outstanding("EXP_CNT", queue) # 0
            BY <2>4, <3>1, Counted
        <3>4. Outstanding("EXP_CNT", queue) <= W[at]["EXP_CNT"]
            BY <2>4 DEF InstCounterType
        <3>. QED  BY <3>2, <3>3, <3>4
    <2>. QED  BY <2>8, <2>9
<1>. QED  BY <1>1, Traced, GivenFunction, PTL

\* No instruction is issued that writes a register an operation in flight may
\* still write, but where the two are vector-memory reads of one type and write
\* in order: on any path, for any order of completion the counters allow.  The
\* functions are those whose results arrive, in which FLAT loads, whose types
\* the pass does not record, are of the type of all the other reads.
THEOREM WritesAreOrdered ==
    ASSUME \A f \in Functions :
              /\ FlatInOrder(f) /\ (ExportsAlike(f) \/ ~ExportedBy(f, "EXP_LDS_ACCESS"))
              /\ TypesAlike(f)
    PROVE  Spec => []WritesOrdered
<1>1. TraceInv /\ fn \in Functions => WritesOrdered
    <2>. SUFFICES ASSUME TraceInv, fn \in Functions, Ready, NEW k \in 1..Len(queue),
                         NEW r \in queue[k].writes \cap Inst.defs,
                         Inst.kind \notin {"call", "return"}, ~WritesInOrder(queue[k], Inst)
                  PROVE  FALSE
        BY DEF WritesOrdered
    <2> DEFINE T == CounterOf(queue[k])
    <2>1. PICK C, W : CertInv(C, W) /\ Known(C) /\ TracedNow(C) /\ TypesNow(C)
        BY DEF TraceInv, CertInv
    <2>2. phase = "run" /\ at[2] <= Length(at[1]) /\ WaitsMet
        BY DEF Ready
    <2>3. /\ WellFormed(fn) /\ Sound(C[at], ST) /\ at = <<at[1], at[2]>>
          /\ Done(C, W, at[1], at[2]) /\ Inst \in Instruction /\ Sensible(Inst)
          /\ at[1] \in Blocks /\ at[2] \in Nat /\ at[2] > 0 /\ Length(at[1]) \in Nat
        BY <2>1, <2>2, WaveFacts
    <2>4. /\ queue \in Seq(Operation) /\ EventsKnown(C[at], queue) /\ AllTraced(C[at], queue)
          /\ ExportsKnown(C[at]) /\ \A j \in 1..Len(queue) : ~Excused(queue[j])
        BY <2>1, <2>2, NowKnown, NowTraced
    <2>5. Strong(C[at], Inst, W[at])
        BY <2>3 DEF Done, Inst
    <2>6. /\ queue[k] \in Operation /\ Tidy(queue[k]) /\ r \in Registers(queue[k])
          /\ queue[k].ev \in C[at].PendingEvents /\ r \in Vgprs \cup Sgprs
        BY <2>4 DEF AllTraced, Tidy, EventsKnown, Registers, Operation
    <2>7. T \in InstCounterType
        BY <2>3, <2>6, EventOfCounter
    <2>8. Inst.kind \notin {"call", "return", "endpgm"}
        BY <2>3 DEF Sensible
    <2>9. \/ r \in Vgprs /\ T \in VmemCounters
          \/ r \in Vgprs /\ T = "DS_CNT"
          \/ r \in Vgprs /\ queue[k].ev = "EXP_LDS_ACCESS" /\ T = "EXP_CNT"
          \/ r \in Sgprs /\ T = SmemAccessCounter(ST)
        <3>1. queue[k].ev = "EXP_LDS_ACCESS" => T = "EXP_CNT"
            BY Counters DEF CounterOf, ExpEvents
        <3>. QED  BY <2>6, <3>1 DEF Tidy, VmemCounters
    <2>10. Reliable(T)
        <3>1. ASSUME T = "EXP_CNT"
              PROVE  ExportsAlike(fn)
            <4>1. queue[k].ev = "EXP_LDS_ACCESS"
                BY <2>9, <3>1 DEF SmemAccessCounter, VmemCounters
            <4>2. ExportedBy(fn, "EXP_LDS_ACCESS")
                BY <2>4, <2>6, <4>1 DEF ExportsKnown, ExpEvents
            <4>. QED  BY <4>2
        <3>. QED  BY <3>1 DEF Reliable
    <2>11. r \notin SlotsToWaitFor(C[at], Inst, T)
        <3>. SUFFICES ASSUME r \in SlotsToWaitFor(C[at], Inst, T) PROVE FALSE
            OBVIOUS
        <3>1. Held(C[at], T, r) => W[at][T] <= determineWait(C[at], T, r)
            BY <2>5, <2>7, <2>8 DEF Strong
        <3>. QED  BY <2>1, <2>6, <2>10, <3>1, NoneAwaited
    <2>12. r \in Vgprs /\ T \in VmemCounters /\ r \notin needsVmWait(C[at], Inst)
        <3>1. CASE r \in Vgprs /\ T \in VmemCounters
            BY <2>11, <3>1 DEF SlotsToWaitFor, VmemCounters
        <3>2. CASE r \in Vgprs /\ T = "DS_CNT"
            BY <2>11, <3>2 DEF SlotsToWaitFor, VgprOperands
        <3>3. CASE r \in Vgprs /\ queue[k].ev = "EXP_LDS_ACCESS" /\ T = "EXP_CNT"
            BY <2>6, <2>11, <3>3 DEF SlotsToWaitFor, VgprOperands, hasPendingEvent
        <3>4. CASE r \in Sgprs /\ T = SmemAccessCounter(ST)
            BY <2>11, <3>4 DEF SlotsToWaitFor, SgprOperands, SmemAccessCounter
        <3>. QED  BY <2>9, <3>1, <3>2, <3>3, <3>4
    <2>13. /\ updateVMCntOnly(Inst) /\ hasVmemWriteVgprInOrder(ST)
           /\ C[at].VmemTypes[r] \subseteq {Inst.type} /\ Inst.kind = "load"
        <3>1. r \in VgprOperands(Inst)
            BY <2>12 DEF VgprOperands
        <3>2. Inst.kind \in {"store", "dma"} => Inst.defs = {}
            BY <2>3 DEF Sensible
        <3>. QED  BY <2>12, <3>1, <3>2 DEF needsVmWait, hasOtherPendingVmemTypes, updateVMCntOnly,
                                           isVMEMOrFLAT
    <2>14. queue[k].type \in C[at].VmemTypes[r] \/ Unrecorded(fn, queue[k].type)
        <3>1. TypeKnown(C[at], queue[k])
            BY <2>1, <2>2, <2>4 DEF TypesNow
        <3>. QED  BY <2>12, <3>1 DEF TypeKnown
    <2>15. queue[k].type = Inst.type
        <3>1. CASE queue[k].type \in C[at].VmemTypes[r]
            BY <2>13, <3>1
        <3>2. CASE Unrecorded(fn, queue[k].type)
            <4>1. at[1] \in 1..Len(fn.code) /\ at[2] \in 1..Len(fn.code[at[1]])
                BY <2>2, <2>3 DEF Blocks, Length
            <4>2. Inst = fn.code[at[1]][at[2]]
                BY DEF Inst
            <4>3. TypesAlike(fn) /\ hasVmemWriteVgprInOrder(fn.gen)
                BY <2>13 DEF ST
            <4>. QED  BY <2>13, <3>2, <4>1, <4>2, <4>3 DEF TypesAlike
        <3>. QED  BY <2>14, <3>1, <3>2
    <2>. QED  BY <2>13, <2>15 DEF WritesInOrder
<1>. QED  BY <1>1, Traced, GivenFunction, PTL

\* The brackets a block starts with hold a score for each register of every
\* operation in flight where the wave enters it, whichever path led there.
\* The functions are those of the two theorems before.
THEOREM RegistersCovered ==
    ASSUME \A f \in Functions : FlatInOrder(f) /\ ExportsAlike(f)
    PROVE  Spec => []IncomingCoversRegisters
<1>1. TraceInv /\ IncomingCoversEvents /\ fn \in Functions
         => IncomingCoversRegisters
    <2>. SUFFICES ASSUME TraceInv, IncomingCoversEvents, fn \in Functions, EntersBusy,
                         NEW k \in 1..Len(queue), NEW r \in Registers(queue[k])
                  PROVE  Held(Incoming[at[1]], CounterOf(queue[k]), r)
        BY DEF IncomingCoversRegisters, Registers, Held
    <2> DEFINE T == CounterOf(queue[k])
    <2>1. /\ phase = "run" /\ at[2] = 1 /\ ~(at[1] = 1 /\ ~fn.isEntryFunction)
          /\ at[1] \in DOMAIN Incoming
        BY DEF EntersBusy, IncomingCoversEvents
    <2>2. PICK C, W : CertInv(C, W) /\ Known(C) /\ TracedNow(C)
        BY DEF TraceInv, CertInv
    <2>3. at = <<at[1], 1>> /\ Entered(C, at[1]) /\ WellFormed(fn)
        BY <2>1, <2>2, WaveFacts
    <2>4. Tidy(queue[k]) /\ OpTraced(C[at], queue, k) /\ queue[k] \in Operation
        BY <2>1, <2>2, <2>3 DEF TracedNow, Excused, Tidy
    <2>5. T \in InstCounterType /\ r \in Slots
        BY <2>3, <2>4, EventOfCounter, RegisterSlots
    <2>6. Held(C[at], T, r)
        BY <2>4 DEF OpTraced, Reliable, Traces
    <2>7. Covers(Incoming[at[1]], C[at])
        BY <2>1, <2>3 DEF Entered
    <2>. QED  BY <2>5, <2>6, <2>7 DEF Covers
<1>. QED  BY <1>1, Traced, EventsCovered, GivenFunction, PTL

-----------------------------------------------------------------------------
(* The early release of VGPRs.  A function without loops is visited once: in  *)
(* reverse post order all its edges lead forward, and a block is not visited  *)
(* before all that lead to it have been.  What its visit finds of stores to   *)
(* scratch is then final; with a loop it is not, as the run si_release shows. *)

Forward(f) == \A b \in 1..Len(f.code) : \A s \in f.succ[b] : s > b

\* S_ENDPGM is a terminator.
EndsLast(f) ==
    \A b \in 1..Len(f.code) : \A k \in 1..Len(f.code[b]) :
        f.code[b][k].kind = "endpgm" => k = Len(f.code[b])

\* The blocks come one after the other, and those with a release are behind.
OneRound ==
    phase = "pass" => /\ ~Repeat
                      /\ Dirty = {b \in Blocks : b > at[1]}
                      /\ \A b \in ReleaseVGPRInsts : b <= at[1]

\* The certificate of a place with a release has no store to scratch pending.
ReleasedAt(C, b, k) ==
    /\ fn.code[b][k].kind = "endpgm"
    /\ "SCRATCH_WRITE_ACCESS" \notin C[<<b, k>>].PendingEvents
    /\ Visiting /\ at[1] = b => k < at[2]

Released(C) ==
    OneRound /\ \A b \in ReleaseVGPRInsts : \E k \in 1..Length(b) : ReleasedAt(C, b, k)

ReleaseInv ==
    IInv /\ PassOK /\ fn \in Functions /\ \E C, W : Cert(C, W) /\ Known(C) /\ Released(C)

LEMMA ReleaseFacts ==
    ASSUME IInv
    PROVE  /\ WellFormed(fn) /\ Dirty \subseteq Blocks /\ ReleaseVGPRInsts \subseteq Blocks
           /\ Blocks \subseteq Nat \ {0} /\ at[1] \in Nat /\ at[2] \in Nat
           /\ \A b \in Blocks : /\ Length(b) \in Nat
                              /\ \A k \in 1..Length(b) : <<b, k>> \in Places
<1>1. /\ WellFormed(fn) /\ Dirty \subseteq Blocks /\ ReleaseVGPRInsts \subseteq Blocks
      /\ at[1] \in Nat /\ at[2] \in Nat
    BY DEF IInv, VariableTypes
<1>2. Blocks \subseteq Nat \ {0}
    BY DEF Blocks
<1>3. ASSUME NEW b \in Blocks
      PROVE  Length(b) \in Nat /\ \A k \in 1..Length(b) : <<b, k>> \in Places
    <2>1. Length(b) \in Nat
        BY <1>1, Code
    <2>. QED  BY <1>1, <2>1, PlaceFacts
<1>. QED  BY <1>1, <1>2, <1>3

\* A visit begins: with a block that has no release yet.
LEMMA StartReleased ==
    ASSUME NEW C, NEW D, IInv, Released(C), StartBlock, KeptBut(C, D, at')
    PROVE  Released(D)'
<1>1. PICK b0 \in Dirty :
         /\ b0 > at[1] /\ \A x \in Dirty : x > at[1] => b0 <= x
         /\ at' = <<b0, 1>> /\ Dirty' = Dirty \ {b0}
    BY DEF StartBlock
<1>2. /\ fn' = fn /\ Repeat' = Repeat /\ ReleaseVGPRInsts' = ReleaseVGPRInsts
      /\ phase = "pass" /\ phase' = "pass" /\ at[2] = 0 /\ OneRound
    BY DEF StartBlock, Released
<1>3. OneRound'
    <2>1. Dirty = {b \in Blocks : b > at[1]} /\ ~Repeat /\ at'[1] = b0 /\ Blocks' = Blocks
        BY <1>1, <1>2 DEF OneRound, Blocks
    <2>2. Dirty' = {b \in Blocks : b > b0}
        BY <1>1, <2>1, ReleaseFacts
    <2>3. \A b \in ReleaseVGPRInsts' : b <= at'[1]
        BY <1>1, <1>2, ReleaseFacts DEF OneRound
    <2>. QED  BY <1>2, <2>1, <2>2, <2>3 DEF OneRound
<1>4. ASSUME NEW b \in ReleaseVGPRInsts
      PROVE  \E k \in 1..Length(b) : ReleasedAt(D, b, k)'
    <2>1. PICK k \in 1..Length(b) : ReleasedAt(C, b, k)
        BY DEF Released
    <2>2. b # b0
        BY <1>1, <1>2, ReleaseFacts DEF OneRound
    <2>3. D[<<b, k>>] = C[<<b, k>>]
        <3>1. <<b, k>> \in Places /\ <<b, k>> # at'
            BY <1>1, <2>2, ReleaseFacts
        <3>. QED  BY <3>1 DEF KeptBut
    <2>4. ReleasedAt(D, b, k)'
        BY <1>1, <1>2, <2>1, <2>2, <2>3 DEF ReleasedAt
    <2>. QED  BY <2>4
<1>5. \A b : Length(b)' = Length(b)
    BY <1>2 DEF Length
<1>. QED  BY <1>2, <1>3, <1>4, <1>5 DEF Released

\* An instruction is visited: a release is for what is known before it.
LEMMA VisitReleased ==
    ASSUME NEW C, NEW W, NEW D, CertInv(C, W), Released(C), VisitInstruction,
           KeptBut(C, D, at')
    PROVE  Released(D)'
<1>1. /\ fn' = fn /\ Repeat' = Repeat /\ Dirty' = Dirty /\ at' = <<at[1], at[2] + 1>>
      /\ ReleaseVGPRInsts' =
            ReleaseVGPRInsts \cup {b \in {at[1]} : mayReleaseVGPRs(ScoreBrackets, Inst)}
      /\ phase = "pass" /\ phase' = "pass" /\ at[2] > 0 /\ at[2] <= Length(at[1])
      /\ OneRound /\ IInv /\ Visiting
    BY DEF VisitInstruction, Released, CertInv, Visiting
<1>2. at \in Places /\ at[1] \in Blocks /\ at[2] \in Nat /\ at = <<at[1], at[2]>>
    BY <1>1, ReleaseFacts, InstOK
<1>3. OneRound'
    <2>1. at'[1] = at[1] /\ Blocks' = Blocks /\ ~Repeat
          /\ Dirty = {b \in Blocks : b > at[1]}
        BY <1>1 DEF Blocks, OneRound
    <2>2. \A b \in ReleaseVGPRInsts' : b <= at[1]
        BY <1>1, ReleaseFacts DEF OneRound
    <2>. QED  BY <1>1, <2>1, <2>2 DEF OneRound
<1>4. ASSUME NEW b \in ReleaseVGPRInsts
      PROVE  \E k \in 1..Length(b) : ReleasedAt(D, b, k)'
    <2>1. PICK k \in 1..Length(b) : ReleasedAt(C, b, k)
        BY DEF Released
    <2>2. k \in Nat /\ (b = at[1] => k < at[2]) /\ <<b, k>> \in Places
        BY <1>1, <2>1, ReleaseFacts DEF ReleasedAt
    <2>3. <<b, k>> # at'
        BY <1>1, <1>2, <2>2
    <2>4. D[<<b, k>>] = C[<<b, k>>]
        BY <2>2, <2>3 DEF KeptBut
    <2>5. ReleasedAt(D, b, k)'
        BY <1>1, <1>2, <2>1, <2>2, <2>4 DEF ReleasedAt
    <2>. QED  BY <2>5
<1>5. PICK b1, k1 : b1 = at[1] /\ k1 = at[2]
    OBVIOUS
<1>6. ASSUME mayReleaseVGPRs(ScoreBrackets, Inst)
      PROVE  k1 \in 1..Length(b1) /\ ReleasedAt(D, b1, k1)'
    <2>1. Inst.kind = "endpgm" /\ "SCRATCH_WRITE_ACCESS" \notin ScoreBrackets.PendingEvents
        BY <1>6 DEF mayReleaseVGPRs, hasPendingEvent
    <2>2. D[at] = ScoreBrackets
        <3>1. C[at] = ScoreBrackets
            BY <1>1 DEF CertInv, Cert
        <3>2. at # at'
            BY <1>1, <1>2
        <3>. QED  BY <1>2, <3>1, <3>2 DEF KeptBut
    <2>3. k1 \in 1..Length(b1) /\ Inst = fn.code[b1][k1] /\ at = <<b1, k1>> /\ at' = <<b1, k1 + 1>>
        BY <1>1, <1>2, <1>5, ReleaseFacts DEF Inst
    <2>4. ReleasedAt(D, b1, k1)'
        BY <1>1, <2>1, <2>2, <2>3 DEF ReleasedAt
    <2>. QED  BY <2>3, <2>4
<1>7. \A b \in ReleaseVGPRInsts' :
         b \in ReleaseVGPRInsts \/ (b = b1 /\ mayReleaseVGPRs(ScoreBrackets, Inst))
    BY <1>1, <1>5
<1>8. \A b : Length(b)' = Length(b)
    BY <1>1 DEF Length
<1>9. \A b \in ReleaseVGPRInsts' : \E k \in 1..Length(b) : ReleasedAt(D, b, k)'
    BY <1>4, <1>6, <1>7
<1>. QED  BY <1>3, <1>8, <1>9 DEF Released

\* The end of a block: its successors come later, and none has a release.
LEMMA EndReleased ==
    ASSUME NEW C, IInv, Forward(fn), Released(C), EndBlock
    PROVE  Released(C)'
<1>1. PICK b0 : b0 = at[1]
    OBVIOUS
<1>2. /\ fn' = fn /\ ReleaseVGPRInsts' = ReleaseVGPRInsts /\ at' = <<b0, 0>>
      /\ phase = "pass" /\ phase' = "pass" /\ at[2] > 0 /\ OneRound
    BY <1>1 DEF EndBlock, Released
<1>3. PICK changed : /\ changed \subseteq fn.succ[b0] /\ Dirty' = Dirty \cup changed
                     /\ Repeat' = (Repeat \/ \E s \in changed : s <= b0)
    <2>1. PICK B : LET c == IF B.PendingEvents = {} THEN {} ELSE changedSuccessors(b0, B)
                   IN  /\ Dirty' = Dirty \cup c
                       /\ Repeat' = (Repeat \/ \E s \in c : s <= b0)
        BY <1>1 DEF EndBlock
    <2>2. changedSuccessors(b0, B) \subseteq fn.succ[b0]
        BY DEF changedSuccessors
    <2>. QED  BY <2>1, <2>2
<1>4. b0 \in Blocks /\ b0 \in Nat /\ \A s \in fn.succ[b0] : s \in Blocks /\ s \in Nat /\ s > b0
    <2>1. b0 \in Blocks /\ WellFormed(fn)
        BY <1>1, <1>2, ReleaseFacts, InstOK
    <2>2. fn.succ[b0] \subseteq Blocks
        BY <2>1, Code
    <2>. QED  BY <2>1, <2>2, ReleaseFacts DEF Forward, Blocks
<1>5. OneRound'
    <2>1. ~Repeat'
        <3>1. \A s \in changed : s \in Nat /\ s > b0
            BY <1>3, <1>4
        <3>2. \A s \in changed : ~(s <= b0)
            BY <1>4, <3>1
        <3>3. ~Repeat
            BY <1>2 DEF OneRound
        <3>. QED  BY <1>3, <3>2, <3>3
    <2>2. Dirty' = {b \in Blocks : b > b0} /\ Blocks' = Blocks /\ at'[1] = b0
        <3>1. Dirty = {b \in Blocks : b > b0}
            BY <1>1, <1>2 DEF OneRound
        <3>2. changed \subseteq Dirty
            BY <1>3, <1>4, <3>1
        <3>. QED  BY <1>2, <1>3, <3>1, <3>2 DEF Blocks
    <2>3. \A b \in ReleaseVGPRInsts' : b <= b0
        BY <1>1, <1>2 DEF OneRound
    <2>. QED  BY <1>2, <2>1, <2>2, <2>3 DEF OneRound
<1>6. ASSUME NEW b, NEW k, ReleasedAt(C, b, k)
      PROVE  ReleasedAt(C, b, k)'
    BY <1>2, <1>6 DEF ReleasedAt, Visiting
<1>7. \A b : Length(b)' = Length(b)
    BY <1>2 DEF Length
<1>. QED  BY <1>2, <1>5, <1>6, <1>7 DEF Released

\* The wave, and the end of the pass, leave the releases as they are.
LEMMA WaveReleased ==
    ASSUME NEW C, Released(C), fn' = fn, ReleaseVGPRInsts' = ReleaseVGPRInsts,
           phase' # "pass"
    PROVE  Released(C)'
<1>1. OneRound' /\ ~Visiting'
    BY DEF OneRound, Visiting
<1>2. ASSUME NEW b, NEW k, ReleasedAt(C, b, k)
      PROVE  ReleasedAt(C, b, k)'
    BY <1>1, <1>2 DEF ReleasedAt
<1>3. \A b : Length(b)' = Length(b)
    BY DEF Length
<1>. QED  BY <1>1, <1>2, <1>3 DEF Released

LEMMA StutterReleased ==
    ASSUME NEW C, Released(C), UNCHANGED vars
    PROVE  Released(C)'
<1>1. /\ fn' = fn /\ phase' = phase /\ at' = at /\ ReleaseVGPRInsts' = ReleaseVGPRInsts
      /\ Dirty' = Dirty /\ Repeat' = Repeat
    BY DEF vars, passVars
<1>2. ASSUME NEW b, NEW k, ReleasedAt(C, b, k)
      PROVE  ReleasedAt(C, b, k)'
    BY <1>1, <1>2 DEF ReleasedAt, Visiting
<1>3. \A b : Length(b)' = Length(b)
    BY <1>1 DEF Length
<1>4. OneRound'
    <2>1. Blocks' = Blocks
        BY <1>1 DEF Blocks
    <2>. QED  BY <1>1, <2>1 DEF Released, OneRound
<1>. QED  BY <1>1, <1>2, <1>3, <1>4 DEF Released

LEMMA InitRelease == Init => ReleaseInv
<1>. SUFFICES ASSUME Init PROVE ReleaseInv
    OBVIOUS
<1>1. PICK C, W : Cert(C, W)
    BY InitCert
<1>2. Known(C)
    BY DEF Known, Init
<1>3. Released(C)
    BY DEF Released, OneRound, Init, Blocks
<1>4. fn \in Functions
    BY DEF Init
<1>. QED  BY <1>1, <1>2, <1>3, <1>4, InitInv, InitCert DEF ReleaseInv

\* A step of the program keeps the certificate, or gives new brackets to the
\* place it goes to.
LEMMA ReleaseStep ==
    ASSUME NEW C, NEW W, CertInv(C, W), Known(C), Released(C), Forward(fn), [Next]_vars
    PROVE  /\ IInv' /\ PassOK' /\ fn' = fn /\ ~RepeatRound
           /\ \E D, X : /\ Cert(D, X)' /\ Known(D)' /\ Released(D)'
                        /\ D = C \/ ((StartBlock \/ VisitInstruction) /\ KeptBut(C, D, at'))
<1>1. IInv /\ IInv'
    BY NextInv DEF CertInv
<1>2. ~RepeatRound
    BY DEF RepeatRound, EndOfRound, Released, OneRound
<1>3. CASE StartBlock \/ VisitInstruction
    <2>1. PICK D, X : PassOK' /\ phase' = "pass" /\ Cert(D, X)' /\ KeptBut(C, D, at')
        BY <1>3, PassCert
    <2>2. Known(D)'
        BY <2>1 DEF Known
    <2>3. Released(D)'
        BY <1>1, <1>3, <2>1, StartReleased, VisitReleased
    <2>4. fn' = fn
        BY <1>3 DEF StartBlock, VisitInstruction
    <2>. QED  BY <1>1, <1>2, <1>3, <2>1, <2>2, <2>3, <2>4
<1>4. CASE EndBlock
    <2>1. PICK X : PassOK' /\ Cert(C, X)'
        BY <1>4, EndCert
    <2>2. Known(C)' /\ fn' = fn
        BY <1>4 DEF Known, EndBlock
    <2>3. Released(C)'
        BY <1>1, <1>4, EndReleased
    <2>. QED  BY <1>1, <1>2, <2>1, <2>2, <2>3
<1>5. CASE FinishPass
    <2>1. PassOK' /\ Cert(C, W)' /\ Known(C)'
        BY <1>5, RoundCert, FinishKnown
    <2>2. /\ fn' = fn /\ ReleaseVGPRInsts' = ReleaseVGPRInsts /\ phase' # "pass"
        BY <1>5 DEF FinishPass, passVars
    <2>3. Released(C)'
        BY <2>2, WaveReleased
    <2>. QED  BY <1>1, <1>2, <2>1, <2>2, <2>3
<1>6. CASE Complete \/ Issue \/ Call \/ Leave \/ Branch
    <2>1. UNCHANGED <<fn, passVars>> /\ phase # "pass" /\ phase' # "pass"
        BY <1>6 DEF Complete, Issue, Call, Leave, Branch, Ready
    <2>2. PassOK' /\ Cert(C, W)'
        BY <2>1, WaveCert
    <2>3. Known(C)'
        <3>1. CASE Leave
            BY <3>1 DEF Leave, Known
        <3>. QED  BY <1>6, <3>1, CompleteKnown, IssueStep, CallStep, BranchStep
    <2>4. fn' = fn /\ ReleaseVGPRInsts' = ReleaseVGPRInsts
        BY <2>1 DEF passVars
    <2>5. Released(C)'
        BY <2>1, <2>4, WaveReleased
    <2>. QED  BY <1>1, <1>2, <2>2, <2>3, <2>4, <2>5
<1>7. CASE UNCHANGED vars
    <2>1. /\ UNCHANGED <<fn, passVars>> /\ phase' = phase /\ at' = at /\ queue' = queue
          /\ Dirty' = Dirty /\ Incoming' = Incoming /\ Hard' = Hard
          /\ ScoreBrackets' = ScoreBrackets /\ Repeat' = Repeat
        BY <1>7 DEF vars, passVars
    <2>2. PassOK'
        BY <2>1, SameFunction DEF PassOK, CertInv
    <2>3. Cert(C, W)' /\ Released(C)'
        BY <1>7, StutterCert, StutterReleased
    <2>4. Known(C)'
        BY <2>1, SameFunction DEF Known, Excused, CounterOf
    <2>. QED  BY <1>1, <1>2, <2>1, <2>2, <2>3, <2>4
<1>. QED  BY <1>2, <1>3, <1>4, <1>5, <1>6, <1>7 DEF Next, Pass, Ended

LEMMA NextRelease ==
    ASSUME \A f \in Functions : Forward(f)
    PROVE  ReleaseInv /\ [Next]_vars => ReleaseInv'
<1>. SUFFICES ASSUME ReleaseInv, [Next]_vars PROVE ReleaseInv'
    OBVIOUS
<1>1. PICK C, W : CertInv(C, W) /\ Known(C) /\ Released(C)
    BY DEF ReleaseInv, CertInv
<1>2. fn \in Functions /\ Forward(fn)
    BY DEF ReleaseInv
<1>3. /\ IInv' /\ PassOK' /\ fn' = fn
      /\ \E D, X : Cert(D, X)' /\ Known(D)' /\ Released(D)'
    BY <1>1, <1>2, ReleaseStep
<1>. QED  BY <1>2, <1>3 DEF ReleaseInv

\* In functions without loops the VGPRs are released early only where no store
\* to scratch is in flight: the one visit of a block finds every store of the
\* paths that lead there.  With loops it need not, and the finding at line 1655
\* shows a release that a later visit does not take back.
THEOREM ReleasesAreSafe ==
    ASSUME \A f \in Functions : Forward(f) /\ EndsLast(f)
    PROVE  Spec => []ReleasedWithoutScratch
<1>1. ReleaseInv => ReleasedWithoutScratch
    <2>. SUFFICES ASSUME ReleaseInv, Ready, Inst.kind = "endpgm", at[1] \in ReleaseVGPRInsts,
                         NEW n \in 1..Len(queue), queue[n].ev = "SCRATCH_WRITE_ACCESS"
                  PROVE  FALSE
        BY DEF ReleasedWithoutScratch
    <2>1. phase = "run" /\ at[2] <= Length(at[1]) /\ WaitsMet
        BY DEF Ready
    <2>2. PICK C, W : CertInv(C, W) /\ Known(C) /\ Released(C)
        BY DEF ReleaseInv, CertInv
    <2>3. /\ at = <<at[1], at[2]>> /\ at[1] \in Blocks /\ at[2] \in Nat /\ at[2] > 0
          /\ Length(at[1]) \in Nat
        BY <2>1, <2>2, WaveFacts
    <2>4. queue[n].ev \in C[at].PendingEvents
        BY <2>1, <2>2, NowKnown DEF EventsKnown
    <2>5. PICK k \in 1..Length(at[1]) : ReleasedAt(C, at[1], k)
        BY <2>2 DEF Released
    <2>6. k = at[2]
        <3>1. EndsLast(fn)
            BY DEF ReleaseInv
        <3>2. at[1] \in 1..Len(fn.code) /\ at[2] \in 1..Len(fn.code[at[1]])
              /\ k \in 1..Len(fn.code[at[1]])
            BY <2>1, <2>3, <2>5 DEF Blocks, Length
        <3>. QED  BY <2>5, <3>1, <3>2 DEF EndsLast, ReleasedAt, Inst
    <2>7. "SCRATCH_WRITE_ACCESS" \notin C[at].PendingEvents
        BY <2>3, <2>5, <2>6 DEF ReleasedAt
    <2>. QED  BY <2>4, <2>7
<1>2. Spec => []ReleaseInv
    <2>1. ReleaseInv /\ [Next]_vars => ReleaseInv'
        BY NextRelease
    <2>. QED  BY <2>1, InitRelease, PTL DEF Spec
<1>. QED  BY <1>1, <1>2, PTL

-----------------------------------------------------------------------------
(* The scalar loads.  A store waits for the loads of its address that the     *)
(* pass remembers, and a store that post-dominates the block remembered for   *)
(* its address makes the pass forget all the loads of it.  In a function      *)
(* without loops that is right if the store post-dominates the blocks of the  *)
(* other loads, too: what comes after it is reached from none but through it. *)

Spots == {p \in Places : p[2] <= Length(p[1])}
InstAt(p) == fn.code[p[1]][p[2]]

Reads(p, x) == p \in Spots /\ InstAt(p).kind = "smem" /\ InstAt(p).ptr = x /\ x # NoPointer
Writes(p, x) == p \in Spots /\ InstAt(p).kind = "store" /\ InstAt(p).ptr = x

Before(p, q) == p[1] < q[1] \/ (p[1] = q[1] /\ p[2] < q[2])

\* Block b of f has an instruction of the kind with the address x.
Accesses(f, b, kind, x) ==
    \E k \in 1..Len(f.code[b]) : f.code[b][k].kind = kind /\ f.code[b][k].ptr = x

\* What post-dominates one load of the address it stores to post-dominates
\* the others it follows.
LoadsMeet(f) ==
    \A x \in Pointers, b, r, a \in 1..Len(f.code) :
        /\ Accesses(f, b, "store", x) /\ PostDominates(f, b, r)
        /\ Accesses(f, r, "smem", x) /\ r <= b
        /\ Accesses(f, a, "smem", x) /\ a <= b
        => PostDominates(f, b, a)

\* The pass has visited p.
Past(p) == phase = "pass" => p[1] < at[1] \/ (p[1] = at[1] /\ (at[2] = 0 \/ p[2] < at[2]))

\* No scalar load is in flight behind the wait at p.
Drained(C, p) ==
    LET T == SmemAccessCounter(ST) IN Hard[p][T] = 0 \/ PendingOn(C[p], T) = {}

\* Between p and q, one of the places Z is passed by whatever comes from p.
Cleared(Z, p, q) == \E z \in Z : Before(p, z) /\ Before(z, q) /\ PostDominates(fn, z[1], p[1])

\* A load of x at p is remembered, or one of the places Z has waited for it.
Remembered(Z, p, x) ==
    x \in DOMAIN SLoadAddresses \/ \E z \in Z : Before(p, z) /\ PostDominates(fn, z[1], p[1])

\* Z holds the places of stores that wait for scalar loads, as many as it
\* takes for the stores visited and the loads not remembered.
StoresWait(Z) ==
    /\ \A z \in Z : z \in Spots /\ Past(z)
    /\ \A q \in Spots : Past(q) /\ q \notin Z =>
          \A p, x : Reads(p, x) /\ Writes(q, x) /\ Before(p, q) => Cleared(Z, p, q)
    /\ phase = "pass" =>
          /\ \A p \in Spots : \A x : Past(p) /\ Reads(p, x) => Remembered(Z, p, x)
          /\ \A x \in DOMAIN SLoadAddresses :
                \E p \in Spots : p[1] = SLoadAddresses[x] /\ Past(p) /\ Reads(p, x)

AllDrained(C, Z) == \A z \in Z : Drained(C, z)

\* A set of numbers with an upper bound has a greatest.
LEMMA GreatestOf ==
    ASSUME NEW n \in Nat, NEW U \in SUBSET (1..n), U # {}
    PROVE  \E m \in U : \A y \in U : y <= m
<1> DEFINE Above(z) == {y \in U : y >= z}
           F == {Above(z) : z \in U}
<1>1. IsFiniteSet(1..n)
    BY FS_Interval
<1>2. IsWellFoundedOn(StrictSubsetOrdering(1..n), SUBSET (1..n))
    BY <1>1, FS_StrictSubsetOrderingWellFounded, FS_FiniteSubsetsOfFinite
<1>3. F \subseteq SUBSET (1..n) /\ F # {}
    OBVIOUS
<1>4. PICK X \in F : \A Y \in F : <<Y, X>> \notin StrictSubsetOrdering(1..n)
    <2> HIDE DEF F
    <2>. QED  BY <1>2, <1>3, WFMin
<1>5. PICK m \in U : X = Above(m)
    OBVIOUS
<1>6. ASSUME NEW y \in U, y > m PROVE FALSE
    <2>1. Above(y) \in F
        OBVIOUS
    <2>2. Above(y) \subseteq Above(m) /\ m \in Above(m) /\ m \notin Above(y)
        <3>1. y \in Int /\ m \in Int /\ \A z \in U : z \in Int
            OBVIOUS
        <3>2. \A z \in U : z >= y => z >= m
            BY <1>6, <3>1
        <3>3. m >= m /\ ~(m >= y)
            BY <1>6, <3>1
        <3>. QED  BY <3>2, <3>3
    <2>3. <<Above(y), Above(m)>> \in StrictSubsetOrdering(1..n)
        <3>1. Above(y) \in SUBSET (1..n) /\ Above(m) \in SUBSET (1..n)
            OBVIOUS
        <3> HIDE DEF Above
        <3>. QED  BY <2>2, <3>1 DEF StrictSubsetOrdering
    <2>. QED  BY <1>4, <1>5, <2>1, <2>3
<1>. QED  BY <1>6

\* Block b can be reached from a without passing c.
Reach(f, a, b, c) ==
    \A S \in SUBSET (1..Len(f.code)) :
        a \in S /\ (\A y \in S : f.succ[y] \ {c} \subseteq S) => b \in S

\* Nothing that comes later than a post-dominator is reached around it.
LEMMA NoWayRound ==
    ASSUME WellFormed(fn), Forward(fn), NEW a \in Blocks, NEW c \in Blocks, a # c,
           PostDominates(fn, c, a), NEW x \in Blocks, x > c, Reach(fn, a, x, c)
    PROVE  FALSE
<1>1. PICK S \in SUBSET (Blocks \ {c}) :
         a \in S /\ \A y \in S : fn.succ[y] # {} /\ fn.succ[y] \ {c} \subseteq S
    BY DEF PostDominates, Blocks
<1>2. x \in S
    BY <1>1 DEF Reach, Blocks
<1>3. PICK U : U = {y \in S : y > c}
    OBVIOUS
<1>4. Len(fn.code) \in Nat /\ U \in SUBSET (1..Len(fn.code)) /\ U # {}
    BY <1>2, <1>3, Code DEF Blocks
<1>5. PICK m \in U : \A y \in U : y <= m
    BY <1>4, GreatestOf
<1>6. m \in Nat /\ c \in Nat /\ m > c /\ m \in S /\ m \in Blocks
    BY <1>3, <1>4 DEF Blocks
<1>7. PICK s \in fn.succ[m] : TRUE
    BY <1>1, <1>6
<1>8. s \in Nat /\ s > m
    <2>1. s \in Blocks
        BY <1>6, <1>7, Code
    <2>. QED  BY <1>6, <1>7, <2>1 DEF Forward, Blocks
<1>9. s \in U
    BY <1>1, <1>3, <1>6, <1>7, <1>8
<1>. QED  BY <1>5, <1>6, <1>8, <1>9
\* A load in flight comes from p: from there the wave has passed none of the
\* places Z, and any later block may still have been gone around.
ComesFrom(Z, p) ==
    /\ Before(p, at)
    /\ \A c \in Blocks : c > at[1] => Reach(fn, p[1], at[1], c)
    /\ \A z \in Z : Before(p, z) /\ Before(z, at) =>
          z[1] # p[1] /\ z[1] # at[1] /\ Reach(fn, p[1], at[1], z[1])

LoadsKnown(Z) ==
    phase = "run" =>
        \A k \in 1..Len(queue) : queue[k].reads # NoPointer =>
            /\ queue[k].ev = "SMEM_ACCESS"
            /\ Excused(queue[k]) \/ \E p : Reads(p, queue[k].reads) /\ ComesFrom(Z, p)

LoadInv ==
    /\ IInv /\ PassOK /\ fn \in Functions
    /\ \E C, W, Z : /\ Cert(C, W) /\ Known(C) /\ Released(C)
                    /\ StoresWait(Z) /\ AllDrained(C, Z) /\ LoadsKnown(Z)

LEMMA SpotFacts ==
    ASSUME WellFormed(fn), NEW p \in Spots
    PROVE  /\ p \in Places /\ p = <<p[1], p[2]>> /\ p[1] \in Blocks /\ p[1] \in Nat
           /\ p[2] \in Nat /\ p[2] > 0 /\ p[2] <= Length(p[1]) /\ InstAt(p) \in Instruction
<1>1. /\ p \in Places /\ p = <<p[1], p[2]>> /\ p[1] \in Blocks
      /\ p[2] \in Nat /\ p[2] > 0 /\ p[2] <= Length(p[1])
    BY PlaceFacts DEF Spots
<1>. QED  BY <1>1, Code DEF InstAt, Blocks

\* The places of the code, and what is between them, stay what they are.
LEMMA SameSpots ==
    ASSUME fn' = fn
    PROVE  /\ Spots' = Spots
           /\ \A p, x : (Reads(p, x)' <=> Reads(p, x)) /\ (Writes(p, x)' <=> Writes(p, x))
           /\ \A p, q : Before(p, q)' <=> Before(p, q)
           /\ \A Z, p, q : Cleared(Z, p, q)' <=> Cleared(Z, p, q)
<1>1. Spots' = Spots
    BY SameFunction DEF Spots, Length
<1>. QED  BY <1>1 DEF Reads, Writes, InstAt, Before, Cleared, PostDominates

\* A step that visits nothing keeps what is known of the stores.
LEMMA StoresKept ==
    ASSUME NEW Z, StoresWait(Z), fn' = fn, SLoadAddresses' = SLoadAddresses,
           phase' = "pass" => phase = "pass", \A p \in Spots : Past(p)' <=> Past(p)
    PROVE  StoresWait(Z)'
<1>1. /\ Spots' = Spots
      /\ \A p, x : (Reads(p, x)' <=> Reads(p, x)) /\ (Writes(p, x)' <=> Writes(p, x))
      /\ \A p, q : Before(p, q)' <=> Before(p, q)
      /\ \A p, q : Cleared(Z, p, q)' <=> Cleared(Z, p, q)
    BY SameSpots
<1>2. \A z \in Z : z \in Spots' /\ Past(z)'
    BY <1>1 DEF StoresWait
<1>3. \A q \in Spots' : Past(q)' /\ q \notin Z =>
         \A p, x : Reads(p, x)' /\ Writes(q, x)' /\ Before(p, q)' => Cleared(Z, p, q)'
    BY <1>1 DEF StoresWait
<1>4. ASSUME phase' = "pass", NEW p \in Spots', NEW x, Past(p)', Reads(p, x)'
      PROVE  Remembered(Z, p, x)'
    <2>1. Remembered(Z, p, x)
        BY <1>1, <1>4 DEF StoresWait
    <2>. QED  BY <2>1, <1>1 DEF Remembered, PostDominates
<1>5. ASSUME phase' = "pass", NEW x \in DOMAIN SLoadAddresses'
      PROVE  \E p \in Spots' : p[1] = SLoadAddresses'[x] /\ Past(p)' /\ Reads(p, x)'
    <2>1. PICK p \in Spots : p[1] = SLoadAddresses[x] /\ Past(p) /\ Reads(p, x)
        BY <1>5 DEF StoresWait
    <2>. QED  BY <1>1, <2>1
<1>. QED  BY <1>2, <1>3, <1>4, <1>5 DEF StoresWait

\* Nor does a step that leaves the places of Z alone give them other waits.
LEMMA DrainedKept ==
    ASSUME NEW C, NEW D, NEW Z, AllDrained(C, Z), fn' = fn,
           \A z \in Z : D[z] = C[z] /\ Hard'[z] = Hard[z]
    PROVE  AllDrained(D, Z)'
<1>1. SmemAccessCounter(ST)' = SmemAccessCounter(ST)
    BY DEF ST
<1>. SUFFICES ASSUME NEW z \in Z PROVE Drained(D, z)'
    BY DEF AllDrained
<1>2. Drained(C, z)
    BY DEF AllDrained
<1>. QED  BY <1>1, <1>2 DEF Drained, ST

\* Between two visits the same places are behind.
LEMMA PastKept ==
    ASSUME IInv, OneRound, StartBlock \/ EndBlock \/ FinishPass, NEW p \in Spots
    PROVE  Past(p)' <=> Past(p)
<1>1. /\ p[1] \in Blocks /\ p[1] \in Nat /\ p[2] \in Nat /\ p[2] > 0 /\ p[2] <= Length(p[1])
      /\ at[1] \in Nat /\ at[2] \in Nat /\ Blocks \subseteq Nat
    BY SpotFacts, ReleaseFacts
<1>2. CASE StartBlock
    <2>1. PICK b0 \in Dirty :
             /\ b0 > at[1] /\ \A x \in Dirty : x > at[1] => b0 <= x
             /\ at' = <<b0, 1>> /\ phase = "pass" /\ phase' = "pass" /\ at[2] = 0
        BY <1>2 DEF StartBlock
    <2>2. Dirty = {b \in Blocks : b > at[1]}
        BY <2>1 DEF OneRound
    <2>3. b0 \in Nat /\ (p[1] < b0 <=> p[1] <= at[1])
        BY <1>1, <2>1, <2>2
    <2>. QED  BY <1>1, <2>1, <2>3 DEF Past
<1>3. CASE EndBlock
    <2>1. /\ phase = "pass" /\ phase' = "pass" /\ at' = <<at[1], 0>>
          /\ at[2] > Length(at[1]) /\ at[2] > 0
        BY <1>3 DEF EndBlock
    <2>2. p[1] = at[1] => p[2] < at[2]
        <3>1. Length(at[1]) \in Nat
            BY <2>1, InstOK
        <3>. QED  BY <1>1, <2>1, <3>1
    <2>. QED  BY <1>1, <2>1, <2>2 DEF Past
<1>4. CASE FinishPass
    <2>1. phase = "pass" /\ phase' = "run" /\ at[2] = 0 /\ \A b \in Dirty : b <= at[1]
        BY <1>4 DEF FinishPass, EndOfRound
    <2>2. Dirty = {b \in Blocks : b > at[1]}
        BY <2>1 DEF OneRound
    <2>3. p[1] <= at[1]
        BY <1>1, <2>1, <2>2
    <2>. QED  BY <1>1, <2>1, <2>3 DEF Past
<1>. QED  BY <1>2, <1>3, <1>4

\* The wait for a store to an address that is remembered.
LEMMA StoreDrains ==
    ASSUME NEW C, NEW W, CertInv(C, W), VisitInstruction, storesToSLoad(Inst),
           NEW D, NEW q, q = at, D[q] = C[q]
    PROVE  Drained(D, q)'
<1>1. /\ WellFormed(fn) /\ fn' = fn /\ IInv /\ Cert(C, W) /\ Visiting /\ at[2] <= Length(at[1])
      /\ Hard \in [Places -> Waitcnt] /\ at[2] > 0 /\ PassOK
    BY DEF CertInv, IInv, VariableTypes, VisitInstruction, Visiting
<1>2. at \in Places /\ Inst \in Instruction /\ Inst.kind = "store"
    BY <1>1, InstOK DEF storesToSLoad
<1>3. PICK B, T, R, w : /\ B = ScoreBrackets /\ T = SmemAccessCounter(ST)
                        /\ R = RequiredWait(B, Inst)
                        /\ w = generatedWait(B, at, simplifyWaitcnt(B, R))
    OBVIOUS
<1>4. Hard' = [Hard EXCEPT ![at] = Encoded(w)]
    BY <1>3 DEF VisitInstruction
<1>5. /\ B = C[at] /\ Sound(B, ST) /\ BracketOK(B, ST) /\ ST \in Nat
      /\ T \in InstCounterType /\ T # "STORE_CNT"
    <2>1. B = C[at] /\ Sound(B, ST)
        BY <1>1, <1>3 DEF Cert, PassOK
    <2>2. T \in InstCounterType /\ T # "STORE_CNT"
        BY <1>3 DEF SmemAccessCounter, InstCounterType
    <2>. QED  BY <1>1, <2>1, <2>2, Code DEF Sound
<1>6. R[T] = 0
    <2>1. T \in ZeroFirst(B, Inst)
        BY <1>3, <1>5 DEF ZeroFirst
    <2>. QED  BY <1>2, <1>3, <1>5, <2>1 DEF RequiredWait
<1>7. R \in Waitcnt
    BY <1>1, <1>2, <1>3, <1>5, RequiredWaitType
<1>8. ScoreRange(B, T) \in Nat /\ (PendingOn(B, T) # {} => ScoreRange(B, T) > 0)
    <2>1. getWaitCountMax(ST, T) # 0
        BY <1>5, LimitsAssumption DEF getWaitCountMax
    <2>. QED  BY <1>5, <2>1, RangeNat
<1>9. /\ w \in Waitcnt /\ w[T] \in Nat
      /\ R[T] < ScoreRange(B, T) => w[T] <= R[T]
    BY <1>1, <1>2, <1>3, <1>5, <1>7, <1>8, GeneratedKeeps
<1>10. CASE PendingOn(B, T) = {}
    BY <1>1, <1>3, <1>5, <1>10 DEF Drained, ST
<1>11. CASE PendingOn(B, T) # {}
    <2>1. w[T] = 0
        BY <1>6, <1>8, <1>9, <1>11
    <2>2. Encoded(w)[T] = 0
        BY <1>5, <1>9, <2>1, EncodedLeast
    <2>3. Hard'[q][T] = 0
        BY <1>1, <1>2, <1>4, <2>2
    <2>. QED  BY <1>1, <1>3, <2>3 DEF Drained, ST
<1>. QED  BY <1>10, <1>11

\* An instruction is visited.
LEMMA VisitStores ==
    ASSUME NEW C, NEW W, NEW D, NEW Z, CertInv(C, W), LoadsMeet(fn), VisitInstruction,
           KeptBut(C, D, at'), StoresWait(Z), AllDrained(C, Z)
    PROVE  \E Y : StoresWait(Y)' /\ AllDrained(D, Y)'
<1>1. PICK q : q = at
    OBVIOUS
<1>2. /\ WellFormed(fn) /\ fn' = fn /\ IInv /\ phase = "pass" /\ phase' = "pass"
      /\ at[2] <= Length(at[1]) /\ at[2] > 0 /\ at' = <<at[1], at[2] + 1>>
      /\ SLoadAddresses' = sLoadAddressesAfter(Inst)
      /\ DOMAIN SLoadAddresses \subseteq Pointers
    BY DEF CertInv, IInv, VariableTypes, VisitInstruction
<1>3. /\ q \in Places /\ q \in Spots /\ Inst = InstAt(q) /\ q = <<q[1], q[2]>> /\ Inst \in Instruction
      /\ q[1] \in Blocks /\ q[1] \in Nat /\ q[2] \in Nat /\ at[2] \in Nat /\ at' # q
    <2>1. at \in Places /\ at[1] \in Blocks /\ at[2] \in Nat /\ at = <<at[1], at[2]>>
          /\ Inst \in Instruction
        BY <1>2, InstOK
    <2>2. q \in Spots /\ at' # q
        BY <1>1, <1>2, <2>1 DEF Spots
    <2>. QED  BY <1>1, <1>2, <2>1, <2>2, SpotFacts DEF Inst, InstAt
<1>4. ASSUME NEW p \in Spots
      PROVE  (Past(p)' <=> Past(p) \/ p = q) /\ (Past(p) <=> Before(p, q)) /\ ~Before(q, q)
    <2>1. p = <<p[1], p[2]>> /\ p[1] \in Nat /\ p[2] \in Nat
        BY <1>2, SpotFacts
    <2>. QED  BY <1>1, <1>2, <1>3, <2>1 DEF Past, Before
<1>5. PICK Y : Y = Z \cup {z \in {q} : storesToSLoad(Inst)}
    OBVIOUS
<1>6. /\ Spots' = Spots
      /\ \A p, x : (Reads(p, x)' <=> Reads(p, x)) /\ (Writes(p, x)' <=> Writes(p, x))
      /\ \A p, r : Before(p, r)' <=> Before(p, r)
      /\ \A p, r : Cleared(Y, p, r)' <=> Cleared(Y, p, r)
    BY <1>2, SameSpots
<1>7. \A z \in Y : z \in Spots' /\ Past(z)'
    BY <1>3, <1>4, <1>5, <1>6 DEF StoresWait
<1>8. ASSUME NEW r \in Spots, Past(r)', r \notin Y, NEW p, NEW x,
             Reads(p, x), Writes(r, x), Before(p, r)
      PROVE  Cleared(Y, p, r)
    <2>1. CASE Past(r)
        <3>1. Cleared(Z, p, r)
            BY <1>5, <1>8, <2>1 DEF StoresWait
        <3>. QED  BY <1>5, <3>1 DEF Cleared
    <2>2. CASE ~Past(r)
        <3>1. r = q /\ ~storesToSLoad(Inst)
            BY <1>4, <1>5, <1>8, <2>2
        <3>2. x \notin DOMAIN SLoadAddresses
            BY <1>3, <1>8, <3>1 DEF storesToSLoad, Writes
        <3>3. Past(p) /\ p \in Spots
            BY <1>4, <1>8, <3>1 DEF Reads
        <3>4. Remembered(Z, p, x)
            BY <1>2, <1>8, <3>3 DEF StoresWait
        <3>5. PICK z \in Z : Before(p, z) /\ PostDominates(fn, z[1], p[1])
            BY <3>2, <3>4 DEF Remembered
        <3>6. Before(z, r)
            BY <1>4, <3>1 DEF StoresWait
        <3>. QED  BY <1>5, <3>5, <3>6 DEF Cleared
    <2>. QED  BY <2>1, <2>2
<1>9. \A x : Reads(q, x) => x \in DOMAIN SLoadAddresses' /\ SLoadAddresses'[x] =
                 IF x \in DOMAIN SLoadAddresses THEN SLoadAddresses[x] ELSE q[1]
    BY <1>1, <1>2, <1>3 DEF Reads, sLoadAddressesAfter, storesToSLoad
<1>10. ASSUME NEW p \in Spots, NEW x, Past(p)', Reads(p, x)
       PROVE  Remembered(Y, p, x)'
    <2>1. CASE p = q
        BY <1>9, <1>10, <2>1 DEF Remembered
    <2>2. CASE p # q /\ x \notin DOMAIN SLoadAddresses'
        <3>1. Past(p) /\ Remembered(Z, p, x)
            BY <1>2, <1>4, <1>10, <2>2 DEF StoresWait
        <3>2. CASE x \in DOMAIN SLoadAddresses
            <4>1. /\ storesToSLoad(Inst) /\ x = Inst.ptr
                  /\ PostDominates(fn, q[1], SLoadAddresses[x])
                BY <1>1, <1>2, <2>2, <3>2 DEF sLoadAddressesAfter
            <4>2. PICK r \in Spots : r[1] = SLoadAddresses[x] /\ Past(r) /\ Reads(r, x)
                BY <1>2, <3>2 DEF StoresWait
            <4>3. /\ q[1] \in 1..Len(fn.code) /\ r[1] \in 1..Len(fn.code) /\ p[1] \in 1..Len(fn.code)
                  /\ q[2] \in 1..Len(fn.code[q[1]]) /\ r[2] \in 1..Len(fn.code[r[1]])
                  /\ p[2] \in 1..Len(fn.code[p[1]])
                <5>1. \A s \in Spots : s[1] \in 1..Len(fn.code) /\ s[2] \in 1..Len(fn.code[s[1]])
                    <6>. SUFFICES ASSUME NEW s \in Spots
                                  PROVE  s[1] \in 1..Len(fn.code) /\ s[2] \in 1..Len(fn.code[s[1]])
                        OBVIOUS
                    <6>1. /\ s[1] \in Blocks /\ s[2] \in Nat /\ s[2] > 0
                          /\ s[2] <= Len(fn.code[s[1]]) /\ Len(fn.code[s[1]]) \in Nat
                        BY <1>2, SpotFacts, Code DEF Length
                    <6>. QED  BY <6>1 DEF Blocks
                <5>. QED  BY <1>3, <5>1
            <4>4. /\ Accesses(fn, q[1], "store", x) /\ Accesses(fn, r[1], "smem", x)
                  /\ Accesses(fn, p[1], "smem", x)
                BY <1>3, <1>10, <4>1, <4>2, <4>3 DEF Accesses, Reads, InstAt, storesToSLoad
            <4>5. r[1] <= q[1] /\ p[1] <= q[1]
                BY <1>4, <3>1, <4>2, <4>3 DEF Before
            <4>6. PostDominates(fn, q[1], p[1])
                BY <1>2, <3>2, <4>1, <4>2, <4>3, <4>4, <4>5 DEF LoadsMeet
            <4>7. q \in Y /\ Before(p, q)
                BY <1>4, <1>5, <3>1, <4>1
            <4>. QED  BY <1>2, <1>6, <4>6, <4>7 DEF Remembered, PostDominates
        <3>3. CASE x \notin DOMAIN SLoadAddresses
            BY <1>2, <1>5, <1>6, <3>1, <3>3 DEF Remembered, PostDominates
        <3>. QED  BY <3>2, <3>3
    <2>3. CASE x \in DOMAIN SLoadAddresses'
        BY <2>3 DEF Remembered
    <2>. QED  BY <2>1, <2>2, <2>3
<1>11. ASSUME NEW x \in DOMAIN SLoadAddresses'
       PROVE  \E p \in Spots : p[1] = SLoadAddresses'[x] /\ Past(p)' /\ Reads(p, x)
    <2>1. CASE x \in DOMAIN SLoadAddresses
        <3>1. PICK p \in Spots : p[1] = SLoadAddresses[x] /\ Past(p) /\ Reads(p, x)
            BY <1>2, <2>1 DEF StoresWait
        <3>2. SLoadAddresses'[x] = SLoadAddresses[x]
            BY <1>2, <2>1 DEF sLoadAddressesAfter
        <3>. QED  BY <1>4, <3>1, <3>2
    <2>2. CASE x \notin DOMAIN SLoadAddresses
        <3>1. Reads(q, x)
            BY <1>2, <1>3, <2>2 DEF Reads, sLoadAddressesAfter
        <3>. QED  BY <1>3, <1>4, <1>9, <2>2, <3>1
    <2>. QED  BY <2>1, <2>2
<1>12. StoresWait(Y)'
    BY <1>6, <1>7, <1>8, <1>10, <1>11 DEF StoresWait
<1>13. ASSUME NEW z \in Y PROVE Drained(D, z)'
    <2>1. D[z] = C[z]
        <3>1. z \in Places /\ (z = q \/ Before(z, q)) /\ z = <<z[1], z[2]>> /\ z[2] \in Nat
            BY <1>2, <1>4, <1>5, <1>3, SpotFacts DEF StoresWait
        <3>2. z # at'
            BY <1>1, <1>2, <1>3, <3>1 DEF Before
        <3>. QED  BY <3>1, <3>2 DEF KeptBut
    <2>2. CASE z = q /\ storesToSLoad(Inst)
        BY <1>1, <2>1, <2>2, StoreDrains
    <2>3. CASE z \in Z
        <3>1. z # q /\ z \in Places
            BY <1>2, <1>4, <2>3, SpotFacts DEF StoresWait
        <3>2. Hard'[z] = Hard[z]
            BY <1>1, <1>2, <3>1 DEF VisitInstruction, IInv, VariableTypes
        <3>3. Drained(C, z)
            BY <2>3 DEF AllDrained
        <3>. QED  BY <1>2, <2>1, <3>2, <3>3 DEF Drained, ST
    <2>. QED  BY <1>5, <2>2, <2>3
<1>. QED  BY <1>12, <1>13 DEF AllDrained

-----------------------------------------------------------------------------
\* The operations that read memory are scalar loads.
LEMMA OpsRead ==
    ASSUME WellFormed(fn), NEW I \in Instruction, Sensible(I), NEW k \in 1..Len(Ops(I)),
           Ops(I)[k].reads # NoPointer
    PROVE  /\ I.kind = "smem" /\ Ops(I)[k].ev = "SMEM_ACCESS" /\ Ops(I)[k].reads = I.ptr
           /\ CounterOf(Ops(I)[k]) = SmemAccessCounter(ST)
<1>1. \A ev : Op(ev, I).reads = NoPointer
    BY DEF Op
<1>2. VmemOp(I).reads = NoPointer /\ LdsOp(I).reads = NoPointer
      /\ \A ev, locks : ExpOp(ev, I, locks).reads = NoPointer
    BY DEF VmemOp, LdsOp, ExpOp, Op
<1>3. CASE isVMEMOrFLAT(I)
    <2>1. PICK a, b, c :
             /\ a = IF mayAccessVMEMThroughFlat(I) THEN <<VmemOp(I)>> ELSE <<>>
             /\ b = IF mayAccessLDSThroughFlat(I) THEN <<LdsOp(I)>> ELSE <<>>
             /\ c = IF vmemWriteNeedsExpWaitcnt(ST) /\ I.seg = "buffer" /\ I.data # {}
                    THEN <<ExpOp("VMW_GPR_LOCK", I, I.data)>> ELSE <<>>
             /\ Ops(I) = a \o b \o c
        BY <1>3 DEF Ops, isVMEMOrFLAT
    <2>2. \A x \in {a, b, c} : x = <<>> \/ \E op : x = <<op>> /\ op.reads = NoPointer
        BY <1>2, <2>1
    <2>3. Ops(I)[k].reads = NoPointer
        BY <2>1, <2>2
    <2>. QED  BY <2>3
<1>4. CASE I.kind = "smem"
    <2>1. PICK op : op = [Op("SMEM_ACCESS", I) EXCEPT !.writes = I.defs, !.reads = I.ptr]
        OBVIOUS
    <2>2. op.ev = "SMEM_ACCESS" /\ op.reads = I.ptr
        BY <2>1 DEF Op
    <2>3. Ops(I)[k] = op
        <3>1. Ops(I) = <<op>>
            BY <1>4, <2>1 DEF Ops, isVMEMOrFLAT
        <3>. QED  BY <3>1
    <2>. QED  BY <1>4, <2>2, <2>3, Counters DEF CounterOf
<1>5. CASE I.kind \in {"alu", "call", "return", "endpgm"}
    <2>1. Ops(I) = <<>>
        BY <1>5 DEF Ops, isVMEMOrFLAT
    <2>. QED  BY <2>1
<1>6. CASE I.kind \in {"ds", "message", "export", "ldsdir"}
    <2>1. \E op : Ops(I) = <<op>> /\ op.reads = NoPointer
        BY <1>2, <1>6 DEF Ops, isVMEMOrFLAT, Op
    <2>. QED  BY <2>1
<1>7. CASE I.kind = "gds"
    <2>1. \E op, other : Ops(I) = <<op, other>> /\ op.reads = NoPointer /\ other.reads = NoPointer
        BY <1>2, <1>7 DEF Ops, isVMEMOrFLAT, Op
    <2>. QED  BY <2>1
<1>. QED  BY <1>3, <1>4, <1>5, <1>6, <1>7 DEF Instruction, isVMEMOrFLAT

\* Where the wait is for scalar loads, none is in flight once it is met.
LEMMA NothingRead ==
    ASSUME NEW C, NEW W, NEW Z, CertInv(C, W), Known(C), AllDrained(C, Z), LoadsKnown(Z),
           phase = "run", WaitsMet, at \in Z
    PROVE  \A k \in 1..Len(queue) : queue[k].reads = NoPointer
<1>. SUFFICES ASSUME NEW k \in 1..Len(queue), queue[k].reads # NoPointer PROVE FALSE
    OBVIOUS
<1> DEFINE T == SmemAccessCounter(ST)
<1>1. /\ queue \in Seq(Operation) /\ EventsKnown(C[at], queue) /\ queue[k].ev = "SMEM_ACCESS"
      /\ Sound(C[at], ST)
    BY NowKnown, WaveFacts DEF LoadsKnown
<1>2. CounterOf(queue[k]) = T /\ T \in InstCounterType
    BY <1>1, Counters DEF CounterOf, SmemAccessCounter, InstCounterType
<1>3. Outstanding(T, queue) \in Nat /\ Outstanding(T, queue) # 0
    BY <1>1, <1>2, Counted
<1>4. Drained(C, at)
    BY DEF AllDrained
<1>5. Hard[at][T] # 0
    BY <1>2, <1>3 DEF WaitsMet
<1>6. queue[k].ev \in PendingOn(C[at], T)
    <2>1. queue[k].ev \in C[at].PendingEvents /\ C[at].ST = ST
        BY <1>1 DEF EventsKnown, Sound, BracketOK
    <2>2. queue[k].ev \in WaitEventMask(ST)[T]
        BY <1>1, <1>2, WaveFacts, EventOfCounter
    <2>. QED  BY <2>1, <2>2 DEF PendingOn
<1>. QED  BY <1>4, <1>5, <1>6 DEF Drained

LEMMA ConcatParts ==
    ASSUME NEW S, NEW a \in Seq(S), NEW b \in Seq(S), NEW k \in 1..Len(a \o b)
    PROVE  \/ \E i \in 1..Len(a) : (a \o b)[k] = a[i]
           \/ \E i \in 1..Len(b) : (a \o b)[k] = b[i]
<1>1. Len(a \o b) = Len(a) + Len(b) /\ Len(a) \in Nat /\ Len(b) \in Nat
    BY ConcatProperties
<1>2. (a \o b)[k] = IF k <= Len(a) THEN a[k] ELSE b[k - Len(a)]
    BY <1>1, ConcatProperties
<1>3. CASE k <= Len(a)
    BY <1>1, <1>2, <1>3
<1>4. CASE k > Len(a)
    <2>1. k - Len(a) \in 1..Len(b)
        BY <1>1, <1>4
    <2>. QED  BY <1>1, <1>2, <1>4, <2>1
<1>. QED  BY <1>1, <1>3, <1>4

LEMMA FinishLoads ==
    ASSUME NEW C, NEW W, NEW Z, CertInv(C, W), FinishPass
    PROVE  LoadsKnown(Z)'
<1>1. /\ WellFormed(fn) /\ fn' = fn /\ at' = <<1, 1>> /\ phase' = "run"
      /\ queue' \in IF fn.isEntryFunction THEN {<<>>} ELSE PendingOps
    BY DEF CertInv, IInv, VariableTypes, FinishPass
<1>2. CASE fn.isEntryFunction
    BY <1>1, <1>2 DEF LoadsKnown
<1>3. CASE ~fn.isEntryFunction
    <2>1. PICK I \in LeftPending, J \in LeftPending : queue' = Ops(I) \o Ops(J)
        BY <1>1, <1>3 DEF PendingOps
    <2>2. /\ Ops(I) \in Seq(Operation) /\ Ops(J) \in Seq(Operation)
          /\ I \in Instruction /\ Sensible(I) /\ J \in Instruction /\ Sensible(J)
        BY <1>1, LeftPendingAssumption, OpsFit
    <2>3. ASSUME NEW k \in 1..Len(queue'), queue'[k].reads # NoPointer
          PROVE  queue'[k].ev = "SMEM_ACCESS" /\ Excused(queue[k])'
        <3>1. \/ \E i \in 1..Len(Ops(I)) : queue'[k] = Ops(I)[i]
              \/ \E i \in 1..Len(Ops(J)) : queue'[k] = Ops(J)[i]
            BY <2>1, <2>2, ConcatParts
        <3>2. /\ queue'[k].ev = "SMEM_ACCESS"
              /\ CounterOf(queue'[k]) = SmemAccessCounter(ST)
            BY <1>1, <2>2, <2>3, <3>1, OpsRead
        <3>3. CounterOf(queue[k])' # "STORE_CNT"
            BY <1>1, <3>2, SameFunction DEF CounterOf, SmemAccessCounter
        <3>. QED  BY <1>1, <1>3, <3>2, <3>3 DEF Excused
    <2>. QED  BY <2>3 DEF LoadsKnown
<1>. QED  BY <1>2, <1>3

LEMMA CompleteLoads ==
    ASSUME NEW C, NEW Z, Known(C), LoadsKnown(Z), Complete
    PROVE  LoadsKnown(Z)'
<1>1. phase = "run" /\ at' = at /\ fn' = fn /\ queue \in Seq(Operation)
    BY DEF Complete, Known
<1>2. PICK m \in 1..Len(queue) : queue' = RemoveAt(queue, m)
    BY DEF Complete
<1>3. /\ Len(queue') = Len(queue) - 1 /\ Len(queue) \in Nat
      /\ \A i \in 1..Len(queue) - 1 : queue'[i] = IF i < m THEN queue[i] ELSE queue[i + 1]
    BY <1>1, <1>2, Removed
<1>4. ASSUME NEW i \in 1..Len(queue'), queue'[i].reads # NoPointer
      PROVE  /\ queue'[i].ev = "SMEM_ACCESS"
             /\ Excused(queue[i])' \/ \E p : Reads(p, queue[i].reads)' /\ ComesFrom(Z, p)'
    <2>1. PICK j \in 1..Len(queue) : queue'[i] = queue[j]
        <3>1. i \in 1..Len(queue) /\ i + 1 \in 1..Len(queue)
            BY <1>3
        <3>. QED  BY <1>3, <3>1
    <2>2. /\ queue[j].ev = "SMEM_ACCESS"
          /\ Excused(queue[j]) \/ \E p : Reads(p, queue[j].reads) /\ ComesFrom(Z, p)
        BY <1>1, <1>4, <2>1 DEF LoadsKnown
    <2>3. CASE Excused(queue[j])
        BY <1>1, <2>1, <2>2, <2>3, SameFunction DEF Excused, CounterOf
    <2>4. CASE \E p : Reads(p, queue[j].reads) /\ ComesFrom(Z, p)
        <3>1. PICK p : Reads(p, queue[j].reads) /\ ComesFrom(Z, p)
            BY <2>4
        <3>2. Reads(p, queue[i].reads)'
            BY <1>1, <2>1, <3>1, SameFunction DEF Reads, Spots, Length, InstAt
        <3>3. ComesFrom(Z, p)'
            BY <1>1, <3>1, SameFunction DEF ComesFrom, Before, Reach
        <3>. QED  BY <2>1, <2>2, <3>2, <3>3
    <2>. QED  BY <2>2, <2>3, <2>4
<1>. QED  BY <1>4 DEF LoadsKnown

\* A wait is met, and the wave goes on from the place.
LEMMA LoadsHere ==
    ASSUME NEW C, NEW W, NEW Z, CertInv(C, W), Known(C), AllDrained(C, Z), LoadsKnown(Z),
           phase = "run", WaitsMet, NEW k \in 1..Len(queue), queue[k].reads # NoPointer
    PROVE  /\ queue[k].ev = "SMEM_ACCESS" /\ at \notin Z
           /\ \E p : Reads(p, queue[k].reads) /\ ComesFrom(Z, p)
<1>1. at \notin Z
    BY NothingRead
<1>2. ~Excused(queue[k])
    BY NowKnown
<1>. QED  BY <1>1, <1>2 DEF LoadsKnown

LEMMA IssueLoads ==
    ASSUME NEW C, NEW W, NEW Z, CertInv(C, W), Known(C), StoresWait(Z), AllDrained(C, Z),
           LoadsKnown(Z), Issue
    PROVE  LoadsKnown(Z)'
<1>1. /\ phase = "run" /\ phase' = "run" /\ at[2] <= Length(at[1]) /\ WaitsMet
      /\ queue' = queue \o Ops(Inst) /\ at' = <<at[1], at[2] + 1>> /\ fn' = fn
    BY DEF Issue, Ready
<1>2. /\ WellFormed(fn) /\ at = <<at[1], at[2]>> /\ at \in Places /\ at[1] \in Blocks
      /\ at[1] \in Nat /\ at[2] \in Nat /\ Inst \in Instruction /\ Sensible(Inst)
    BY <1>1, WaveFacts DEF Blocks
<1>3. PICK q : q = at
    OBVIOUS
<1>4. q \in Spots /\ Inst = InstAt(q) /\ q[1] \in Nat /\ q[2] \in Nat
    BY <1>1, <1>2, <1>3 DEF Spots, Inst, InstAt
<1>5. queue \in Seq(Operation) /\ Ops(Inst) \in Seq(Operation)
    BY <1>1, <1>2, OpsFit DEF Known
<1>6. \A z \in Z : z \in Spots /\ z = <<z[1], z[2]>> /\ z[1] \in Nat /\ z[2] \in Nat
    BY <1>2, SpotFacts DEF StoresWait
<1>7. ASSUME NEW p, ComesFrom(Z, p), p \in Spots, at \notin Z PROVE ComesFrom(Z, p)'
    <2>1. p[1] \in Nat /\ p[2] \in Nat
        BY <1>2, <1>7, SpotFacts
    <2>2. Before(p, at)'
        BY <1>1, <1>2, <1>7, <2>1 DEF ComesFrom, Before
    <2>3. ASSUME NEW z \in Z, Before(z, at') PROVE Before(z, at)
        <3>1. /\ z = <<z[1], z[2]>> /\ z[1] \in Nat /\ z[2] \in Nat /\ z # at
              /\ z[1] < at[1] \/ (z[1] = at[1] /\ z[2] < at[2] + 1)
            BY <1>1, <1>6, <1>7, <2>3 DEF Before
        <3>2. ~(z[1] = at[1] /\ z[2] = at[2])
            BY <1>2, <3>1
        <3>. QED  BY <1>2, <3>1, <3>2 DEF Before
    <2>. QED  BY <1>1, <1>7, <2>2, <2>3, SameFunction DEF ComesFrom, Before, Reach
<1>8. ComesFrom(Z, q)'
    <2>1. Before(q, at')
        BY <1>1, <1>3, <1>4 DEF Before
    <2>2. \A z \in Z : ~(Before(q, z) /\ Before(z, at'))
        BY <1>1, <1>3, <1>4, <1>6 DEF Before
    <2>3. \A c : Reach(fn, q[1], at[1], c)
        BY <1>3 DEF Reach
    <2>. QED  BY <1>1, <2>1, <2>2, <2>3 DEF ComesFrom, Before, Reach
<1>9. ASSUME NEW k \in 1..Len(queue'), queue'[k].reads # NoPointer
      PROVE  /\ queue'[k].ev = "SMEM_ACCESS"
             /\ \E p : Reads(p, queue[k].reads)' /\ ComesFrom(Z, p)'
    <2>1. \/ \E i \in 1..Len(queue) : queue'[k] = queue[i]
          \/ \E i \in 1..Len(Ops(Inst)) : queue'[k] = Ops(Inst)[i]
        <3>1. PICK q1, q2 : q1 = queue /\ q2 = Ops(Inst)
            OBVIOUS
        <3>2. /\ q1 \in Seq(Operation) /\ q2 \in Seq(Operation)
              /\ queue' = q1 \o q2 /\ k \in 1..Len(q1 \o q2)
            BY <1>1, <1>5, <3>1
        <3>3. \A j \in 1..Len(q1 \o q2) :
                  \/ \E i \in 1..Len(q1) : (q1 \o q2)[j] = q1[i]
                  \/ \E i \in 1..Len(q2) : (q1 \o q2)[j] = q2[i]
            BY ONLY <3>2, ConcatParts
        <3>. QED  BY <3>1, <3>2, <3>3
    <2>2. CASE \E i \in 1..Len(queue) : queue'[k] = queue[i]
        <3>1. PICK i \in 1..Len(queue) : queue'[k] = queue[i]
            BY <2>2
        <3>2. PICK p : Reads(p, queue[i].reads) /\ ComesFrom(Z, p)
            BY <1>1, <1>9, <3>1, LoadsHere
        <3>3. queue[i].ev = "SMEM_ACCESS" /\ at \notin Z
            BY <1>1, <1>9, <3>1, LoadsHere
        <3>4. ComesFrom(Z, p)'
            BY <1>7, <3>2, <3>3 DEF Reads
        <3>5. Reads(p, queue[k].reads)'
            BY <1>1, <3>1, <3>2, SameFunction DEF Reads, Spots, Length, InstAt
        <3>. QED  BY <3>1, <3>3, <3>4, <3>5
    <2>3. CASE \E i \in 1..Len(Ops(Inst)) : queue'[k] = Ops(Inst)[i]
        <3>1. /\ queue'[k].ev = "SMEM_ACCESS" /\ Inst.kind = "smem"
              /\ queue'[k].reads = Inst.ptr
            BY <1>2, <1>9, <2>3, OpsRead
        <3>2. Reads(q, queue'[k].reads)
            BY <1>4, <1>9, <3>1 DEF Reads
        <3>3. Reads(q, queue[k].reads)'
            BY <1>1, <3>2, SameFunction DEF Reads, Spots, Length, InstAt
        <3>. QED  BY <1>8, <3>1, <3>3
    <2>. QED  BY <2>1, <2>2, <2>3
<1>. QED  BY <1>9 DEF LoadsKnown

\* A call leaves no loads in flight.
LEMMA CallLoads ==
    ASSUME NEW C, NEW W, NEW Z, CertInv(C, W), Call
    PROVE  LoadsKnown(Z)'
<1>1. phase = "run" /\ queue' \in PendingStores /\ fn' = fn /\ WellFormed(fn)
    BY DEF Call, Ready, CertInv, IInv, VariableTypes
<1>2. ASSUME NEW k \in 1..Len(queue'), queue'[k].reads # NoPointer PROVE FALSE
    <2>1. PICK I \in LeftPending :
             /\ queue' = Ops(I)
             /\ \A j \in 1..Len(queue') : CounterOf(queue'[j]) = "STORE_CNT"
        BY <1>1, <1>2 DEF PendingStores
    <2>2. CounterOf(queue'[k]) = SmemAccessCounter(ST)
        BY <1>1, <1>2, <2>1, LeftPendingAssumption, OpsRead
    <2>. QED  BY <2>1, <2>2 DEF SmemAccessCounter
<1>. QED  BY <1>2 DEF LoadsKnown

\* A branch goes forward, and what it skips has been gone around.
LEMMA BranchLoads ==
    ASSUME NEW C, NEW W, NEW Z, CertInv(C, W), Forward(fn), Known(C), StoresWait(Z),
           AllDrained(C, Z), LoadsKnown(Z), Branch
    PROVE  LoadsKnown(Z)'
<1>1. /\ phase = "run" /\ at[2] > Length(at[1]) /\ WaitsMet /\ queue' = queue /\ fn' = fn
    BY DEF Branch
<1>2. PICK s \in fn.succ[at[1]] : at' = <<s, 1>>
    BY DEF Branch
<1>3. PICK x : x = at[1]
    OBVIOUS
<1>4. /\ WellFormed(fn) /\ x \in Blocks /\ x \in Nat /\ at[2] \in Nat /\ at = <<x, at[2]>>
      /\ s \in Blocks /\ s \in Nat /\ s > x /\ Length(x) \in Nat
    <2>1. /\ WellFormed(fn) /\ x \in Blocks /\ at[2] \in Nat /\ at = <<x, at[2]>>
        BY <1>1, <1>3, WaveFacts
    <2>2. s \in Blocks /\ Length(x) \in Nat
        BY <1>2, <1>3, <2>1, Code
    <2>3. s > x
        BY <1>2, <1>3, <2>1 DEF Forward, Blocks
    <2>. QED  BY <2>1, <2>2, <2>3 DEF Blocks
<1>5. ASSUME NEW a, NEW c, Reach(fn, a, x, c), s # c PROVE Reach(fn, a, s, c)
    BY <1>2, <1>3, <1>4, <1>5 DEF Reach, Blocks
<1>6. ASSUME NEW p, ComesFrom(Z, p), p \in Spots PROVE ComesFrom(Z, p)'
    <2>1. /\ p[1] \in Nat /\ p[2] \in Nat /\ p[1] <= x
        BY <1>3, <1>4, <1>6, SpotFacts DEF ComesFrom, Before
    <2>2. Before(p, at)'
        BY <1>2, <1>4, <2>1 DEF Before
    <2>3. ASSUME NEW c \in Blocks, c > s PROVE Reach(fn, p[1], s, c)
        <3>1. c \in Nat /\ c > x /\ c # s
            BY <1>4, <2>3 DEF Blocks
        <3>2. Reach(fn, p[1], x, c)
            BY <1>3, <1>6, <3>1 DEF ComesFrom
        <3>. QED  BY <1>5, <3>1, <3>2
    <2>4. ASSUME NEW z \in Z, Before(p, z), Before(z, at')
          PROVE  z[1] # p[1] /\ z[1] # s /\ Reach(fn, p[1], s, z[1])
        <3>1. /\ z[1] \in Blocks /\ z[1] \in Nat /\ z[2] \in Nat /\ z[2] > 0
              /\ z[2] <= Length(z[1])
            BY <1>4, SpotFacts DEF StoresWait
        <3>2. z[1] < s
            BY <1>2, <1>4, <2>4, <3>1 DEF Before
        <3>3. CASE z[1] <= x
            <4>1. Before(z, at)
                BY <1>1, <1>3, <1>4, <3>1, <3>3 DEF Before
            <4>2. z[1] # p[1] /\ Reach(fn, p[1], x, z[1])
                BY <1>3, <1>6, <2>4, <4>1 DEF ComesFrom
            <4>. QED  BY <1>4, <1>5, <3>1, <3>2, <4>2
        <3>4. CASE z[1] > x
            <4>1. Reach(fn, p[1], x, z[1]) /\ z[1] # p[1]
                BY <1>3, <1>4, <1>6, <2>1, <3>1, <3>4 DEF ComesFrom
            <4>. QED  BY <1>4, <1>5, <3>1, <3>2, <4>1
        <3>. QED  BY <1>4, <3>1, <3>3, <3>4
    <2>. QED  BY <1>1, <1>2, <2>2, <2>3, <2>4, SameFunction DEF ComesFrom, Before, Reach
<1>7. ASSUME NEW k \in 1..Len(queue'), queue'[k].reads # NoPointer
      PROVE  /\ queue'[k].ev = "SMEM_ACCESS"
             /\ \E p : Reads(p, queue[k].reads)' /\ ComesFrom(Z, p)'
    <2>1. k \in 1..Len(queue) /\ queue'[k] = queue[k] /\ queue[k].ev = "SMEM_ACCESS"
        BY <1>1, <1>7, LoadsHere
    <2>2. PICK p : Reads(p, queue[k].reads) /\ ComesFrom(Z, p)
        BY <1>1, <1>7, <2>1, LoadsHere
    <2>3. Reads(p, queue[k].reads)'
        BY <1>1, <2>1, <2>2, SameFunction DEF Reads, Spots, Length, InstAt
    <2>4. ComesFrom(Z, p)'
        BY <1>6, <2>2 DEF Reads
    <2>. QED  BY <2>1, <2>3, <2>4
<1>. QED  BY <1>7 DEF LoadsKnown

-----------------------------------------------------------------------------
LEMMA InitLoads == Init => LoadInv
<1>. SUFFICES ASSUME Init PROVE LoadInv
    OBVIOUS
<1>1. PICK C, W : Cert(C, W) /\ Known(C) /\ Released(C)
    BY InitRelease DEF ReleaseInv
<1>2. IInv /\ PassOK /\ fn \in Functions /\ WellFormed(fn)
    BY InitRelease DEF ReleaseInv, IInv, VariableTypes
<1>3. ASSUME NEW p \in Spots PROVE ~Past(p)
    <2>1. p[1] \in Nat /\ p[1] \in Blocks
        BY <1>2, SpotFacts
    <2>. QED  BY <2>1 DEF Past, Init, Blocks
<1>4. StoresWait({})
    BY <1>3 DEF StoresWait, Init
<1>5. AllDrained(C, {}) /\ LoadsKnown({})
    BY DEF AllDrained, LoadsKnown, Init
<1>. QED  BY <1>1, <1>2, <1>4, <1>5 DEF LoadInv

\* A step of the pass.
LEMMA PassLoads ==
    ASSUME NEW C, NEW W, NEW D, NEW Z, CertInv(C, W), OneRound, LoadsMeet(fn),
           StoresWait(Z), AllDrained(C, Z),
           \/ (StartBlock \/ VisitInstruction) /\ KeptBut(C, D, at')
           \/ (EndBlock \/ FinishPass) /\ D = C
    PROVE  \E Y : StoresWait(Y)' /\ AllDrained(D, Y)' /\ LoadsKnown(Y)'
<1>1. /\ IInv /\ WellFormed(fn) /\ Hard \in [Places -> Waitcnt] /\ phase = "pass"
      /\ fn' = fn
    BY DEF CertInv, IInv, VariableTypes, StartBlock, VisitInstruction, EndBlock, FinishPass, EndOfRound
<1>2. CASE VisitInstruction /\ KeptBut(C, D, at')
    <2>1. \A Y : LoadsKnown(Y)'
        BY <1>2 DEF LoadsKnown, VisitInstruction
    <2>. QED  BY <1>2, <2>1, VisitStores
<1>3. CASE (StartBlock /\ KeptBut(C, D, at')) \/ ((EndBlock \/ FinishPass) /\ D = C)
    <2>1. StoresWait(Z)'
        <3>1. SLoadAddresses' = SLoadAddresses
            BY <1>3 DEF StartBlock, EndBlock, FinishPass, passVars
        <3>2. \A p \in Spots : Past(p)' <=> Past(p)
            BY <1>1, <1>3, PastKept
        <3>. QED  BY <1>1, <3>1, <3>2, StoresKept
    <2>2. ASSUME NEW z \in Z PROVE D[z] = C[z] /\ Hard'[z] = Hard[z]
        <3>1. /\ z \in Places /\ Past(z) /\ z[1] \in Nat /\ z[2] \in Nat /\ z[2] <= Length(z[1])
              /\ at[1] \in Nat
            BY <1>1, SpotFacts, ReleaseFacts DEF StoresWait
        <3>2. CASE StartBlock /\ KeptBut(C, D, at')
            <4>1. PICK b \in Dirty : b > at[1] /\ at' = <<b, 1>> /\ at[2] = 0
                BY <3>2 DEF StartBlock
            <4>2. z[1] <= at[1] /\ b \in Nat
                BY <1>1, <3>1, <4>1, ReleaseFacts DEF Past
            <4>3. z # at'
                BY <3>1, <4>1, <4>2
            <4>. QED  BY <3>1, <3>2, <4>3 DEF KeptBut, StartBlock
        <3>3. CASE EndBlock /\ D = C
            <4>1. at[2] > Length(at[1]) /\ at[2] > 0 /\ at[2] \in Nat /\ Length(at[1]) \in Nat
                BY <1>1, <3>3, InstOK DEF EndBlock
            <4>2. z # at
                BY <3>1, <4>1
            <4>3. \E w : Hard' = [Hard EXCEPT ![at] = w]
                BY <3>3 DEF EndBlock
            <4>. QED  BY <1>1, <3>1, <3>3, <4>2, <4>3
        <3>4. CASE FinishPass /\ D = C
            BY <3>4 DEF FinishPass, passVars
        <3>. QED  BY <1>3, <3>2, <3>3, <3>4
    <2>3. AllDrained(D, Z)'
        BY <1>1, <2>2, DrainedKept
    <2>4. LoadsKnown(Z)'
        <3>1. CASE FinishPass
            BY <3>1, FinishLoads
        <3>2. CASE StartBlock \/ EndBlock
            BY <3>2 DEF LoadsKnown, StartBlock, EndBlock
        <3>. QED  BY <1>3, <3>1, <3>2
    <2>. QED  BY <2>1, <2>3, <2>4
<1>. QED  BY <1>2, <1>3

\* A step of the wave, or of nothing.
LEMMA WaveLoads ==
    ASSUME NEW C, NEW W, NEW Z, CertInv(C, W), Known(C), Forward(fn),
           StoresWait(Z), AllDrained(C, Z), LoadsKnown(Z),
           Complete \/ Issue \/ Call \/ Leave \/ Branch \/ UNCHANGED vars
    PROVE  StoresWait(Z)' /\ AllDrained(C, Z)' /\ LoadsKnown(Z)'
<1>1. /\ fn' = fn /\ SLoadAddresses' = SLoadAddresses /\ Hard' = Hard
      /\ phase' = "pass" => phase = "pass" /\ at' = at
      /\ phase = "pass" => phase' = "pass"
    BY DEF Complete, Issue, Call, Leave, Branch, Ready, vars, passVars
<1>2. \A p \in Spots : Past(p)' <=> Past(p)
    BY <1>1 DEF Past
<1>3. StoresWait(Z)' /\ AllDrained(C, Z)'
    BY <1>1, <1>2, StoresKept, DrainedKept
<1>4. CASE Leave
    BY <1>3, <1>4 DEF LoadsKnown, Leave
<1>5. CASE UNCHANGED vars
    <2>1. queue' = queue /\ at' = at /\ phase' = phase
        BY <1>5 DEF vars
    <2>2. \A k : Excused(queue[k])' <=> Excused(queue[k])
        BY <1>1, <2>1, SameFunction DEF Excused, CounterOf
    <2>3. \A p : ComesFrom(Z, p)' <=> ComesFrom(Z, p)
        BY <1>1, <2>1, SameFunction DEF ComesFrom, Before, Reach
    <2>4. \A p, k : Reads(p, queue[k].reads)' <=> Reads(p, queue[k].reads)
        BY <1>1, <2>1, SameFunction DEF Reads, Spots, Length, InstAt
    <2>5. LoadsKnown(Z)'
        BY <2>1, <2>2, <2>3, <2>4 DEF LoadsKnown
    <2>. QED  BY <1>3, <2>5
<1>. QED  BY <1>3, <1>4, <1>5, CompleteLoads, IssueLoads, CallLoads, BranchLoads

LEMMA NextLoads ==
    ASSUME \A f \in Functions : Forward(f) /\ LoadsMeet(f)
    PROVE  LoadInv /\ [Next]_vars => LoadInv'
<1>. SUFFICES ASSUME LoadInv, [Next]_vars PROVE LoadInv'
    OBVIOUS
<1>1. PICK C, W, Z : /\ CertInv(C, W) /\ Known(C) /\ Released(C)
                     /\ StoresWait(Z) /\ AllDrained(C, Z) /\ LoadsKnown(Z)
    BY DEF LoadInv, CertInv
<1>2. fn \in Functions /\ Forward(fn) /\ LoadsMeet(fn) /\ OneRound
    BY <1>1 DEF LoadInv, Released
<1>3. PICK D, X : /\ IInv' /\ PassOK' /\ fn' = fn /\ ~RepeatRound
                  /\ Cert(D, X)' /\ Known(D)' /\ Released(D)'
                  /\ D = C \/ ((StartBlock \/ VisitInstruction) /\ KeptBut(C, D, at'))
    BY <1>1, <1>2, ReleaseStep
<1>4. \E Y : StoresWait(Y)' /\ AllDrained(D, Y)' /\ LoadsKnown(Y)'
    <2>1. CASE (StartBlock \/ VisitInstruction) /\ KeptBut(C, D, at')
        BY <1>1, <1>2, <2>1, PassLoads
    <2>2. CASE D = C
        <3>1. CASE StartBlock \/ VisitInstruction
            <4>1. KeptBut(C, D, at')
                BY <2>2 DEF KeptBut
            <4>. QED  BY <1>1, <1>2, <3>1, <4>1, PassLoads
        <3>2. CASE EndBlock \/ FinishPass
            BY <1>1, <1>2, <2>2, <3>2, PassLoads
        <3>3. CASE Complete \/ Issue \/ Call \/ Leave \/ Branch \/ UNCHANGED vars
            BY <1>1, <1>2, <2>2, <3>3, WaveLoads
        <3>. QED  BY <1>3, <3>1, <3>2, <3>3 DEF Next, Pass, Ended
    <2>. QED  BY <1>3, <2>1, <2>2
<1>. QED  BY <1>2, <1>3, <1>4 DEF LoadInv

\* In functions without loops no store goes to memory that a scalar load may
\* still read, if what post-dominates one load of an address and stores to it
\* post-dominates the loads of it that come earlier: SLoadAddresses holds one
\* block for an address, and a store that post-dominates that one drops the
\* others with it.  Without the second hypothesis it is false, even of two
\* loads in a function without loops.
THEOREM ScalarLoadsAreRead ==
    ASSUME \A f \in Functions : Forward(f) /\ LoadsMeet(f)
    PROVE  Spec => []ScalarReadsDone
<1>1. LoadInv => ScalarReadsDone
    <2>. SUFFICES ASSUME LoadInv, Ready, Inst.kind = "store", NEW k \in 1..Len(queue),
                         queue[k].reads # NoPointer, queue[k].reads = Inst.ptr
                  PROVE  FALSE
        BY DEF ScalarReadsDone
    <2>1. PICK C, W, Z : /\ CertInv(C, W) /\ Known(C)
                         /\ StoresWait(Z) /\ AllDrained(C, Z) /\ LoadsKnown(Z)
        BY DEF LoadInv, CertInv
    <2>2. /\ phase = "run" /\ WaitsMet /\ at[2] <= Length(at[1]) /\ Forward(fn)
          /\ fn \in Functions /\ WellFormed(fn) /\ at \in Places
        BY <2>1, WaveFacts DEF Ready, LoadInv
    <2>3. at \in Spots /\ at \notin Z /\ Writes(at, Inst.ptr) /\ Past(at)
        BY <2>1, <2>2, LoadsHere DEF Spots, Writes, InstAt, Inst, Past
    <2>4. PICK p : Reads(p, Inst.ptr) /\ ComesFrom(Z, p)
        BY <2>1, <2>2, LoadsHere
    <2>5. Cleared(Z, p, at)
        BY <2>1, <2>3, <2>4 DEF StoresWait, ComesFrom
    <2>6. PICK z \in Z : Before(p, z) /\ Before(z, at) /\ PostDominates(fn, z[1], p[1])
        BY <2>5 DEF Cleared
    <2>7. z[1] # p[1] /\ z[1] # at[1] /\ Reach(fn, p[1], at[1], z[1])
        BY <2>4, <2>6 DEF ComesFrom
    <2>8. /\ z[1] \in Blocks /\ p[1] \in Blocks /\ at[1] \in Blocks
          /\ z[1] \in Nat /\ at[1] \in Nat
        BY <2>1, <2>2, <2>3, <2>4, SpotFacts DEF StoresWait, Reads
    <2>9. at[1] > z[1]
        BY <2>6, <2>7, <2>8 DEF Before
    <2>. QED  BY <2>2, <2>6, <2>7, <2>8, <2>9, NoWayRound
<1>2. Spec => []LoadInv
    <2>1. LoadInv /\ [Next]_vars => LoadInv'
        BY NextLoads
    <2>. QED  BY <2>1, InitLoads, PTL DEF Spec
<1>. QED  BY <1>1, <1>2, PTL
=============================================================================
