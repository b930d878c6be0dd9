-------------------- MODULE MSP430BranchSelectorProofs --------------------
(***************************************************************************)
(* Theorems about MSP430BranchSelector, for every Reach and all functions. *)
(***************************************************************************)
EXTENDS MSP430BranchSelector, SequenceTheorems, TLAPS

\* Inserting x into s after position n: what is before stays, what is after
\* moves up by one.
LEMMA Inserted ==
    ASSUME NEW S, NEW s \in Seq(S), NEW n \in 1..Len(s), NEW x \in S
    PROVE  /\ InsertAt(s, n + 1, x) \in Seq(S)
           /\ Len(InsertAt(s, n + 1, x)) = Len(s) + 1
           /\ \A i \in 1..Len(s) + 1 : InsertAt(s, n + 1, x)[i] =
                  IF i <= n THEN s[i] ELSE IF i = n + 1 THEN x ELSE s[i - 1]
  <1> DEFINE front == SubSeq(s, 1, n)
             back == SubSeq(s, n + 1, Len(s))
  <1>1. /\ front \in Seq(S) /\ Len(front) = n
        /\ \A i \in 1..n : front[i] = s[i]
    <2>1. \A i \in 1..n : s[i] \in S
      OBVIOUS
    <2> QED
      BY <2>1, SubSeqProperties
  <1>2. /\ back \in Seq(S) /\ Len(back) = Len(s) - n
        /\ \A i \in 1..Len(s) - n : back[i] = s[n + i]
    <2>1. \A i \in n + 1 .. Len(s) : s[i] \in S
      OBVIOUS
    <2>2. /\ back \in Seq(S)
          /\ Len(back) = IF n + 1 <= Len(s) THEN Len(s) - (n + 1) + 1 ELSE 0
          /\ \A i \in 1..Len(s) - (n + 1) + 1 : back[i] = s[(n + 1) + i - 1]
      BY <2>1, SubSeqProperties
    <2> QED
      BY <2>2
  <1> DEFINE left == front \o <<x>>
  <1> HIDE DEF front, back
  <1>3. /\ left \in Seq(S) /\ Len(left) = n + 1
        /\ \A i \in 1..n + 1 : left[i] = IF i <= n THEN s[i] ELSE x
    <2>1. <<x>> \in Seq(S) /\ Len(<<x>>) = 1 /\ <<x>>[1] = x
      OBVIOUS
    <2> QED
      BY <1>1, <2>1, ConcatProperties
  <1> HIDE DEF left
  <1>4. /\ left \o back \in Seq(S) /\ Len(left \o back) = Len(left) + Len(back)
        /\ \A i \in 1..Len(left) + Len(back) : (left \o back)[i] =
               IF i <= Len(left) THEN left[i] ELSE back[i - Len(left)]
    BY <1>2, <1>3, ConcatProperties
  <1>5. InsertAt(s, n + 1, x) = left \o back
    <2>1. (n + 1) - 1 = n
      OBVIOUS
    <2> QED
      BY <2>1 DEF InsertAt, left, front, back
  <1>6. ASSUME NEW i \in 1..Len(s) + 1
        PROVE  (left \o back)[i] = IF i <= n THEN s[i] ELSE IF i = n + 1 THEN x ELSE s[i - 1]
    <2> DEFINE both == left \o back
    <2>0. /\ i \in 1..Len(left) + Len(back)
          /\ i <= n + 1 => both[i] = left[i]
          /\ i > n + 1 => both[i] = back[i - (n + 1)]
      BY <1>2, <1>3, <1>4
    <2> HIDE DEF both
    <2>1. CASE i <= n + 1
      BY <2>0, <2>1, <1>3 DEF both
    <2>2. CASE i > n + 1
      <3>1. i - (n + 1) \in 1..Len(s) - n /\ n + (i - (n + 1)) = i - 1
        BY <2>2
      <3>2. back[i - (n + 1)] = s[i - 1]
        BY <3>1, <1>2
      <3> QED
        BY <3>2, <2>0, <2>2 DEF both
    <2>3. i <= n + 1 \/ i > n + 1
      OBVIOUS
    <2> QED
      BY <2>1, <2>2, <2>3, Zenon
  <1> DEFINE ins == left \o back
  <1>7. /\ ins \in Seq(S) /\ Len(ins) = Len(s) + 1
        /\ \A i \in 1..Len(s) + 1 : ins[i] =
               IF i <= n THEN s[i] ELSE IF i = n + 1 THEN x ELSE s[i - 1]
    BY <1>2, <1>3, <1>4, <1>6
  <1>8. InsertAt(s, n + 1, x) = ins
    BY <1>5
  <1> HIDE DEF ins
  <1> QED
    BY <1>7, <1>8

-----------------------------------------------------------------------------
\* The fields of a block and the sizes of its branches.
LEMMA BlockFields ==
    ASSUME TypeOK, NEW b \in Blocks
    PROVE  /\ code[b] \in MachineBasicBlock(Blocks)
           /\ code[b].body \in Nat /\ code[b].real \in Nat
           /\ code[b].cond \in {"none", "JCC", "long"}
           /\ code[b].jump \in {"none", "RET", "JMP", "Bi"}
           /\ code[b].condTo \in Blocks /\ code[b].over \in Blocks
           /\ code[b].jumpTo \in Blocks /\ JCCTarget(b) \in Blocks
           /\ CondSize(b) \in 0..3 /\ JumpSize(b) \in 0..2 /\ Size(b) \in Nat
  <1>1. code[b] \in MachineBasicBlock(Blocks)
    BY DEF TypeOK, Blocks
  <1>2. /\ code[b].body \in Nat /\ code[b].real \in Nat
        /\ code[b].cond \in {"none", "JCC", "long"}
        /\ code[b].jump \in {"none", "RET", "JMP", "Bi"}
        /\ code[b].condTo \in Blocks /\ code[b].over \in Blocks
        /\ code[b].jumpTo \in Blocks
    BY <1>1 DEF MachineBasicBlock
  <1>3. CondSize(b) \in 0..3
    BY <1>2 DEF CondSize
  <1>4. JumpSize(b) \in 0..2
    BY <1>2 DEF JumpSize
  <1> QED
    BY <1>1, <1>2, <1>3, <1>4 DEF JCCTarget, Size

\* Number is the inverse of the layout.
NumberIsInverse ==
    /\ \A b \in Blocks : Number(b) \in Blocks /\ order[Number(b)] = b
    /\ \A i \in Blocks : order[i] \in Blocks /\ Number(order[i]) = i

LEMMA Numbering == TypeOK => NumberIsInverse
  <1> SUFFICES ASSUME TypeOK PROVE NumberIsInverse
    OBVIOUS
  <1>1. 1..Len(order) = Blocks /\ \A i \in Blocks : order[i] \in Blocks
    <2>1. 1..Len(order) = Blocks
      BY DEF TypeOK, Blocks
    <2> QED
      BY <2>1 DEF TypeOK
  <1>2. ASSUME NEW b \in Blocks
        PROVE  Number(b) \in Blocks /\ order[Number(b)] = b
    <2>1. PICK i \in 1..Len(order) : order[i] = b
      BY <1>1 DEF TypeOK
    <2> QED
      BY <1>1, <2>1 DEF Number
  <1>3. ASSUME NEW i \in Blocks
        PROVE  order[i] \in Blocks /\ Number(order[i]) = i
    <2>1. /\ order[i] \in Blocks
          /\ Number(order[i]) \in Blocks /\ order[Number(order[i])] = order[i]
      BY <1>1, <1>2
    <2>2. \A j, k \in Blocks : order[j] = order[k] => j = k
      BY DEF TypeOK
    <2> QED
      BY <2>1, <2>2
  <1> QED
    BY <1>2, <1>3 DEF NumberIsInverse

LEMMA NextNumbering == TypeOK' => NumberIsInverse'
  BY Numbering, PTL


\* The functions the pass is given, laid out as they come.
LEMMA InputTargets ==
    ASSUME NEW f \in Functions, NEW b \in 1..Len(f), NEW c \in BOOLEAN
    PROVE  LET lay == [i \in 1..Len(f) |-> i]
           IN  Outcome(f, lay, b, c) \in 0..Len(f)
  <1> DEFINE lay == [i \in 1..Len(f) |-> i]
  <1>1. WellFormed(f)
    BY FunctionsAssumption
  <1>2. /\ f[b].cond \in {"none", "JCC"} /\ f[b].jump \in {"none", "RET", "JMP", "Bi"}
        /\ f[b].condTo \in 1..Len(f) /\ f[b].jumpTo \in 1..Len(f)
        /\ b = Len(f) => f[b].jump # "none"
    <2>1. f[b] \in MachineBasicBlock(1..Len(f))
      BY <1>1 DEF WellFormed
    <2>2. /\ f[b].jump \in {"none", "RET", "JMP", "Bi"}
          /\ f[b].condTo \in 1..Len(f) /\ f[b].jumpTo \in 1..Len(f)
      BY <2>1 DEF MachineBasicBlock
    <2> QED
      BY <1>1, <2>2 DEF WellFormed
  <1>3. Len(f) \in Nat
    BY <1>1 DEF WellFormed
  <1>4. Len(lay) = Len(f)
    BY <1>3
  <1>5. (CHOOSE i \in 1..Len(lay) : lay[i] = b) = b
    BY <1>4
  <1>6. Rest(f, lay, b) \in 0..Len(f)
    <2>1. CASE f[b].jump = "none"
      <3>1. Rest(f, lay, b) = lay[b + 1]
        BY <1>5, <2>1 DEF Rest
      <3> QED
        BY <3>1, <1>2, <1>3, <2>1
    <2>2. CASE f[b].jump = "RET"
      BY <1>3, <2>2 DEF Rest
    <2>3. CASE f[b].jump \in {"JMP", "Bi"}
      BY <1>2, <1>3, <2>3 DEF Rest
    <2> QED
      BY <1>2, <2>1, <2>2, <2>3
  <1> HIDE DEF lay
  <1>7. Outcome(f, lay, b, c) \in 0..Len(f)
    BY <1>2, <1>3, <1>6 DEF Outcome
  <1> QED
    BY <1>7 DEF lay

-----------------------------------------------------------------------------
\* Type correctness: the layout stays a permutation of the blocks, and every
\* branch, successor and offset is of a block, when expandBranches inserts
\* new ones.
LEMMA InitTypeOK == Init => TypeOK
  <1> SUFFICES ASSUME Init PROVE TypeOK
    OBVIOUS
  <1>1. WellFormed(fn)
    BY FunctionsAssumption DEF Init
  <1>2. Len(fn) \in Nat /\ code \in Seq(MachineBasicBlock(Blocks))
    BY <1>1 DEF WellFormed, Init, Blocks
  <1>3. /\ order \in Seq(Blocks) /\ Len(order) = Len(code)
        /\ \A b \in Blocks : order[b] = b
    BY <1>2 DEF Init, Blocks, InputOrder
  <1>4. succ \in Seq(SUBSET Blocks) /\ Len(succ) = Len(code)
    <2>1. ASSUME NEW b \in 1..Len(fn)
          PROVE  Outcomes(fn, InputOrder, b) \ {0} \subseteq 1..Len(fn)
      <3>1. \A c \in BOOLEAN : Outcome(fn, InputOrder, b, c) \in 0..Len(fn)
        BY InputTargets DEF Init, InputOrder
      <3> QED
        BY <3>1, <1>2 DEF Outcomes
    <2> DEFINE s == [b \in 1..Len(fn) |-> Outcomes(fn, InputOrder, b) \ {0}]
    <2>2. s \in [1..Len(fn) -> SUBSET (1..Len(fn))]
      BY <2>1
    <2>3. s = succ /\ Len(code) = Len(fn) /\ 1..Len(fn) = Blocks
      BY DEF Init, Blocks
    <2> HIDE DEF s
    <2>4. s \in Seq(SUBSET (1..Len(fn))) /\ Len(s) = Len(fn)
      BY <1>2, <2>2
    <2> QED
      BY <2>3, <2>4
  <1>5. BlockOffsets \in Seq(Nat) /\ Len(BlockOffsets) = Len(code)
    BY <1>2 DEF Init
  <1>6. num \in 1..Len(code) + 1 /\ addr \in Seq(Nat) /\ Len(addr) <= Len(code)
    <2>1. addr \in Seq(Nat) /\ Len(addr) = 0 /\ Len(code) \in Nat /\ num = 1
      BY <1>2 DEF Init
    <2> QED
      BY <2>1
  <1>7. /\ fn \in Functions /\ phase \in {"measure", "remeasure", "scan", "assemble"}
        /\ mi \in {"cond", "jump"} /\ TotalSize \in Nat /\ MadeChange \in BOOLEAN
    BY DEF Init
  <1> QED
    BY <1>2, <1>3, <1>4, <1>5, <1>6, <1>7 DEF TypeOK

\* The block looked at.
LEMMA Current ==
    ASSUME TypeOK, num <= Len(order)
    PROVE  num \in Blocks /\ order[num] \in Blocks /\ Number(order[num]) = num
  <1>1. num \in Blocks
    BY DEF TypeOK, Blocks
  <1> QED
    BY <1>1, Numbering DEF NumberIsInverse

\* Updates of a block.
LEMMA BlockUpdates ==
    ASSUME NEW Ids, NEW r \in MachineBasicBlock(Ids), NEW b \in Ids
    PROVE  /\ [r EXCEPT !.jump = "Bi"] \in MachineBasicBlock(Ids)
           /\ [r EXCEPT !.jump = "none"] \in MachineBasicBlock(Ids)
           /\ [r EXCEPT !.body = 0, !.real = 0, !.cond = "none"] \in MachineBasicBlock(Ids)
           /\ [r EXCEPT !.cond = "long", !.reversed = TRUE, !.over = b]
                 \in MachineBasicBlock(Ids)
  BY DEF MachineBasicBlock

\* Control does not fall off the last block of the layout.
EndsInJump == \A i \in Blocks : i = Len(code) => code[order[i]].jump # "none"

TypeInv == TypeOK /\ EndsInJump

\* What a split makes of the blocks and of the layout.
LEMMA SplitEffect ==
    ASSUME TypeInv, SplitBlock
    PROVE  LET b == order[num]
               New == Len(code) + 1
               Ids == 1..New
           IN  /\ num \in Blocks /\ b \in Blocks /\ Len(code) \in Nat
               /\ Len(code') = New
               /\ code' \in Seq(MachineBasicBlock(Ids))
               /\ \A i \in Blocks : code'[i] =
                      IF i = b THEN [code[b] EXCEPT !.jump = "none"] ELSE code[i]
               /\ code'[New] = [code[b] EXCEPT !.body = 0, !.real = 0, !.cond = "none"]
               /\ order' \in Seq(Ids) /\ Len(order') = New
               /\ \A i \in Ids : order'[i] =
                      IF i <= num THEN order[i] ELSE IF i = num + 1 THEN New ELSE order[i - 1]
  <1> DEFINE b == order[num]
             New == Len(code) + 1
             Ids == 1..New
             r == [code[b] EXCEPT !.jump = "none"]
             q == [code[b] EXCEPT !.body = 0, !.real = 0, !.cond = "none"]
  <1>1. num \in Blocks /\ b \in Blocks /\ Len(code) \in Nat /\ Len(order) = Len(code)
    BY Current DEF TypeInv, TypeOK, SplitBlock, Scanning
  <1>2. Blocks \subseteq Ids /\ New \in Ids /\ \A i \in Blocks : i \in 1..Len(code)
    BY <1>1 DEF Blocks
  <1>3. code \in Seq(MachineBasicBlock(Ids)) /\ b \in 1..Len(code)
    <2>1. MachineBasicBlock(Blocks) \subseteq MachineBasicBlock(Ids)
      BY <1>2 DEF MachineBasicBlock
    <2>2. code \in Seq(MachineBasicBlock(Blocks))
      BY DEF TypeInv, TypeOK
    <2>3. b \in 1..Len(code)
      BY <1>1, <1>2
    <2> QED
      BY <2>1, <2>2, <2>3, SeqMonotonic
  <1>4. r \in MachineBasicBlock(Ids) /\ q \in MachineBasicBlock(Ids)
    <2>1. code[b] \in MachineBasicBlock(Ids)
      BY <1>3
    <2> QED
      BY <1>2, <2>1, BlockUpdates
  <1> DEFINE c == [code EXCEPT ![b] = r]
  <1>5. /\ code' = Append(c, q)
        /\ order' = InsertAt(order, num + 1, New)
    BY DEF SplitBlock
  <1> HIDE DEF r, q
  <1>6. /\ c \in Seq(MachineBasicBlock(Ids)) /\ Len(c) = Len(code)
        /\ \A i \in 1..Len(code) : c[i] = IF i = b THEN r ELSE code[i]
    BY <1>3, <1>4, ExceptSeq
  <1> HIDE DEF c
  <1>7. /\ code' \in Seq(MachineBasicBlock(Ids)) /\ Len(code') = New
        /\ \A i \in 1..Len(code) : code'[i] = c[i]
        /\ code'[New] = q
    BY <1>4, <1>5, <1>6, AppendProperties
  <1>8. order \in Seq(Ids) /\ num \in 1..Len(order)
    <2>1. order \in Seq(Blocks)
      BY DEF TypeInv, TypeOK
    <2>2. num \in 1..Len(order)
      BY <1>1, <1>2
    <2> QED
      BY <1>2, <2>1, <2>2, SeqMonotonic
  <1>9. /\ order' \in Seq(Ids) /\ Len(order') = New
        /\ \A i \in Ids : order'[i] =
               IF i <= num THEN order[i] ELSE IF i = num + 1 THEN New ELSE order[i - 1]
    <2>1. 1..Len(order) + 1 = Ids
      BY <1>1
    <2> HIDE DEF New, Ids
    <2> DEFINE ins == InsertAt(order, num + 1, New)
    <2>2. /\ ins \in Seq(Ids) /\ Len(ins) = Len(order) + 1
          /\ \A i \in 1..Len(order) + 1 : ins[i] =
               IF i <= num THEN order[i] ELSE IF i = num + 1 THEN New ELSE order[i - 1]
      BY <1>2, <1>8, Inserted
    <2> HIDE DEF ins
    <2>3. order' = ins /\ New = Len(order) + 1
      BY <1>1, <1>5 DEF ins, New
    <2> QED
      BY <2>1, <2>2, <2>3
  <1>10. \A i \in Blocks : code'[i] = IF i = b THEN r ELSE code[i]
    BY <1>2, <1>6, <1>7
  <1> QED
    BY <1>1, <1>7, <1>9, <1>10 DEF r, q

LEMMA StepTypeInv == TypeInv /\ [Next]_vars => TypeInv'
  <1> SUFFICES ASSUME TypeInv, [Next]_vars PROVE TypeInv'
    OBVIOUS
  <1> USE DEF TypeInv
  <1>0. /\ Len(code) \in Nat /\ Len(order) = Len(code) /\ num \in 1..Len(code) + 1
        /\ Len(BlockOffsets) = Len(code) /\ Len(succ) = Len(code)
    BY DEF TypeOK
  <1>1. CASE MeasureBlock
    <2>1. num \in Blocks /\ Size(order[num]) \in Nat
      BY <1>1, Current, BlockFields DEF MeasureBlock
    <2>2. BlockOffsets' \in Seq(Nat) /\ Len(BlockOffsets') = Len(code)
      BY <1>1, <2>1, ExceptSeq DEF MeasureBlock, TypeOK, Blocks
    <2>3. TotalSize + Size(order[num]) \in Nat /\ num + 1 \in 1..Len(code) + 1
      <3>1. TotalSize \in Nat /\ num <= Len(code)
        BY <1>1, <1>0 DEF MeasureBlock, TypeOK
      <3> QED
        BY <1>0, <2>1, <3>1
    <2> QED
      BY <1>1, <2>2, <2>3 DEF MeasureBlock, TypeOK, EndsInJump, Blocks
  <1>2. CASE EndMeasure
    <2>1. /\ phase' \in {"measure", "remeasure", "scan", "assemble"}
          /\ num' \in 1..Len(code) + 1 /\ mi' \in {"cond", "jump"}
      BY <1>2, <1>0 DEF EndMeasure, StartScan, TypeOK
    <2>2. MadeChange' \in BOOLEAN
      BY <1>2, Zenon DEF EndMeasure, StartScan, TypeOK
    <2> QED
      BY <1>2, <2>1, <2>2 DEF EndMeasure, TypeOK, EndsInJump, Blocks
  <1>3. CASE EndRemeasure
    <2>1. /\ phase' \in {"measure", "remeasure", "scan", "assemble"}
          /\ num' \in 1..Len(code) + 1 /\ mi' \in {"cond", "jump"}
      BY <1>3, <1>0 DEF EndRemeasure, StartScan, TypeOK
    <2>2. MadeChange' \in BOOLEAN
      BY <1>3, Zenon DEF EndRemeasure, StartScan, TypeOK
    <2> QED
      BY <1>3, <2>1, <2>2 DEF EndRemeasure, TypeOK, EndsInJump, Blocks
  <1>4. CASE SkipCond
    BY <1>4 DEF SkipCond, TypeOK, EndsInJump, Blocks
  <1>5. CASE SplitBlock
    <2> DEFINE b == order[num]
               New == Len(code) + 1
               Ids == 1..New
    <2>1. /\ num \in Blocks /\ b \in Blocks /\ Blocks \subseteq Ids /\ New \in Ids
          /\ Len(code') = New /\ code' \in Seq(MachineBasicBlock(Ids))
          /\ Blocks' = Ids
      BY <1>5, SplitEffect DEF Blocks
    <2>2. /\ order' \in Seq(Ids) /\ Len(order') = New
          /\ \A i \in Ids : order'[i] =
               IF i <= num THEN order[i] ELSE IF i = num + 1 THEN New ELSE order[i - 1]
      BY <1>5, SplitEffect
    <2>3. /\ \A i \in Blocks : code'[i].jump = IF i = b THEN "none" ELSE code[i].jump
          /\ code'[New].jump # "none"
      <3>1. code[b] \in MachineBasicBlock(Blocks)
        BY <2>1, BlockFields
      <3>2. /\ \A i \in Blocks : code'[i] =
                  IF i = b THEN [code[b] EXCEPT !.jump = "none"] ELSE code[i]
            /\ code'[New] = [code[b] EXCEPT !.body = 0, !.real = 0, !.cond = "none"]
        BY <1>5, SplitEffect
      <3>3. code[b].jump # "none"
        BY <1>5 DEF SplitBlock
      <3> QED
        BY <2>1, <3>1, <3>2, <3>3 DEF MachineBasicBlock
    <2>4. \A i \in Blocks : order[i] \in Blocks /\ Number(order[i]) = i
      BY Numbering DEF NumberIsInverse
    <2>5. ASSUME NEW x \in Ids
          PROVE  \E i \in Ids : order'[i] = x
      <3>1. CASE x = New
        <4>1. num + 1 \in Ids /\ order'[num + 1] = New
          BY <1>0, <2>1, <2>2 DEF Blocks
        <4> QED
          BY <3>1, <4>1
      <3>2. CASE x \in Blocks
        <4>1. PICK i \in Blocks : order[i] = x
          BY <3>2 DEF TypeOK
        <4>2. CASE i <= num
          <5>1. i \in Ids /\ order'[i] = x
            BY <2>1, <2>2, <4>1, <4>2
          <5> QED
            BY <5>1
        <4>3. CASE i > num
          <5>1. i + 1 \in Ids /\ order'[i + 1] = order[i]
            <6>1. /\ i + 1 \in Ids /\ ~(i + 1 <= num) /\ i + 1 # num + 1
                  /\ (i + 1) - 1 = i
              BY <1>0, <2>1, <4>3 DEF Blocks
            <6> QED
              BY <2>2, <6>1
          <5> QED
            BY <4>1, <5>1
        <4> QED
          BY <1>0, <4>2, <4>3 DEF Blocks
      <3> QED
        BY <1>0, <3>1, <3>2 DEF Blocks
    <2>6. ASSUME NEW i \in Ids, NEW j \in Ids, order'[i] = order'[j]
          PROVE  i = j
      <3> DEFINE old(k) == IF k <= num THEN k ELSE k - 1
      <3>1. ASSUME NEW k \in Ids, k # num + 1
            PROVE  old(k) \in Blocks /\ order'[k] = order[old(k)] /\ order[old(k)] # New
        <4>1. old(k) \in Blocks /\ order'[k] = order[old(k)]
          <5>1. num \in 1..Len(code) /\ k \in 1..Len(code) + 1
            BY <2>1, <3>1 DEF Blocks
          <5>2. CASE k <= num
            BY <1>0, <2>2, <5>1, <5>2 DEF Blocks
          <5>3. CASE k > num + 1
            <6>1. ~(k <= num) /\ k # num + 1 /\ k - 1 \in 1..Len(code)
              BY <1>0, <5>1, <5>3
            <6> QED
              BY <2>2, <6>1 DEF Blocks
          <5> QED
            BY <1>0, <3>1, <5>1, <5>2, <5>3
        <4>2. order[old(k)] \in Blocks /\ New \notin Blocks
          BY <1>0, <2>4, <4>1 DEF Blocks
        <4> QED
          BY <4>1, <4>2
      <3>2. order'[num + 1] = New /\ num + 1 \in Ids
        BY <1>0, <2>1, <2>2 DEF Blocks
      <3>3. CASE i = num + 1 \/ j = num + 1
        BY <2>6, <3>1, <3>2, <3>3
      <3>4. CASE i # num + 1 /\ j # num + 1
        <4>1. /\ old(i) \in Blocks /\ old(j) \in Blocks
              /\ order[old(i)] = order[old(j)]
          BY <2>6, <3>1, <3>4
        <4>2. old(i) = old(j)
          BY <4>1 DEF TypeOK
        <4> QED
          BY <1>0, <3>4, <4>2
      <3> QED
        BY <3>3, <3>4
    <2>7. succ' \in Seq(SUBSET Ids) /\ Len(succ') = New
      <3> DEFINE moved == succ[b] \ {code[b].condTo}
                 kept == (succ[b] \ moved) \cup {New : s \in moved}
                 t == [succ EXCEPT ![b] = kept]
      <3>1. succ \in Seq(SUBSET Ids) /\ b \in 1..Len(succ)
        <4>1. succ \in Seq(SUBSET Blocks) /\ SUBSET Blocks \subseteq SUBSET Ids
          BY <2>1 DEF TypeOK
        <4>2. b \in 1..Len(succ)
          BY <1>0, <2>1 DEF Blocks
        <4> QED
          BY <4>1, <4>2, SeqMonotonic
      <3>2. moved \in SUBSET Ids /\ kept \in SUBSET Ids
        <4>1. succ[b] \in SUBSET Ids
          BY <3>1
        <4> QED
          BY <2>1, <4>1
      <3>3. succ' = Append(t, moved)
        BY <1>5 DEF SplitBlock, MovedSuccessors
      <3> HIDE DEF moved, kept
      <3>4. t \in Seq(SUBSET Ids) /\ Len(t) = Len(succ)
        BY <3>1, <3>2, ExceptSeq
      <3> HIDE DEF t
      <3> QED
        BY <1>0, <3>2, <3>3, <3>4, AppendProperties
    <2>8. BlockOffsets' \in Seq(Nat) /\ Len(BlockOffsets') = New
      BY <1>5, <1>0, AppendProperties DEF SplitBlock, ResizedOffsets, TypeOK
    <2>9. EndsInJump'
      <3>1. CASE num = Len(code)
        <4>1. order'[New] = New
          BY <2>1, <2>2, <3>1
        <4> QED
          BY <2>1, <2>3, <4>1 DEF EndsInJump
      <3>2. CASE num # Len(code)
        <4>1. Len(code) \in Blocks /\ Len(code) > num
          BY <1>0, <2>1, <3>2 DEF Blocks
        <4>2. order'[New] = order[Len(code)]
          BY <1>0, <2>1, <2>2, <4>1
        <4>3. order[Len(code)] \in Blocks /\ order[Len(code)] # b
          BY <2>1, <2>4, <4>1 DEF TypeOK
        <4>4. code[order[Len(code)]].jump # "none"
          BY <4>1 DEF EndsInJump
        <4> QED
          BY <2>1, <2>3, <4>2, <4>3, <4>4 DEF EndsInJump
      <3> QED
        BY <3>1, <3>2
    <2>10. BlockOffsets[num] \in Nat
      <3>1. BlockOffsets \in Seq(Nat) /\ num \in 1..Len(BlockOffsets)
        BY <1>0, <2>1 DEF TypeOK, Blocks
      <3> QED
        BY <3>1, ElementOfSeq
    <2>11. num \in 1..New + 1 /\ Len(addr) <= New
      BY <1>0 DEF TypeOK
    <2>12. /\ fn' \in Functions /\ phase' = "remeasure" /\ mi' \in {"cond", "jump"}
           /\ TotalSize' \in Nat /\ MadeChange' \in BOOLEAN /\ addr' \in Seq(Nat)
           /\ num' = num /\ addr' = addr
      BY <1>5, <2>10 DEF SplitBlock, TypeOK
    <2>13. TypeOK'
      BY <1>5, <2>1, <2>2, <2>5, <2>6, <2>7, <2>8, <2>11, <2>12 DEF TypeOK
    <2> QED
      BY <2>9, <2>13
  <1>6. CASE ExpandCond
    <2> DEFINE b == order[num]
               r == [code[b] EXCEPT !.cond = "long", !.reversed = TRUE, !.over = order[num + 1]]
    <2>1. num \in Blocks /\ b \in Blocks
      BY <1>6, Current DEF ExpandCond, Scanning
    <2>2. order[num + 1] \in Blocks
      <3>1. num # Len(code)
        BY <1>6, <2>1 DEF ExpandCond, EndsInJump
      <3>2. num + 1 \in Blocks
        BY <1>0, <2>1, <3>1 DEF Blocks
      <3> QED
        BY <3>2, Numbering DEF NumberIsInverse
    <2>3. r \in MachineBasicBlock(Blocks) /\ r.jump = code[b].jump
      <3>1. code[b] \in MachineBasicBlock(Blocks)
        BY <2>1, BlockFields
      <3> QED
        BY <2>2, <3>1, BlockUpdates DEF MachineBasicBlock
    <2>4. code' = [code EXCEPT ![b] = r]
      BY <1>6 DEF ExpandCond, LongBranch
    <2> HIDE DEF r, b
    <2>5. /\ code' \in Seq(MachineBasicBlock(Blocks)) /\ Len(code') = Len(code)
          /\ \A i \in Blocks : code'[i].jump = code[i].jump
      <3>1. /\ code' \in Seq(MachineBasicBlock(Blocks)) /\ Len(code') = Len(code)
            /\ \A i \in Blocks : code'[i] = IF i = b THEN r ELSE code[i]
        <4>1. code \in Seq(MachineBasicBlock(Blocks)) /\ b \in 1..Len(code)
          BY <2>1 DEF TypeOK, Blocks
        <4>2. \A i \in Blocks : i \in 1..Len(code)
          BY DEF Blocks
        <4> QED
          BY <2>3, <2>4, <4>1, <4>2, ExceptSeq
      <3> QED
        BY <3>1, <2>3
    <2>6. BlockOffsets' \in Seq(Nat) /\ Len(BlockOffsets') = Len(code)
      BY <1>6, <1>0 DEF ExpandCond, Grow, TypeOK
    <2>7. Blocks' = Blocks
      BY <2>5 DEF Blocks
    <2>8. EndsInJump'
      BY <1>6, <2>5, <2>7, Numbering DEF NumberIsInverse, ExpandCond, EndsInJump
    <2> QED
      BY <1>6, <2>5, <2>6, <2>7, <2>8 DEF ExpandCond, TypeOK
  <1>7. CASE SkipJump
    <2>1. num' \in 1..Len(code) + 1 /\ mi' = "cond"
      BY <1>7, <1>0 DEF SkipJump, Scanning, NextBlock
    <2> QED
      BY <1>7, <2>1 DEF SkipJump, TypeOK, EndsInJump, Blocks
  <1>8. CASE ExpandJump
    <2> DEFINE b == order[num]
               r == [code[b] EXCEPT !.jump = "Bi"]
    <2>1. num \in Blocks /\ b \in Blocks
      BY <1>8, Current DEF ExpandJump, Scanning
    <2>3. r \in MachineBasicBlock(Blocks) /\ r.jump # "none"
      <3>1. code[b] \in MachineBasicBlock(Blocks)
        BY <2>1, BlockFields
      <3> QED
        BY <2>1, <3>1, BlockUpdates DEF MachineBasicBlock
    <2>4. code' = [code EXCEPT ![b] = r]
      BY <1>8 DEF ExpandJump
    <2> HIDE DEF r, b
    <2>5. /\ code' \in Seq(MachineBasicBlock(Blocks)) /\ Len(code') = Len(code)
          /\ \A i \in Blocks : code[i].jump # "none" => code'[i].jump # "none"
      BY <2>1, <2>3, <2>4, ExceptSeq DEF TypeOK, Blocks
    <2>6. BlockOffsets' \in Seq(Nat) /\ Len(BlockOffsets') = Len(code)
      BY <1>8, <1>0 DEF ExpandJump, Grow, TypeOK
    <2>7. Blocks' = Blocks
      BY <2>5 DEF Blocks
    <2>8. num' \in 1..Len(code) + 1 /\ mi' = "cond"
      BY <1>8, <1>0 DEF ExpandJump, Scanning, NextBlock
    <2>9. EndsInJump'
      BY <1>8, <2>5, <2>7, Numbering DEF NumberIsInverse, ExpandJump, EndsInJump
    <2> QED
      BY <1>8, <2>5, <2>6, <2>7, <2>8, <2>9 DEF ExpandJump, TypeOK
  <1>9. CASE EndScan
    <2>1. /\ phase' \in {"measure", "remeasure", "scan", "assemble"}
          /\ num' \in 1..Len(code) + 1 /\ mi' \in {"cond", "jump"}
      BY <1>9, <1>0 DEF EndScan, StartScan, TypeOK
    <2>2. MadeChange' \in BOOLEAN
      BY <1>9, Zenon DEF EndScan, StartScan, TypeOK
    <2> QED
      BY <1>9, <2>1, <2>2 DEF EndScan, TypeOK, EndsInJump, Blocks
  <1>10. CASE PlaceBlock
    <2>1. addr' \in Seq(Nat) /\ Len(addr') <= Len(code)
      <3> DEFINE a == IF addr = <<>> THEN 0 ELSE addr[Len(addr)] + RealSize(order[Len(addr)])
      <3>1. a \in Nat
        <4>1. CASE addr = <<>>
          BY <4>1
        <4>2. CASE addr # <<>>
          <5>1. Len(addr) \in Blocks /\ addr[Len(addr)] \in Nat
            <6>1. addr \in Seq(Nat) /\ Len(addr) # 0 /\ Len(addr) <= Len(code)
              BY <4>2, EmptySeq DEF TypeOK
            <6> QED
              BY <6>1, <1>0 DEF Blocks
          <5>2. order[Len(addr)] \in Blocks
            BY <5>1, Numbering DEF NumberIsInverse
          <5>3. RealSize(order[Len(addr)]) \in Nat
            BY <5>2, BlockFields DEF RealSize
          <5> QED
            BY <4>2, <5>1, <5>3
        <4> QED
          BY <4>1, <4>2
      <3> HIDE DEF a
      <3>2. Append(addr, a) \in Seq(Nat) /\ Len(Append(addr, a)) = Len(addr) + 1
        BY <3>1 DEF TypeOK
      <3>3. addr' = Append(addr, a)
        BY <1>10 DEF PlaceBlock, a
      <3> QED
        BY <1>10, <1>0, <3>2, <3>3 DEF PlaceBlock, TypeOK
    <2> QED
      BY <1>10, <2>1 DEF PlaceBlock, TypeOK, EndsInJump, Blocks
  <1>11. CASE UNCHANGED vars
    BY <1>11 DEF vars, TypeOK, EndsInJump, Blocks
  <1> QED
    BY <1>1, <1>2, <1>3, <1>4, <1>5, <1>6, <1>7, <1>8, <1>9, <1>10, <1>11 DEF Next

\* Every variable keeps a value of its type: the layout stays a permutation
\* of the blocks, and branches, successor lists and offsets stay those of
\* existing blocks, when expandBranches inserts new ones.
THEOREM TypeCorrect == Spec => []TypeOK
  <1>1. Init => TypeInv
    <2> SUFFICES ASSUME Init PROVE EndsInJump
      BY InitTypeOK DEF TypeInv
    <2>1. WellFormed(fn) /\ code = fn /\ order = InputOrder
      BY FunctionsAssumption DEF Init
    <2> QED
      BY <2>1 DEF EndsInJump, WellFormed, InputOrder, Blocks
  <1>2. TypeInv => TypeOK
    BY DEF TypeInv
  <1> QED
    BY <1>1, <1>2, StepTypeInv, PTL DEF Spec

-----------------------------------------------------------------------------
\* Why branches reach.  The blocks measured so far do not overlap, and
\* TotalSize is past their end.
Measured == IF phase \in {"measure", "remeasure"} THEN num - 1 ELSE Len(order)

OffsetsApart ==
    /\ \A i, j \in 1..Measured :
          i < j => BlockOffsets[i] + Size(order[i]) <= BlockOffsets[j]
    /\ phase \in {"measure", "remeasure"} =>
          \A i \in 1..Measured : BlockOffsets[i] + Size(order[i]) <= TotalSize

\* What a scan has looked at and not changed reaches by the offsets; the
\* pass ends after a scan without a change.
CondReaches(b) == code[b].cond # "none" => InRange(CondDistance(b))
JumpReaches(b) == code[b].jump = "JMP" => InRange(JumpDistance(b))

ScannedReaches ==
    /\ phase = "scan" /\ ~MadeChange =>
          /\ \A i \in 1..num - 1 : CondReaches(order[i]) /\ JumpReaches(order[i])
          /\ num <= Len(order) /\ mi = "jump" => CondReaches(order[num])
    /\ phase = "assemble" => \A b \in Blocks : CondReaches(b) /\ JumpReaches(b)

\* The placed blocks are not farther apart than the measured ones.
PlacedWithin ==
    /\ phase # "assemble" => addr = <<>>
    /\ \A i, j \in 1..Len(addr) : i < j =>
          LET gap == addr[j] - (addr[i] + RealSize(order[i]))
          IN  0 <= gap /\ gap <= BlockOffsets[j] - (BlockOffsets[i] + Size(order[i]))

RealWithin == \A b \in Blocks : code[b].real <= code[b].body

ReachInv == TypeInv /\ OffsetsApart /\ ScannedReaches /\ PlacedWithin /\ RealWithin

\* An expansion makes one block longer by diff words and moves the later
\* ones by as much.
LEMMA ExpandEffect ==
    ASSUME TypeInv, ExpandCond \/ ExpandJump
    PROVE  \E diff \in {1, 2} :
              /\ num \in Blocks /\ order[num] \in Blocks /\ Blocks' = Blocks
              /\ order' = order /\ addr' = addr /\ phase = "scan" /\ phase' = "scan"
              /\ MadeChange'
              /\ \A b \in Blocks :
                    /\ Size(b)' = Size(b) + IF b = order[num] THEN diff ELSE 0
                    /\ code'[b].body = code[b].body /\ code'[b].real = code[b].real
              /\ \A i \in Blocks :
                    BlockOffsets'[i] = BlockOffsets[i] + IF i > num THEN diff ELSE 0
  <1> DEFINE b == order[num]
  <1>1. num \in Blocks /\ b \in Blocks
    BY Current DEF TypeInv, ExpandCond, ExpandJump, Scanning
  <1>2. code \in Seq(MachineBasicBlock(Blocks)) /\ Len(BlockOffsets) = Len(code)
    BY DEF TypeInv, TypeOK
  <1>3. CASE ExpandCond
    <2> DEFINE r == [code[b] EXCEPT !.cond = "long", !.reversed = TRUE, !.over = order[num + 1]]
    <2>1. /\ r.cond = "long" /\ r.jump = code[b].jump
          /\ r.body = code[b].body /\ r.real = code[b].real
      <3>1. code[b] \in MachineBasicBlock(Blocks)
        BY <1>1, BlockFields DEF TypeInv
      <3> QED
        BY <3>1 DEF MachineBasicBlock
    <2>2. code' = [code EXCEPT ![b] = r] /\ code[b].cond = "JCC"
      BY <1>3 DEF ExpandCond, LongBranch
    <2> HIDE DEF r, b
    <2>3. /\ Len(code') = Len(code)
          /\ \A i \in Blocks : code'[i] = IF i = b THEN r ELSE code[i]
      BY <1>1, <1>2, <2>2 DEF Blocks
    <2>4. ASSUME NEW i \in Blocks
          PROVE  /\ Size(i)' = Size(i) + IF i = b THEN 2 ELSE 0
                 /\ code'[i].body = code[i].body /\ code'[i].real = code[i].real
      <3>1. code[i].body \in Nat /\ JumpSize(i) \in 0..2 /\ CondSize(i) \in 0..3
        BY BlockFields DEF TypeInv
      <3>2. /\ code'[i].body = code[i].body /\ code'[i].real = code[i].real
            /\ code'[i].jump = code[i].jump
            /\ code'[i].cond = IF i = b THEN "long" ELSE code[i].cond
        BY <2>1, <2>3
      <3>3. JumpSize(i)' = JumpSize(i)
        BY <3>2 DEF JumpSize
      <3>4. CondSize(i)' = CondSize(i) + IF i = b THEN 2 ELSE 0
        <4>1. CASE i = b
          BY <2>2, <3>2, <4>1 DEF CondSize
        <4>2. CASE i # b
          <5>1. CondSize(i)' = CondSize(i)
            BY <3>2, <4>2 DEF CondSize
          <5> QED
            BY <3>1, <4>2, <5>1
        <4> QED
          BY <4>1, <4>2
      <3> QED
        BY <3>1, <3>2, <3>3, <3>4 DEF Size
    <2>5. \A i \in Blocks : BlockOffsets'[i] = BlockOffsets[i] + IF i > num THEN 2 ELSE 0
      BY <1>2, <1>3 DEF ExpandCond, Grow, Blocks
    <2> QED
      BY <1>1, <1>3, <2>3, <2>4, <2>5 DEF ExpandCond, Scanning, Blocks, b
  <1>4. CASE ExpandJump
    <2> DEFINE r == [code[b] EXCEPT !.jump = "Bi"]
    <2>1. /\ r.jump = "Bi" /\ r.cond = code[b].cond
          /\ r.body = code[b].body /\ r.real = code[b].real
      <3>1. code[b] \in MachineBasicBlock(Blocks)
        BY <1>1, BlockFields DEF TypeInv
      <3> QED
        BY <3>1 DEF MachineBasicBlock
    <2>2. code' = [code EXCEPT ![b] = r] /\ code[b].jump = "JMP"
      BY <1>4 DEF ExpandJump
    <2> HIDE DEF r, b
    <2>3. /\ Len(code') = Len(code)
          /\ \A i \in Blocks : code'[i] = IF i = b THEN r ELSE code[i]
      BY <1>1, <1>2, <2>2 DEF Blocks
    <2>4. ASSUME NEW i \in Blocks
          PROVE  /\ Size(i)' = Size(i) + IF i = b THEN 1 ELSE 0
                 /\ code'[i].body = code[i].body /\ code'[i].real = code[i].real
      <3>1. code[i].body \in Nat /\ JumpSize(i) \in 0..2 /\ CondSize(i) \in 0..3
        BY BlockFields DEF TypeInv
      <3>2. /\ code'[i].body = code[i].body /\ code'[i].real = code[i].real
            /\ code'[i].cond = code[i].cond
            /\ code'[i].jump = IF i = b THEN "Bi" ELSE code[i].jump
        BY <2>1, <2>3
      <3>3. CondSize(i)' = CondSize(i)
        BY <3>2 DEF CondSize
      <3>4. JumpSize(i)' = JumpSize(i) + IF i = b THEN 1 ELSE 0
        <4>1. CASE i = b
          BY <2>2, <3>2, <4>1 DEF JumpSize
        <4>2. CASE i # b
          <5>1. JumpSize(i)' = JumpSize(i)
            BY <3>2, <4>2 DEF JumpSize
          <5> QED
            BY <3>1, <4>2, <5>1
        <4> QED
          BY <4>1, <4>2
      <3> QED
        BY <3>1, <3>2, <3>3, <3>4 DEF Size
    <2>5. \A i \in Blocks : BlockOffsets'[i] = BlockOffsets[i] + IF i > num THEN 1 ELSE 0
      BY <1>2, <1>4 DEF ExpandJump, Grow, Blocks
    <2> QED
      BY <1>1, <1>4, <2>3, <2>4, <2>5 DEF ExpandJump, Scanning, Blocks, b
  <1> QED
    BY <1>3, <1>4

\* A split leaves the blocks before it in place.
LEMMA SplitSizes ==
    ASSUME TypeInv, SplitBlock
    PROVE  /\ \A i \in 1..num - 1 : /\ i \in Blocks /\ order'[i] = order[i]
                                   /\ Size(order[i])' = Size(order[i])
           /\ RealWithin => RealWithin'
  <1> DEFINE b == order[num]
             New == Len(code) + 1
  <1>1. /\ num \in Blocks /\ b \in Blocks /\ Len(code) \in Nat /\ Blocks' = Blocks \cup {New}
        /\ \A i \in Blocks : code'[i] =
               IF i = b THEN [code[b] EXCEPT !.jump = "none"] ELSE code[i]
        /\ code'[New] = [code[b] EXCEPT !.body = 0, !.real = 0, !.cond = "none"]
        /\ \A i \in 1..New : order'[i] =
               IF i <= num THEN order[i] ELSE IF i = num + 1 THEN New ELSE order[i - 1]
    <2>1. Len(code) \in Nat /\ Len(code') = New
      BY SplitEffect
    <2>2. Blocks' = Blocks \cup {New}
      BY <2>1 DEF Blocks
    <2> QED
      BY <2>1, <2>2, SplitEffect
  <1>2. ASSUME NEW i \in 1..num - 1
        PROVE  /\ i \in Blocks /\ order'[i] = order[i]
               /\ Size(order[i])' = Size(order[i])
    <2>1. i \in Blocks /\ i # num /\ order'[i] = order[i]
      BY <1>1 DEF Blocks
    <2>2. order[i] \in Blocks /\ order[i] # b
      BY <1>1, <2>1, Numbering DEF NumberIsInverse, TypeInv, TypeOK
    <2>3. code'[order'[i]] = code[order[i]]
      BY <1>1, <2>1, <2>2
    <2> QED
      BY <2>1, <2>3 DEF Size, CondSize, JumpSize
  <1>3. ASSUME RealWithin PROVE RealWithin'
    <2>1. code[b] \in MachineBasicBlock(Blocks)
      BY <1>1, BlockFields DEF TypeInv
    <2>2. code'[New].real = 0 /\ code'[New].body = 0
      BY <1>1, <2>1 DEF MachineBasicBlock
    <2>3. \A i \in Blocks : code'[i].real = code[i].real /\ code'[i].body = code[i].body
      BY <1>1, <2>1 DEF MachineBasicBlock
    <2>4. \A i \in Blocks' : i \in Blocks \/ i = New
      BY <1>1
    <2>5. ASSUME NEW i \in Blocks' PROVE code'[i].real <= code'[i].body
      BY <1>3, <2>2, <2>3, <2>4 DEF RealWithin
    <2> QED
      BY <2>5 DEF RealWithin
  <1> QED
    BY <1>2, <1>3

LEMMA StepOffsetsApart == ReachInv /\ [Next]_vars => OffsetsApart'
  <1> SUFFICES ASSUME ReachInv, [Next]_vars PROVE OffsetsApart'
    OBVIOUS
  <1> USE DEF ReachInv
  <1>0. /\ Len(code) \in Nat /\ Len(order) = Len(code) /\ num \in 1..Len(code) + 1
        /\ Len(BlockOffsets) = Len(code) /\ BlockOffsets \in Seq(Nat) /\ TotalSize \in Nat
        /\ phase \in {"measure", "remeasure", "scan", "assemble"}
    BY DEF TypeInv, TypeOK
  <1>01. \A i \in Blocks : order[i] \in Blocks /\ Size(order[i]) \in Nat
    BY Numbering, BlockFields DEF NumberIsInverse, TypeInv
  <1>1. CASE MeasureBlock
    <2>1. /\ Measured = num - 1 /\ Measured' = num /\ num \in Blocks
          /\ phase \in {"measure", "remeasure"} /\ phase' = phase
      BY <1>1, <1>0 DEF MeasureBlock, Measured, Blocks
    <2>2. \A i \in Blocks : Size(order[i])' = Size(order[i])
      BY <1>1 DEF MeasureBlock, Size, CondSize, JumpSize
    <2>3. /\ BlockOffsets'[num] = TotalSize
          /\ \A i \in 1..num - 1 : i \in Blocks /\ BlockOffsets'[i] = BlockOffsets[i]
          /\ TotalSize' = TotalSize + Size(order[num]) /\ order' = order
      BY <1>1, <1>0, <2>1 DEF MeasureBlock, Blocks
    <2>4. \A i \in 1..num - 1 : BlockOffsets[i] \in Nat
      BY <1>0, <2>1 DEF Blocks
    <2>5. ASSUME NEW i \in 1..num
          PROVE  BlockOffsets'[i] + Size(order[i])' <= TotalSize'
      <3>1. i \in Blocks /\ Size(order[i])' = Size(order[i]) /\ Size(order[i]) \in Nat
        BY <1>0, <1>01, <2>1, <2>2 DEF Blocks
      <3>2. CASE i = num
        BY <1>0, <2>3, <3>1, <3>2
      <3>3. CASE i # num
        <4>1. i \in 1..num - 1
          BY <1>0, <3>3
        <4>2. BlockOffsets[i] + Size(order[i]) <= TotalSize
          BY <2>1, <4>1 DEF OffsetsApart
        <4>3. Size(order[num]) \in Nat
          BY <1>01, <2>1
        <4> QED
          BY <1>0, <2>3, <2>4, <3>1, <4>1, <4>2, <4>3
      <3> QED
        BY <3>2, <3>3
    <2>6. ASSUME NEW i \in 1..num, NEW j \in 1..num, i < j
          PROVE  BlockOffsets'[i] + Size(order[i])' <= BlockOffsets'[j]
      <3>1. i \in 1..num - 1
        BY <1>0, <2>6
      <3>2. /\ Size(order[i])' = Size(order[i]) /\ BlockOffsets'[i] = BlockOffsets[i]
            /\ BlockOffsets[i] + Size(order[i]) <= TotalSize
        BY <2>1, <2>2, <2>3, <3>1 DEF OffsetsApart
      <3>3. CASE j = num
        BY <2>3, <3>2, <3>3
      <3>4. CASE j # num
        <4>1. j \in 1..num - 1
          BY <1>0, <3>4
        <4> QED
          BY <2>1, <2>3, <2>6, <3>1, <3>2, <4>1 DEF OffsetsApart
      <3> QED
        BY <3>3, <3>4
    <2> QED
      BY <2>1, <2>5, <2>6 DEF OffsetsApart
  <1>2. CASE SplitBlock
    <2>1. /\ Measured = Len(order) /\ Measured' = num - 1 /\ num \in Blocks
          /\ TotalSize' = BlockOffsets[num] /\ phase' = "remeasure"
          /\ BlockOffsets' = Append(BlockOffsets, 0)
      BY <1>2, <1>0 DEF SplitBlock, ResizedOffsets, Scanning, Measured, Blocks
    <2>2. \A i \in 1..num - 1 : BlockOffsets'[i] = BlockOffsets[i]
      BY <1>0, <2>1 DEF Blocks
    <2>3. \A i \in 1..num - 1 : /\ i \in Blocks /\ order'[i] = order[i]
                               /\ Size(order[i])' = Size(order[i])
      BY <1>2, SplitSizes
    <2> QED
      BY <1>0, <2>1, <2>2, <2>3 DEF OffsetsApart, Blocks
  <1>3. CASE ExpandCond \/ ExpandJump
    <2>1. PICK diff \in {1, 2} :
              /\ num \in Blocks /\ order[num] \in Blocks /\ Blocks' = Blocks
              /\ order' = order /\ addr' = addr /\ phase = "scan" /\ phase' = "scan"
              /\ MadeChange'
              /\ \A b \in Blocks :
                    /\ Size(b)' = Size(b) + IF b = order[num] THEN diff ELSE 0
                    /\ code'[b].body = code[b].body /\ code'[b].real = code[b].real
              /\ \A i \in Blocks :
                    BlockOffsets'[i] = BlockOffsets[i] + IF i > num THEN diff ELSE 0
      BY <1>3, ExpandEffect
    <2>2. Measured = Len(order) /\ Measured' = Len(order)
      BY <2>1 DEF Measured
    <2>3. \A i \in Blocks : Size(order[i])' = Size(order[i]) + IF i = num THEN diff ELSE 0
      <3> TAKE i \in Blocks
      <3>1. PICK b \in Blocks : b = order[i]
        BY <1>01
      <3>2. Size(b)' = Size(b) + IF b = order[num] THEN diff ELSE 0
        BY <2>1
      <3>3. Size(order[i])' = Size(b)'
        BY <2>1, <3>1 DEF Size, CondSize, JumpSize
      <3>4. b = order[num] <=> i = num
        BY <2>1, <3>1 DEF TypeInv, TypeOK
      <3> QED
        BY <3>1, <3>2, <3>3, <3>4
    <2>4. \A i \in Blocks : BlockOffsets[i] \in Nat
      BY <1>0 DEF Blocks
    <2>5. \A i, j \in Blocks :
              i < j => BlockOffsets[i] + Size(order[i]) <= BlockOffsets[j]
      BY <1>0, <2>2 DEF OffsetsApart, Blocks
    <2>6. ASSUME NEW i \in Blocks, NEW j \in Blocks, i < j
          PROVE  BlockOffsets'[i] + Size(order[i])' <= BlockOffsets'[j]
      <3>1. Size(order[i])' = Size(order[i]) + IF i = num THEN diff ELSE 0
        BY <2>3
      <3>2. /\ BlockOffsets'[i] = BlockOffsets[i] + IF i > num THEN diff ELSE 0
            /\ BlockOffsets'[j] = BlockOffsets[j] + IF j > num THEN diff ELSE 0
        BY <2>1
      <3>3. BlockOffsets[i] + Size(order[i]) <= BlockOffsets[j]
        BY <2>5, <2>6
      <3>4. /\ BlockOffsets[i] \in Nat /\ BlockOffsets[j] \in Nat /\ Size(order[i]) \in Nat
            /\ i \in Nat /\ j \in Nat /\ num \in Nat /\ diff \in Nat
        BY <1>0, <1>01, <2>4 DEF Blocks
      <3> QED
        BY <2>6, <3>1, <3>2, <3>3, <3>4
    <2> QED
      BY <1>0, <2>1, <2>2, <2>6 DEF OffsetsApart, Blocks
  <1>4. CASE EndMeasure \/ EndRemeasure \/ EndScan
    <2>1. /\ Measured = Len(order) /\ Measured' = Len(order)
          /\ phase' \in {"scan", "assemble"}
      BY <1>4, <1>0 DEF EndMeasure, EndRemeasure, EndScan, StartScan, Measured
    <2>2. /\ order' = order /\ code' = code /\ BlockOffsets' = BlockOffsets
      BY <1>4 DEF EndMeasure, EndRemeasure, EndScan
    <2> QED
      BY <1>0, <2>1, <2>2 DEF OffsetsApart, Size, CondSize, JumpSize
  <1>5. CASE SkipCond \/ SkipJump \/ PlaceBlock \/ UNCHANGED vars
    <2>1. /\ order' = order /\ code' = code /\ BlockOffsets' = BlockOffsets
          /\ phase' = phase /\ TotalSize' = TotalSize
      BY <1>5 DEF SkipCond, SkipJump, PlaceBlock, vars
    <2>2. Measured' = Measured
      BY <1>5 DEF SkipCond, SkipJump, PlaceBlock, vars, Scanning, Measured
    <2> QED
      BY <2>1, <2>2 DEF OffsetsApart, Size, CondSize, JumpSize
  <1> QED
    BY <1>1, <1>2, <1>3, <1>4, <1>5 DEF Next

\* Two places in a function shorter than Reach are less than Reach apart.
LEMMA SmallFunction ==
    ASSUME NEW x \in Nat, NEW y \in Nat, NEW p \in Nat, NEW sx \in Nat, NEW sy \in Nat,
           x + sx <= TotalSize, y + sy <= TotalSize, p <= sy,
           TotalSize \in Nat, TotalSize < Reach, Reach \in Nat
    PROVE  InRange(x - y - p)
  BY DEF InRange

LEMMA StepScannedReaches == ReachInv /\ [Next]_vars => ScannedReaches'
  <1> SUFFICES ASSUME ReachInv, [Next]_vars PROVE ScannedReaches'
    OBVIOUS
  <1> USE DEF ReachInv
  <1>0. /\ Len(code) \in Nat /\ Len(order) = Len(code) /\ num \in 1..Len(code) + 1
        /\ Len(BlockOffsets) = Len(code) /\ BlockOffsets \in Seq(Nat) /\ TotalSize \in Nat
        /\ phase \in {"measure", "remeasure", "scan", "assemble"}
    BY DEF TypeInv, TypeOK
  <1>1. CASE phase' \notin {"scan", "assemble"}
    BY <1>1 DEF ScannedReaches
  <1>2. CASE ExpandCond \/ ExpandJump
    <2>1. phase' = "scan" /\ MadeChange'
      BY <1>2 DEF ExpandCond, ExpandJump, Scanning
    <2> QED
      BY <2>1 DEF ScannedReaches
  <1>3. CASE phase' = "scan" /\ num' = 1 /\ mi' = "cond"
    BY <1>3 DEF ScannedReaches
  <1>4. ASSUME UNCHANGED <<code, order, BlockOffsets>>
        PROVE  /\ Blocks' = Blocks
               /\ \A b : CondReaches(b) = CondReaches(b)' /\ JumpReaches(b) = JumpReaches(b)'
    BY <1>4 DEF Blocks, CondReaches, JumpReaches, CondDistance, JumpDistance, JCCTarget,
                CondSize, Number, InRange
  <1>5. CASE EndMeasure /\ InRange(TotalSize)
    <2>1. Measured = Len(order)
      BY <1>5, <1>0 DEF EndMeasure, Measured
    <2>2. ASSUME NEW b \in Blocks PROVE CondReaches(b) /\ JumpReaches(b)
      <3>1. /\ code[b].body \in Nat /\ CondSize(b) \in 0..3 /\ JumpSize(b) \in 0..2
            /\ JCCTarget(b) \in Blocks /\ code[b].jumpTo \in Blocks
            /\ code[b].cond \in {"none", "JCC", "long"}
        BY BlockFields DEF TypeInv
      <3>2. code[b].cond # "none" => CondSize(b) >= 1
        BY <3>1 DEF CondSize
      <3>3. code[b].jump = "JMP" => JumpSize(b) = 1
        BY DEF JumpSize
      <3>4. \A i \in Blocks : /\ BlockOffsets[i] \in Nat /\ order[i] \in Blocks
                             /\ BlockOffsets[i] + Size(order[i]) <= TotalSize
        <4>1. \A i \in Blocks : BlockOffsets[i] + Size(order[i]) <= TotalSize
          BY <1>0, <1>5, <2>1 DEF EndMeasure, OffsetsApart, Blocks
        <4>2. \A i \in Blocks : BlockOffsets[i] \in Nat
          BY <1>0 DEF Blocks
        <4> QED
          BY <4>1, <4>2, Numbering DEF NumberIsInverse, TypeInv
      <3>5. ASSUME NEW t \in Blocks
            PROVE  /\ BlockOffsets[Number(t)] \in Nat
                   /\ BlockOffsets[Number(t)] + Size(t) <= TotalSize /\ Size(t) \in Nat
        BY <3>4, Numbering, BlockFields DEF NumberIsInverse, TypeInv
      <3>6. TotalSize < Reach /\ Reach \in Nat
        BY <1>5, ReachAssumption DEF InRange
      <3>7. CondReaches(b)
        <4> SUFFICES ASSUME code[b].cond # "none" PROVE InRange(CondDistance(b))
          BY DEF CondReaches
        <4>1. code[b].body + 1 <= Size(b)
          BY <3>1, <3>2 DEF Size
        <4>2. /\ BlockOffsets[Number(JCCTarget(b))] \in Nat
              /\ BlockOffsets[Number(JCCTarget(b))] + Size(JCCTarget(b)) <= TotalSize
              /\ Size(JCCTarget(b)) \in Nat
          BY <3>1, <3>5
        <4>3. /\ BlockOffsets[Number(b)] \in Nat
              /\ BlockOffsets[Number(b)] + Size(b) <= TotalSize /\ Size(b) \in Nat
          BY <3>5
        <4>4. code[b].body + 1 \in Nat
          BY <3>1
        <4>5. InRange(BlockOffsets[Number(JCCTarget(b))] - BlockOffsets[Number(b)] - (code[b].body + 1))
          BY <1>0, <3>6, <4>1, <4>2, <4>3, <4>4, SmallFunction
        <4> QED
          BY <4>5 DEF CondDistance
      <3>8. JumpReaches(b)
        <4> SUFFICES ASSUME code[b].jump = "JMP" PROVE InRange(JumpDistance(b))
          BY DEF JumpReaches
        <4>1. code[b].body + CondSize(b) + 1 <= Size(b)
          BY <3>1, <3>3 DEF Size
        <4>2. /\ BlockOffsets[Number(code[b].jumpTo)] \in Nat
              /\ BlockOffsets[Number(code[b].jumpTo)] + Size(code[b].jumpTo) <= TotalSize
              /\ Size(code[b].jumpTo) \in Nat
          BY <3>1, <3>5
        <4>3. /\ BlockOffsets[Number(b)] \in Nat
              /\ BlockOffsets[Number(b)] + Size(b) <= TotalSize /\ Size(b) \in Nat
          BY <3>5
        <4>4. code[b].body + CondSize(b) + 1 \in Nat
          BY <3>1
        <4>5. InRange(BlockOffsets[Number(code[b].jumpTo)] - BlockOffsets[Number(b)] - (code[b].body + CondSize(b) + 1))
          BY <1>0, <3>6, <4>1, <4>2, <4>3, <4>4, SmallFunction
        <4> QED
          BY <4>5 DEF JumpDistance
      <3> QED
        BY <3>7, <3>8
    <2>3. UNCHANGED <<code, order, BlockOffsets>> /\ phase' = "assemble"
      BY <1>5 DEF EndMeasure, StartScan
    <2> QED
      BY <1>4, <2>2, <2>3 DEF ScannedReaches
  <1>6. CASE SkipCond
    <2>1. num \in Blocks /\ order[num] \in Blocks
      BY <1>6, Current DEF SkipCond, Scanning, TypeInv
    <2>2. CondReaches(order[num])
      BY <1>6 DEF SkipCond, CondReaches
    <2>3. /\ UNCHANGED <<code, order, BlockOffsets, num, MadeChange>>
          /\ phase' = "scan" /\ phase = "scan"
      BY <1>6 DEF SkipCond, Scanning
    <2> QED
      BY <1>4, <2>2, <2>3 DEF ScannedReaches
  <1>7. CASE SkipJump
    <2>1. /\ UNCHANGED <<code, order, BlockOffsets, MadeChange>>
          /\ phase' = "scan" /\ phase = "scan" /\ mi' = "cond" /\ num' = num + 1
          /\ num <= Len(order) /\ mi = "jump"
      BY <1>7 DEF SkipJump, Scanning, NextBlock
    <2>2. JumpReaches(order[num])
      BY <1>7 DEF SkipJump, JumpReaches
    <2>3. ASSUME ~MadeChange, NEW i \in 1..num
          PROVE  CondReaches(order[i]) /\ JumpReaches(order[i])
      <3>1. i = num \/ i \in 1..num - 1
        BY <1>0
      <3> QED
        BY <2>1, <2>2, <2>3, <3>1 DEF ScannedReaches
    <2> QED
      BY <1>0, <1>4, <2>1, <2>3 DEF ScannedReaches
  <1>8. CASE EndScan /\ ~MadeChange
    <2>1. /\ UNCHANGED <<code, order, BlockOffsets>>
          /\ phase = "scan" /\ phase' = "assemble" /\ num = Len(code) + 1
      BY <1>8, <1>0 DEF EndScan
    <2>2. \A i \in Blocks : CondReaches(order[i]) /\ JumpReaches(order[i])
      BY <1>0, <1>8, <2>1 DEF ScannedReaches, Blocks
    <2>3. \A b \in Blocks : CondReaches(b) /\ JumpReaches(b)
      BY <2>2, Numbering DEF NumberIsInverse, TypeInv
    <2> QED
      BY <1>4, <2>1, <2>3 DEF ScannedReaches
  <1>9. CASE PlaceBlock \/ UNCHANGED vars
    <2>1. UNCHANGED <<code, order, BlockOffsets, phase, num, mi, MadeChange>>
      BY <1>9 DEF PlaceBlock, vars
    <2> QED
      BY <1>4, <2>1 DEF ScannedReaches
  <1> QED
    BY <1>1, <1>2, <1>3, <1>5, <1>6, <1>7, <1>8, <1>9
       DEF Next, MeasureBlock, SplitBlock, EndMeasure, EndRemeasure, EndScan, StartScan

\* Placing one more block after the last keeps gaps within the measured ones.
LEMMA OneMore ==
    ASSUME NEW ai \in Nat, NEW an \in Nat, NEW oi \in Nat, NEW on \in Nat, NEW oj \in Nat,
           NEW ri \in Nat, NEW rn \in Nat, NEW si \in Nat, NEW sn \in Nat,
           rn <= sn, on + sn <= oj,
           0 <= an - (ai + ri), an - (ai + ri) <= on - (oi + si)
    PROVE  /\ 0 <= (an + rn) - (ai + ri)
           /\ (an + rn) - (ai + ri) <= oj - (oi + si)
  OBVIOUS

LEMMA StepPlacedWithin == ReachInv /\ [Next]_vars => PlacedWithin'
  <1> SUFFICES ASSUME ReachInv, [Next]_vars PROVE PlacedWithin'
    OBVIOUS
  <1> USE DEF ReachInv
  <1>1. CASE PlaceBlock
    <2> DEFINE n == Len(addr)
               gap(i, j) == addr[j] - (addr[i] + RealSize(order[i]))
               room(i, j) == BlockOffsets[j] - (BlockOffsets[i] + Size(order[i]))
    <2>1. /\ n \in Nat /\ n < Len(order) /\ Len(order) = Len(code) /\ Len(code) \in Nat
          /\ addr \in Seq(Nat) /\ BlockOffsets \in Seq(Nat) /\ Len(BlockOffsets) = Len(code)
          /\ phase = "assemble" /\ Measured = Len(order)
      BY <1>1 DEF PlaceBlock, TypeInv, TypeOK, Measured
    <2>2. ASSUME NEW i \in Blocks
          PROVE  /\ Size(order[i]) \in Nat /\ RealSize(order[i]) \in Nat
                 /\ RealSize(order[i]) <= Size(order[i]) /\ BlockOffsets[i] \in Nat
      <3>1. order[i] \in Blocks
        BY Numbering DEF NumberIsInverse, TypeInv
      <3>2. BlockOffsets[i] \in Nat
        BY <2>1 DEF Blocks
      <3>3. /\ code[order[i]].body \in Nat /\ code[order[i]].real \in Nat
            /\ code[order[i]].real <= code[order[i]].body
            /\ CondSize(order[i]) \in 0..3 /\ JumpSize(order[i]) \in 0..2
        BY <3>1, BlockFields DEF TypeInv, RealWithin
      <3> QED
        BY <3>2, <3>3 DEF Size, RealSize
    <2>3. /\ UNCHANGED <<code, order, BlockOffsets, phase>>
          /\ addr' = Append(addr, IF addr = <<>> THEN 0
                                  ELSE addr[Len(addr)] + RealSize(order[Len(addr)]))
      BY <1>1 DEF PlaceBlock
    <2>4. /\ Len(addr') = n + 1
          /\ \A i \in 1..n : addr'[i] = addr[i] /\ addr[i] \in Nat
          /\ n # 0 => addr'[n + 1] = addr[n] + RealSize(order[n])
      BY <2>1, <2>3
    <2>5. \A i \in Blocks : RealSize(order[i])' = RealSize(order[i]) /\ Size(order[i])' = Size(order[i])
      BY <2>3 DEF RealSize, Size, CondSize, JumpSize
    <2>6. ASSUME NEW i \in 1..n + 1, NEW j \in 1..n + 1, i < j
          PROVE  LET g == addr'[j] - (addr'[i] + RealSize(order[i]))
                 IN  0 <= g /\ g <= room(i, j)
      <3>1. CASE j <= n
        <4>1. i \in 1..n /\ j \in 1..n
          BY <2>1, <2>6, <3>1
        <4> QED
          BY <2>4, <2>6, <4>1 DEF PlacedWithin
      <3>2. CASE j = n + 1
        <4>1. n # 0 /\ n \in 1..n /\ i \in 1..n /\ j = n + 1
          BY <2>1, <2>6, <3>2
        <4>2. n \in Blocks /\ i \in Blocks /\ j \in Blocks
          BY <2>1, <4>1 DEF Blocks
        <4>3. BlockOffsets[n] + Size(order[n]) <= BlockOffsets[j]
          BY <2>1, <4>1, <4>2 DEF OffsetsApart, Blocks
        <4>4. /\ addr'[i] = addr[i] /\ addr'[j] = addr[n] + RealSize(order[n])
              /\ addr[i] \in Nat /\ addr[n] \in Nat
          BY <2>4, <4>1
        <4>5. CASE i = n
          <5>1. /\ Size(order[n]) \in Nat /\ RealSize(order[n]) \in Nat
                /\ BlockOffsets[n] \in Nat /\ BlockOffsets[j] \in Nat
            BY <2>2, <4>2
          <5>2. /\ addr'[j] - (addr'[i] + RealSize(order[i])) = 0
                /\ room(i, j) >= 0
            BY <4>3, <4>4, <4>5, <5>1
          <5> QED
            BY <4>3, <4>5, <5>1, <5>2
        <4>6. CASE i < n
          <5>1. 0 <= gap(i, n) /\ gap(i, n) <= room(i, n)
            BY <4>1, <4>6 DEF PlacedWithin
          <5>2. /\ Size(order[n]) \in Nat /\ RealSize(order[n]) \in Nat
                /\ RealSize(order[n]) <= Size(order[n])
                /\ Size(order[i]) \in Nat /\ RealSize(order[i]) \in Nat
                /\ BlockOffsets[n] \in Nat /\ BlockOffsets[i] \in Nat /\ BlockOffsets[j] \in Nat
            BY <2>2, <4>2
          <5>3. LET g == (addr[n] + RealSize(order[n])) - (addr[i] + RealSize(order[i]))
                IN  0 <= g /\ g <= room(i, j)
            BY <4>3, <4>4, <5>1, <5>2, OneMore
          <5> QED
            BY <4>4, <5>3
        <4> QED
          BY <4>1, <4>5, <4>6
      <3>3. j <= n \/ j = n + 1
        BY <2>1
      <3> QED
        BY <3>1, <3>2, <3>3, Zenon
    <2>7. \A i \in 1..n + 1 : i \in Blocks
      BY <2>1 DEF Blocks
    <2>8. ASSUME NEW i \in 1..n + 1, NEW j \in 1..n + 1, i < j
          PROVE  LET g == addr'[j] - (addr'[i] + RealSize(order[i])')
                 IN  0 <= g /\ g <= BlockOffsets'[j] - (BlockOffsets'[i] + Size(order[i])')
      <3>1. RealSize(order[i])' = RealSize(order[i]) /\ Size(order[i])' = Size(order[i])
        BY <2>5, <2>7
      <3>2. BlockOffsets' = BlockOffsets
        BY <2>3
      <3> QED
        BY <2>6, <2>8, <3>1, <3>2
    <2>9. /\ phase' = "assemble" /\ 1..Len(addr') = 1..n + 1
      BY <2>1, <2>3, <2>4
    <2> HIDE DEF n
    <2> QED
      BY <2>8, <2>9 DEF PlacedWithin
  <1>2. CASE phase' # "assemble" /\ addr' = <<>>
    BY <1>2 DEF PlacedWithin
  <1>3. CASE EndMeasure \/ EndScan
    <2>1. addr = <<>> /\ addr' = <<>>
      BY <1>3 DEF EndMeasure, EndScan, PlacedWithin
    <2> QED
      BY <2>1 DEF PlacedWithin
  <1>4. CASE UNCHANGED vars
    <2>1. \A i : RealSize(order[i])' = RealSize(order[i]) /\ Size(order[i])' = Size(order[i])
      BY <1>4 DEF vars, RealSize, Size, CondSize, JumpSize
    <2>2. UNCHANGED <<phase, addr, BlockOffsets>>
      BY <1>4 DEF vars
    <2> QED
      BY <2>1, <2>2 DEF PlacedWithin
  <1>5. CASE MeasureBlock \/ EndRemeasure \/ SkipCond \/ SplitBlock \/ ExpandCond
             \/ SkipJump \/ ExpandJump
    <2>1. phase # "assemble" /\ phase' # "assemble" /\ addr' = addr
      BY <1>5 DEF MeasureBlock, EndRemeasure, SkipCond, SplitBlock, ExpandCond, SkipJump,
                  ExpandJump, StartScan, Scanning
    <2> QED
      BY <1>2, <2>1 DEF PlacedWithin
  <1> QED
    BY <1>1, <1>3, <1>4, <1>5 DEF Next

LEMMA StepRealWithin == ReachInv /\ [Next]_vars => RealWithin'
  <1> SUFFICES ASSUME ReachInv, [Next]_vars PROVE RealWithin'
    OBVIOUS
  <1> USE DEF ReachInv
  <1>1. CASE SplitBlock
    BY <1>1, SplitSizes
  <1>2. CASE ExpandCond \/ ExpandJump
    <2>1. Blocks' = Blocks /\ \A b \in Blocks : /\ code'[b].body = code[b].body
                                              /\ code'[b].real = code[b].real
      BY <1>2, ExpandEffect
    <2> QED
      BY <2>1 DEF RealWithin
  <1>3. CASE code' = code
    BY <1>3 DEF RealWithin, Blocks
  <1> QED
    BY <1>1, <1>2, <1>3 DEF Next, MeasureBlock, EndMeasure, EndRemeasure, SkipCond, SkipJump,
                            EndScan, PlaceBlock, vars

\* The arithmetic of shrinking, forward and backward: x and X are how far the
\* end of the branch is from the start of its block, as placed and as
\* measured, and rest is what follows it there.
LEMMA ShrinksForward ==
    ASSUME NEW ai \in Nat, NEW aj \in Nat, NEW oi \in Nat, NEW oj \in Nat,
           NEW x \in Nat, NEW X \in Nat, NEW rest \in Nat,
           0 <= aj - (ai + (x + rest)),
           aj - (ai + (x + rest)) <= oj - (oi + (X + rest)),
           InRange(oj - oi - X)
    PROVE  InRange(aj - ai - x)
  BY ReachAssumption DEF InRange

LEMMA ShrinksBackward ==
    ASSUME NEW ai \in Nat, NEW aj \in Nat, NEW oi \in Nat, NEW oj \in Nat,
           NEW x \in Nat, NEW X \in Nat, NEW r \in Nat, NEW s \in Nat, x <= X, r <= s,
           0 <= ai - (aj + r), ai - (aj + r) <= oi - (oj + s),
           InRange(oj - oi - X)
    PROVE  InRange(aj - ai - x)
  BY ReachAssumption DEF InRange

\* A branch of b to t that is in range as measured is in range as placed.
LEMMA Shrinks ==
    ASSUME TypeInv, RealWithin, PlacedWithin, OffsetsApart, Assembled,
           NEW b \in Blocks, NEW t \in Blocks, NEW before \in Nat,
           before + 1 <= CondSize(b) + JumpSize(b),
           InRange(BlockOffsets[Number(t)] - BlockOffsets[Number(b)]
                      - (code[b].body + before + 1))
    PROVE  InRange(Displacement(b, t, before))
  <1> DEFINE i == Number(b)
             j == Number(t)
  <1>1. /\ i \in Blocks /\ j \in Blocks /\ order[i] = b /\ order[j] = t
    BY Numbering DEF NumberIsInverse, TypeInv
  <1>2. /\ Len(addr) = Len(code) /\ Len(code) \in Nat /\ Len(BlockOffsets) = Len(code)
        /\ addr \in Seq(Nat) /\ BlockOffsets \in Seq(Nat)
    BY DEF TypeInv, TypeOK, Assembled
  <1>3. /\ addr[i] \in Nat /\ addr[j] \in Nat
        /\ BlockOffsets[i] \in Nat /\ BlockOffsets[j] \in Nat
        /\ i \in 1..Len(addr) /\ j \in 1..Len(addr) /\ i \in Nat /\ j \in Nat
    <2>1. /\ i \in 1..Len(addr) /\ j \in 1..Len(addr)
          /\ i \in 1..Len(BlockOffsets) /\ j \in 1..Len(BlockOffsets)
      BY <1>1, <1>2 DEF Blocks
    <2>2. \A k \in 1..Len(addr) : addr[k] \in Nat /\ k \in Nat
      BY <1>2
    <2>3. \A k \in 1..Len(BlockOffsets) : BlockOffsets[k] \in Nat
      BY <1>2
    <2> HIDE DEF i, j
    <2> QED
      BY <2>1, <2>2, <2>3
  <1>4. ASSUME NEW c \in Blocks
        PROVE  /\ code[c].body \in Nat /\ code[c].real \in Nat
               /\ code[c].real <= code[c].body
               /\ CondSize(c) \in Nat /\ JumpSize(c) \in Nat
    BY BlockFields DEF TypeInv, RealWithin
  <1>5. Reach \in Nat
    BY ReachAssumption
  <1> DEFINE x == code[b].real + before + 1
             X == code[b].body + before + 1
             rest == CondSize(b) + JumpSize(b) - (before + 1)
  <1>6. /\ x \in Nat /\ X \in Nat /\ rest \in Nat /\ x <= X
        /\ RealSize(b) = x + rest /\ Size(b) = X + rest
    BY <1>4 DEF RealSize, Size
  <1>7. InRange(BlockOffsets[j] - BlockOffsets[i] - X)
    OBVIOUS
  <1>8. Displacement(b, t, before) = addr[j] - addr[i] - x
    BY DEF Displacement
  <1>9. i < j => LET gap == addr[j] - (addr[i] + RealSize(b))
                 IN  0 <= gap /\ gap <= BlockOffsets[j] - (BlockOffsets[i] + Size(b))
    BY <1>1, <1>3 DEF PlacedWithin
  <1>10. j < i => LET gap == addr[i] - (addr[j] + RealSize(t))
                  IN  0 <= gap /\ gap <= BlockOffsets[i] - (BlockOffsets[j] + Size(t))
    BY <1>1, <1>3 DEF PlacedWithin
  <1>11. RealSize(t) \in Nat /\ Size(t) \in Nat /\ RealSize(t) <= Size(t)
    BY <1>4 DEF RealSize, Size
  <1> HIDE DEF i, j, x, X, rest
  <1>12. CASE i < j
    <2>1. /\ 0 <= addr[j] - (addr[i] + (x + rest))
          /\ addr[j] - (addr[i] + (x + rest)) <= BlockOffsets[j] - (BlockOffsets[i] + (X + rest))
      BY <1>6, <1>9, <1>12
    <2>2. InRange(addr[j] - addr[i] - x)
      BY <1>3, <1>6, <1>7, <2>1, ShrinksForward
    <2> QED
      BY <1>8, <2>2
  <1>13. CASE j < i
    <2>1. /\ 0 <= addr[i] - (addr[j] + RealSize(t))
          /\ addr[i] - (addr[j] + RealSize(t)) <= BlockOffsets[i] - (BlockOffsets[j] + Size(t))
      BY <1>10, <1>13
    <2>2. InRange(addr[j] - addr[i] - x)
      BY <1>3, <1>6, <1>7, <1>11, <2>1, ShrinksBackward
    <2> QED
      BY <1>8, <2>2
  <1>14. CASE i = j
    <2>1. addr[i] - addr[j] = 0 /\ BlockOffsets[i] - BlockOffsets[j] = 0
      BY <1>3, <1>14
    <2>2. InRange(0 - X)
      BY <1>3, <1>6, <1>7, <1>14, <2>1
    <2>3. addr[j] - addr[i] - x = 0 - x
      BY <1>3, <1>6, <1>14, <2>1
    <2>4. InRange(0 - x)
      BY <1>5, <1>6, <2>2 DEF InRange
    <2> QED
      BY <1>8, <2>3, <2>4
  <1>15. i < j \/ j < i \/ i = j
    BY <1>3
  <1> QED
    BY <1>12, <1>13, <1>14, <1>15, Zenon

LEMMA InitReachInv == Init => ReachInv
  <1> SUFFICES ASSUME Init PROVE ReachInv
    OBVIOUS
  <1>1. WellFormed(fn) /\ code = fn /\ order = InputOrder
    BY FunctionsAssumption DEF Init
  <1>2. TypeInv
    BY <1>1, InitTypeOK DEF TypeInv, EndsInJump, WellFormed, InputOrder, Blocks
  <1>3. RealWithin
    BY <1>1 DEF RealWithin, WellFormed, Blocks
  <1>4. phase = "measure" /\ Measured = 0 /\ addr = <<>>
    BY DEF Init, Measured
  <1>5. OffsetsApart /\ ScannedReaches /\ PlacedWithin
    BY <1>4 DEF OffsetsApart, ScannedReaches, PlacedWithin
  <1> QED
    BY <1>2, <1>3, <1>5 DEF ReachInv

LEMMA StepReachInv == ReachInv /\ [Next]_vars => ReachInv'
  BY StepTypeInv, StepOffsetsApart, StepScannedReaches, StepPlacedWithin, StepRealWithin
     DEF ReachInv

\* Every branch the pass leaves short, and the JCC of every long sequence,
\* reaches its destination in the assembled function: for every range, every
\* number of blocks and sizes, however far expansions have pushed it since
\* it was looked at, and however short inline assembly turns out.
THEOREM BranchesReach == Spec => []ShortBranchesReach
  <1>1. ReachInv => ShortBranchesReach
    <2> SUFFICES ASSUME ReachInv, Assembled, NEW b \in Blocks
                 PROVE  /\ code[b].cond # "none" => InRange(Displacement(b, JCCTarget(b), 0))
                        /\ code[b].jump = "JMP" =>
                              InRange(Displacement(b, code[b].jumpTo, CondSize(b)))
      BY DEF ShortBranchesReach
    <2>1. CondReaches(b) /\ JumpReaches(b)
      BY DEF ReachInv, ScannedReaches, Assembled
    <2>2. /\ code[b].body \in Nat /\ CondSize(b) \in 0..3 /\ JumpSize(b) \in 0..2
          /\ JCCTarget(b) \in Blocks /\ code[b].jumpTo \in Blocks
          /\ code[b].cond \in {"none", "JCC", "long"}
      BY BlockFields DEF ReachInv, TypeInv
    <2>3. ASSUME code[b].cond # "none" PROVE InRange(Displacement(b, JCCTarget(b), 0))
      <3>1. CondSize(b) >= 1
        BY <2>2, <2>3 DEF CondSize
      <3>2. InRange(BlockOffsets[Number(JCCTarget(b))] - BlockOffsets[Number(b)]
                       - (code[b].body + 0 + 1))
        BY <2>1, <2>2, <2>3 DEF CondReaches, CondDistance
      <3> QED
        BY <2>2, <3>1, <3>2, Shrinks DEF ReachInv
    <2>4. ASSUME code[b].jump = "JMP"
          PROVE  InRange(Displacement(b, code[b].jumpTo, CondSize(b)))
      <3>1. JumpSize(b) = 1
        BY <2>4 DEF JumpSize
      <3>2. InRange(BlockOffsets[Number(code[b].jumpTo)] - BlockOffsets[Number(b)]
                       - (code[b].body + CondSize(b) + 1))
        BY <2>1, <2>4 DEF JumpReaches, JumpDistance
      <3> QED
        BY <2>2, <3>1, <3>2, Shrinks DEF ReachInv
    <2> QED
      BY <2>3, <2>4
  <1> QED
    BY <1>1, InitReachInv, StepReachInv, PTL DEF Spec

-----------------------------------------------------------------------------
\* Where control goes.  Every block keeps the targets of its branches, and
\* the pass is right if each still falls into the block it fell into, or
\* into a new block that jumps there.
\* The block control falls into from b.
Follower(b) == order[Number(b) + 1]

\* The branches of a block: they go to blocks of the input, a conditional one
\* can fall through, and a long one skips to where its block falls; a block
\* made by a split has a jump only.
Shape(b) ==
    /\ code[b].condTo \in 1..Len(fn) /\ code[b].jumpTo \in 1..Len(fn)
    /\ code[b].cond # "none" => code[b].jump # "RET"
    /\ code[b].cond = "JCC" /\ code[b].jump # "none" => code[b].condTo # code[b].jumpTo
    /\ code[b].cond = "long" => /\ code[b].jump = "none" /\ code[b].reversed = TRUE
                                /\ code[b].over = Follower(b)
    /\ b > Len(fn) => code[b].cond = "none" /\ code[b].jump \in {"JMP", "Bi"}

FlowShape == Len(fn) <= Len(code) /\ \A b \in Blocks : Shape(b)

\* A block of the input has the conditional branch it had, and what follows
\* it leads where it led.
SameBranches ==
    \A b \in 1..Len(fn) :
        /\ code[b].cond # "none" <=> fn[b].cond # "none"
        /\ code[b].condTo = fn[b].condTo
        /\ LET to == Rest(code, order, b)
           IN  Rest(fn, InputOrder, b) = IF to > Len(fn) THEN Rest(code, order, to) ELSE to

\* Both strengthen the other: SameBranches needs the shape of the block that a
\* split made, and the successors of a split block are told apart because
\* its two branches differ.
FlowInv == TypeInv /\ FlowShape /\ SameBranches /\ SuccessorsExact

\* Where a block goes after its conditional branch, if it does not fall through.
LEMMA RestCases ==
    ASSUME NEW f, NEW lay, NEW b
    PROVE  /\ f[b].jump \in {"JMP", "Bi"} => Rest(f, lay, b) = f[b].jumpTo
           /\ f[b].jump = "RET" => Rest(f, lay, b) = 0
  BY DEF Rest

\* A long branch goes where the JCC that it replaces did.
OutcomeIs ==
    \A b \in Blocks : \A c \in BOOLEAN :
        Outcome(code, order, b, c) =
            IF code[b].cond # "none" /\ c THEN code[b].condTo ELSE Rest(code, order, b)

LEMMA OutcomeCases == TypeOK /\ FlowShape => OutcomeIs
  <1> SUFFICES ASSUME TypeOK, FlowShape, NEW b \in Blocks, NEW c \in BOOLEAN
               PROVE  Outcome(code, order, b, c) =
                         IF code[b].cond # "none" /\ c THEN code[b].condTo
                         ELSE Rest(code, order, b)
    BY DEF OutcomeIs
  <1>1. CASE code[b].cond = "none"
    BY <1>1 DEF Outcome
  <1>2. CASE code[b].cond = "JCC"
    BY <1>2 DEF Outcome
  <1>3. CASE code[b].cond = "long"
    <2>1. code[b].jump = "none" /\ code[b].reversed = TRUE /\ code[b].over = Follower(b)
      BY <1>3 DEF FlowShape, Shape
    <2>2. Rest(code, order, b) = code[b].over
      BY <2>1 DEF Rest, Follower, Number
    <2>3. Outcome(code, order, b, c) =
             IF c # code[b].reversed THEN code[b].over ELSE code[b].condTo
      BY <1>3 DEF Outcome
    <2>4. CASE c = TRUE
      BY <1>3, <2>1, <2>3, <2>4, Zenon
    <2>5. CASE c = FALSE
      BY <1>3, <2>1, <2>2, <2>3, <2>5, Zenon
    <2> QED
      BY <2>4, <2>5
  <1> QED
    BY <1>1, <1>2, <1>3, BlockFields

LEMMA NextOutcome == TypeOK' /\ FlowShape' => OutcomeIs'
  BY OutcomeCases, PTL

\* A block that falls through is not the last one.
FallsThrough ==
    \A b \in Blocks : code[b].jump = "none" =>
        /\ Number(b) \in Blocks /\ Number(b) + 1 \in Blocks
        /\ Follower(b) \in Blocks /\ Rest(code, order, b) = Follower(b)

LEMMA Falling == TypeInv => FallsThrough
  <1> SUFFICES ASSUME TypeInv, NEW b \in Blocks, code[b].jump = "none"
               PROVE  /\ Number(b) \in Blocks /\ Number(b) + 1 \in Blocks
                      /\ Follower(b) \in Blocks /\ Rest(code, order, b) = Follower(b)
    BY DEF FallsThrough
  <1>1. /\ Len(code) \in Nat /\ Number(b) \in Blocks /\ order[Number(b)] = b
        /\ \A i \in Blocks : order[i] \in Blocks
    BY Numbering DEF NumberIsInverse, TypeInv, TypeOK
  <1>2. Number(b) # Len(code)
    BY <1>1 DEF TypeInv, EndsInJump
  <1>3. Number(b) + 1 \in Blocks
    BY <1>1, <1>2 DEF Blocks
  <1>4. Rest(code, order, b) = Follower(b)
    BY DEF Rest, Follower, Number
  <1> QED
    BY <1>1, <1>3, <1>4 DEF Follower

LEMMA NextFalling == TypeInv' => FallsThrough'
  BY Falling, PTL

\* Where a split leaves the blocks: those after b move up by one.
LEMMA SplitNumbers ==
    ASSUME TypeInv, TypeInv', SplitBlock
    PROVE  /\ Blocks' = Blocks \cup {Len(code) + 1} /\ Len(code) + 1 \notin Blocks
           /\ \A x \in Blocks :
                 Number(x)' = IF Number(x) <= num THEN Number(x) ELSE Number(x) + 1
           /\ \A x \in Blocks' : x = Len(code) + 1 => Number(x)' = num + 1
  <1> DEFINE New == Len(code) + 1
  <1>1. /\ num \in Blocks /\ Len(code) \in Nat /\ Len(code') = New
        /\ \A i \in 1..New : order'[i] =
               IF i <= num THEN order[i] ELSE IF i = num + 1 THEN New ELSE order[i - 1]
    BY SplitEffect
  <1>2. Blocks = 1..Len(code) /\ Blocks' = 1..New
    BY <1>1 DEF Blocks
  <1>3. /\ \A b \in Blocks : Number(b) \in Blocks /\ order[Number(b)] = b
        /\ \A i \in Blocks : order[i] \in Blocks
    BY Numbering DEF NumberIsInverse, TypeInv
  <1>4. \A i \in Blocks' : \A x : order'[i] = x => Number(x)' = i
    <2>1. NumberIsInverse'
      BY NextNumbering DEF TypeInv
    <2> QED
      BY <2>1 DEF NumberIsInverse
  <1>5. ASSUME NEW x \in Blocks
        PROVE  Number(x)' = IF Number(x) <= num THEN Number(x) ELSE Number(x) + 1
    <2>1. Number(x) \in 1..Len(code) /\ order[Number(x)] = x /\ num \in 1..Len(code)
      BY <1>1, <1>2, <1>3
    <2>2. CASE Number(x) <= num
      <3>1. order'[Number(x)] = x /\ Number(x) \in 1..New
        BY <1>1, <2>1, <2>2
      <3> QED
        BY <1>2, <1>4, <2>2, <3>1
    <2>3. CASE ~(Number(x) <= num)
      <3>1. /\ Number(x) + 1 \in 1..New /\ ~(Number(x) + 1 <= num)
            /\ Number(x) + 1 # num + 1 /\ (Number(x) + 1) - 1 = Number(x)
        BY <1>1, <2>1, <2>3
      <3>2. order'[Number(x) + 1] = x
        BY <1>1, <2>1, <3>1
      <3> QED
        BY <1>2, <1>4, <2>3, <3>1, <3>2
    <2> QED
      BY <2>2, <2>3
  <1>6. ASSUME NEW x \in Blocks', x = New
        PROVE  Number(x)' = num + 1
    <2>1. num + 1 \in Blocks' /\ ~(num + 1 <= num) /\ num + 1 \in 1..New
      BY <1>1, <1>2
    <2>2. order'[num + 1] = x
      BY <1>1, <1>6, <2>1
    <2> QED
      BY <1>4, <2>1, <2>2
  <1>7. Blocks' = Blocks \cup {New} /\ New \notin Blocks
    BY <1>1, <1>2
  <1> QED
    BY <1>5, <1>6, <1>7

\* A split cuts off the jump of b: b falls into the new block, which jumps to
\* where b did, and every other block goes on where it did.
LEMMA SplitFlow ==
    ASSUME FlowInv, TypeInv', SplitBlock
    PROVE  LET b == order[num]
               New == Len(code) + 1
           IN  /\ b \in 1..Len(fn) /\ b \in Blocks /\ New > Len(fn)
               /\ code[b].cond = "JCC" /\ code'[b].cond = "JCC" /\ code'[b].jump = "none"
               /\ code'[b].condTo = code[b].condTo /\ code'[b].jumpTo = code[b].jumpTo
               /\ \A x \in Blocks : x # b => code'[x] = code[x]
               /\ code'[New].cond = "none" /\ code'[New].jump \in {"JMP", "Bi"}
               /\ code'[New].condTo = code[b].condTo /\ code'[New].jumpTo = code[b].jumpTo
               /\ Rest(code, order, b) = code[b].jumpTo
               /\ Rest(code', order', b) = New
               /\ Rest(code', order', New) = code[b].jumpTo
               /\ \A x \in Blocks : x # b =>
                     /\ Rest(code', order', x) = Rest(code, order, x)
                     /\ code[x].jump = "none" => Follower(x)' = Follower(x)
  <1> DEFINE b == order[num]
             New == Len(code) + 1
  <1>1. /\ num \in Blocks /\ b \in Blocks /\ Len(code) \in Nat
        /\ \A i \in Blocks : code'[i] =
               IF i = b THEN [code[b] EXCEPT !.jump = "none"] ELSE code[i]
        /\ code'[New] = [code[b] EXCEPT !.body = 0, !.real = 0, !.cond = "none"]
        /\ \A i \in 1..New : order'[i] =
               IF i <= num THEN order[i] ELSE IF i = num + 1 THEN New ELSE order[i - 1]
    BY SplitEffect DEF FlowInv
  <1>2. /\ Blocks' = Blocks \cup {New} /\ New \notin Blocks
        /\ \A x \in Blocks : Number(x)' = IF Number(x) <= num THEN Number(x) ELSE Number(x) + 1
    BY SplitNumbers DEF FlowInv
  <1>3. /\ code[b].cond = "JCC" /\ code[b].jump \in {"JMP", "Bi"}
        /\ b \in 1..Len(fn) /\ New > Len(fn)
    <2>1. code[b].cond = "JCC" /\ code[b].jump # "none"
      BY DEF SplitBlock
    <2>2. code[b].jump \in {"none", "RET", "JMP", "Bi"}
      BY <1>1, BlockFields DEF FlowInv, TypeInv
    <2>3. ~(b > Len(fn)) /\ code[b].jump # "RET" /\ Len(fn) <= Len(code)
      BY <1>1, <2>1 DEF FlowInv, FlowShape, Shape
    <2>4. Len(fn) \in Nat
      BY FunctionsAssumption DEF FlowInv, TypeInv, TypeOK, WellFormed
    <2> QED
      BY <1>1, <2>1, <2>2, <2>3, <2>4 DEF Blocks
  <1>4. /\ code'[b].cond = "JCC" /\ code'[b].jump = "none"
        /\ code'[b].condTo = code[b].condTo /\ code'[b].jumpTo = code[b].jumpTo
        /\ code'[New].cond = "none" /\ code'[New].jump = code[b].jump
        /\ code'[New].condTo = code[b].condTo /\ code'[New].jumpTo = code[b].jumpTo
    <2>1. code[b] \in MachineBasicBlock(Blocks)
      BY <1>1, BlockFields DEF FlowInv, TypeInv
    <2> QED
      BY <1>1, <1>3, <2>1 DEF MachineBasicBlock
  <1>5. \A x \in Blocks : x # b => code'[x] = code[x]
    BY <1>1
  <1>6. FallsThrough /\ FallsThrough'
    BY Falling, NextFalling DEF FlowInv
  <1>7. num \in 1..Len(code) /\ Number(b) = num
    BY <1>1, Numbering DEF NumberIsInverse, FlowInv, TypeInv, Blocks
  <1>8. Rest(code', order', b) = New
    <2>1. \A x \in Blocks : x = b => Rest(code', order', x) = order'[Number(x)' + 1]
      BY <1>2, <1>4, <1>6 DEF FallsThrough, Follower
    <2>2. \A x \in Blocks : x = b => Number(x)' = num
      BY <1>2, <1>7
    <2>3. order'[num + 1] = New
      BY <1>1, <1>7
    <2> QED
      BY <1>1, <2>1, <2>2, <2>3
  <1>9. ASSUME NEW x \in Blocks, x # b
        PROVE  /\ Rest(code', order', x) = Rest(code, order, x)
               /\ code[x].jump = "none" => Follower(x)' = Follower(x)
    <2>1. code'[x] = code[x] /\ x \in Blocks'
      BY <1>2, <1>5, <1>9
    <2>2. CASE code[x].jump = "none"
      <3>1. /\ Number(x) \in 1..Len(code) /\ Number(x) + 1 \in 1..Len(code)
            /\ Rest(code, order, x) = order[Number(x) + 1]
            /\ Rest(code', order', x) = order'[Number(x)' + 1]
        BY <1>6, <2>1, <2>2 DEF FallsThrough, Follower, Blocks
      <3>2. Number(x) # num
        <4>1. order[Number(x)] = x
          BY Numbering DEF NumberIsInverse, FlowInv, TypeInv
        <4> QED
          BY <1>9, <4>1
      <3>3. order'[Number(x)' + 1] = order[Number(x) + 1]
        <4>1. CASE Number(x) < num
          <5>1. Number(x)' = Number(x) /\ Number(x) + 1 <= num /\ Number(x) + 1 \in 1..New
            BY <1>1, <1>2, <1>7, <3>1, <4>1
          <5>2. order'[Number(x) + 1] = order[Number(x) + 1]
            BY <1>1, <5>1
          <5> QED
            BY <5>1, <5>2
        <4>2. CASE Number(x) > num
          <5>1. Number(x)' = Number(x) + 1 /\ (Number(x) + 1) + 1 \in 1..New
            BY <1>1, <1>2, <1>7, <3>1, <4>2
          <5>2. /\ ~((Number(x) + 1) + 1 <= num) /\ (Number(x) + 1) + 1 # num + 1
                /\ ((Number(x) + 1) + 1) - 1 = Number(x) + 1
            BY <1>1, <1>7, <3>1, <4>2
          <5>3. order'[(Number(x) + 1) + 1] = order[Number(x) + 1]
            BY <1>1, <5>1, <5>2
          <5> QED
            BY <5>1, <5>3
        <4> QED
          BY <1>7, <3>1, <3>2, <4>1, <4>2
      <3> QED
        BY <3>1, <3>3 DEF Follower
    <2>3. CASE code[x].jump # "none"
      <3>1. code[x].jump \in {"none", "RET", "JMP", "Bi"}
        BY BlockFields DEF FlowInv, TypeInv
      <3>2. CASE code[x].jump = "RET"
        BY <2>1, <3>2, RestCases
      <3>3. CASE code[x].jump \in {"JMP", "Bi"}
        <4>1. Rest(code, order, x) = code[x].jumpTo
          BY <3>3, RestCases
        <4>2. Rest(code', order', x) = code'[x].jumpTo
          BY <2>1, <3>3, RestCases
        <4> QED
          BY <2>1, <2>3, <4>1, <4>2
      <3> QED
        BY <2>3, <3>1, <3>2, <3>3
    <2> QED
      BY <2>2, <2>3
  <1>10. Rest(code, order, b) = code[b].jumpTo
    BY <1>3, RestCases
  <1>11. Rest(code', order', New) = code[b].jumpTo
    <2> HIDE DEF New, b
    <2>1. Rest(code', order', New) = code'[New].jumpTo
      BY <1>3, <1>4, RestCases
    <2> QED
      BY <1>4, <2>1
  <1> QED
    BY <1>1, <1>3, <1>4, <1>5, <1>8, <1>9, <1>10, <1>11

\* An expansion leaves every block going where it goes.
LEMMA ExpandFlow ==
    ASSUME FlowInv, ExpandCond \/ ExpandJump
    PROVE  LET b == order[num]
           IN  /\ Len(code') = Len(code) /\ order' = order /\ fn' = fn /\ succ' = succ
               /\ b \in Blocks
               /\ \A x \in Blocks : x # b => code'[x] = code[x]
               /\ code'[b].condTo = code[b].condTo /\ code'[b].jumpTo = code[b].jumpTo
               /\ code'[b].cond # "none" <=> code[b].cond # "none"
               /\ \/ /\ code'[b].cond = "long" /\ code'[b].reversed = TRUE
                     /\ code'[b].over = order[num + 1]
                     /\ code[b].jump = "none" /\ code'[b].jump = "none"
                  \/ /\ code'[b].cond = code[b].cond /\ code[b].cond # "long"
                     /\ code[b].jump = "JMP" /\ code'[b].jump = "Bi"
               /\ \A x \in Blocks : Rest(code', order', x) = Rest(code, order, x)
  <1> DEFINE b == order[num]
  <1>1. num \in Blocks /\ b \in Blocks /\ Number(b) = num
    BY Current DEF FlowInv, TypeInv, ExpandCond, ExpandJump, Scanning
  <1>2. code \in Seq(MachineBasicBlock(Blocks)) /\ code[b] \in MachineBasicBlock(Blocks)
    BY <1>1, BlockFields DEF FlowInv, TypeInv, TypeOK
  <1>3. PICK r : /\ code' = [code EXCEPT ![b] = r]
                 /\ r.condTo = code[b].condTo /\ r.jumpTo = code[b].jumpTo
                 /\ r.cond # "none" <=> code[b].cond # "none"
                 /\ \/ /\ r.cond = "long" /\ r.reversed = TRUE
                       /\ r.over = order[num + 1]
                       /\ code[b].jump = "none" /\ r.jump = "none"
                    \/ /\ r.cond = code[b].cond /\ code[b].cond # "long"
                       /\ code[b].jump = "JMP" /\ r.jump = "Bi"
    <2>1. CASE ExpandCond
      <3> DEFINE r == [code[b] EXCEPT !.cond = "long", !.reversed = TRUE, !.over = order[num + 1]]
      <3>1. code' = [code EXCEPT ![b] = r] /\ code[b].cond = "JCC" /\ code[b].jump = "none"
        BY <2>1 DEF ExpandCond, LongBranch
      <3>2. /\ r.condTo = code[b].condTo /\ r.jumpTo = code[b].jumpTo
            /\ r.cond = "long" /\ r.reversed = TRUE /\ r.over = order[num + 1]
            /\ r.jump = code[b].jump
        BY <1>2 DEF MachineBasicBlock
      <3> HIDE DEF r
      <3> QED
        BY <3>1, <3>2
    <2>2. CASE ExpandJump
      <3> DEFINE r == [code[b] EXCEPT !.jump = "Bi"]
      <3>1. code' = [code EXCEPT ![b] = r] /\ code[b].jump = "JMP"
        BY <2>2 DEF ExpandJump
      <3>2. /\ r.condTo = code[b].condTo /\ r.jumpTo = code[b].jumpTo
            /\ r.cond = code[b].cond /\ r.jump = "Bi"
        BY <1>2 DEF MachineBasicBlock
      <3>3. code[b].cond # "long"
        BY <1>1, <3>1 DEF FlowInv, FlowShape, Shape
      <3> HIDE DEF r
      <3> QED
        BY <3>1, <3>2, <3>3
    <2> QED
      BY <2>1, <2>2
  <1>4. /\ Len(code') = Len(code)
        /\ \A x \in Blocks : code'[x] = IF x = b THEN r ELSE code[x]
    BY <1>1, <1>2, <1>3 DEF Blocks
  <1>5. order' = order /\ fn' = fn /\ succ' = succ
    BY DEF ExpandCond, ExpandJump
  <1>6. ASSUME NEW x \in Blocks
        PROVE  Rest(code', order', x) = Rest(code, order, x)
    <2>1. code[x].jump \in {"none", "RET", "JMP", "Bi"}
      BY BlockFields DEF FlowInv, TypeInv
    <2>2. /\ code'[x].jumpTo = code[x].jumpTo
          /\ code'[x].jump = code[x].jump
                \/ (code[x].jump \in {"JMP", "Bi"} /\ code'[x].jump \in {"JMP", "Bi"})
      BY <1>3, <1>4
    <2>3. CASE code[x].jump \in {"JMP", "Bi"}
      <3>1. Rest(code, order, x) = code[x].jumpTo /\ code'[x].jump \in {"JMP", "Bi"}
        BY <2>2, <2>3, RestCases
      <3>2. Rest(code', order', x) = code'[x].jumpTo
        BY <3>1, RestCases
      <3> QED
        BY <2>2, <3>1, <3>2
    <2>4. CASE code[x].jump = "RET"
      BY <2>2, <2>4, RestCases
    <2>5. CASE code[x].jump = "none"
      <3>1. code'[x].jump = "none"
        BY <2>2, <2>5
      <3> QED
        BY <1>5, <2>5, <3>1 DEF Rest
    <2> QED
      BY <2>1, <2>3, <2>4, <2>5
  <1> QED
    BY <1>1, <1>3, <1>4, <1>5, <1>6

\* Every step keeps the shape of the blocks ...
LEMMA StepFlowShape == FlowInv /\ TypeInv' /\ [Next]_vars => FlowShape'
  <1> SUFFICES ASSUME FlowInv, TypeInv', [Next]_vars PROVE FlowShape'
    OBVIOUS
  <1> DEFINE b == order[num]
  <1>0. Len(code) \in Nat /\ Len(fn) \in Nat /\ Len(fn) <= Len(code) /\ FlowShape
    BY FunctionsAssumption DEF FlowInv, FlowShape, TypeInv, TypeOK, WellFormed
  <1>fn. fn' = fn
    BY DEF Next, MeasureBlock, EndMeasure, EndRemeasure, SkipCond, SplitBlock, ExpandCond,
           SkipJump, ExpandJump, EndScan, PlaceBlock, vars
  <1>1. CASE SplitBlock
    <2> DEFINE New == Len(code) + 1
    <2>1. fn' = fn /\ Len(code') = New /\ Blocks' = Blocks \cup {New} /\ New \notin Blocks
      BY <1>1, SplitEffect, SplitNumbers DEF FlowInv, SplitBlock
    <2>2. Len(fn) <= New
      BY <1>0
    <2>3. ASSUME NEW x \in Blocks, x # b
          PROVE  /\ code'[x] = code[x]
                 /\ code[x].jump = "none" => Follower(x)' = Follower(x)
      BY <1>1, <2>3, SplitFlow
    <2>4. /\ code[b].condTo \in 1..Len(fn) /\ code[b].jumpTo \in 1..Len(fn)
          /\ b \in 1..Len(fn) /\ b \in Blocks
          /\ code'[b].cond = "JCC" /\ code'[b].jump = "none"
          /\ code'[b].condTo = code[b].condTo /\ code'[b].jumpTo = code[b].jumpTo
          /\ code'[New].cond = "none" /\ code'[New].jump \in {"JMP", "Bi"}
          /\ code'[New].condTo = code[b].condTo /\ code'[New].jumpTo = code[b].jumpTo
      <3>1. /\ b \in 1..Len(fn) /\ b \in Blocks
            /\ code'[b].cond = "JCC" /\ code'[b].jump = "none"
            /\ code'[b].condTo = code[b].condTo /\ code'[b].jumpTo = code[b].jumpTo
            /\ code'[New].cond = "none" /\ code'[New].jump \in {"JMP", "Bi"}
            /\ code'[New].condTo = code[b].condTo /\ code'[New].jumpTo = code[b].jumpTo
        BY <1>1, SplitFlow
      <3> QED
        BY <1>0, <3>1 DEF FlowShape, Shape
    <2>5. ASSUME NEW x \in Blocks'
          PROVE  Shape(x)'
      <3>1. CASE x = New
        <4> HIDE DEF New
        <4> QED
          BY <1>fn, <2>4, <3>1 DEF Shape
      <3>2. CASE x = b
        <4> HIDE DEF b
        <4>1. ~(x > Len(fn))
          BY <1>0, <2>4, <3>2
        <4> QED
          BY <1>fn, <2>4, <3>2, <4>1 DEF Shape
      <3>3. CASE x \in Blocks /\ x # b
        <4>1. /\ code'[x] = code[x]
              /\ code[x].jump = "none" => Follower(x)' = Follower(x)
          BY <2>3, <3>3
        <4> QED
          BY <1>0, <1>fn, <3>3, <4>1 DEF FlowShape, Shape
      <3> QED
        BY <2>1, <3>1, <3>2, <3>3
    <2> QED
      BY <2>1, <2>2, <2>5 DEF FlowShape, Shape
  <1>2. CASE ExpandCond \/ ExpandJump
    <2>1. /\ Blocks' = Blocks /\ order' = order /\ fn' = fn /\ Len(code') = Len(code)
          /\ b \in Blocks /\ Number(b) = num
      <3>1. Number(b) = num
        BY <1>2, Current DEF FlowInv, TypeInv, ExpandCond, ExpandJump, Scanning
      <3> QED
        BY <1>2, <3>1, ExpandFlow DEF Blocks
    <2>2. \A x \in Blocks : Follower(x)' = Follower(x)
      BY <2>1 DEF Follower, Number
    <2>3. /\ \A x \in Blocks : x # b => code'[x] = code[x]
          /\ code'[b].condTo = code[b].condTo /\ code'[b].jumpTo = code[b].jumpTo
          /\ code'[b].cond # "none" <=> code[b].cond # "none"
          /\ \/ /\ code'[b].cond = "long" /\ code'[b].reversed = TRUE
                /\ code'[b].over = Follower(b)
                /\ code[b].jump = "none" /\ code'[b].jump = "none"
             \/ /\ code'[b].cond = code[b].cond /\ code[b].cond # "long"
                /\ code[b].jump = "JMP" /\ code'[b].jump = "Bi"
      BY <1>2, <2>1, ExpandFlow DEF Follower
    <2>4. ASSUME NEW x \in Blocks
          PROVE  Shape(x)'
      <3>0. Shape(x)
        BY <1>0 DEF FlowShape
      <3>1. CASE x = b
        <4>1. /\ code'[x].condTo = code[x].condTo /\ code'[x].jumpTo = code[x].jumpTo
              /\ code'[x].cond # "none" <=> code[x].cond # "none"
              /\ \/ /\ code'[x].cond = "long" /\ code'[x].reversed = TRUE
                    /\ code'[x].over = Follower(x)
                    /\ code[x].jump = "none" /\ code'[x].jump = "none"
                 \/ /\ code'[x].cond = code[x].cond /\ code[x].cond # "long"
                    /\ code[x].jump = "JMP" /\ code'[x].jump = "Bi"
          BY <2>3, <3>1
        <4>2. Follower(x)' = Follower(x)
          BY <2>2
        <4> QED
          BY <1>fn, <3>0, <4>1, <4>2 DEF Shape
      <3>2. CASE x # b
        <4>1. code'[x] = code[x] /\ Follower(x)' = Follower(x)
          BY <2>2, <2>3, <3>2
        <4> QED
          BY <1>fn, <3>0, <4>1 DEF Shape
      <3> QED
        BY <3>1, <3>2
    <2> QED
      BY <1>0, <2>1, <2>4 DEF FlowShape, Shape
  <1>3. CASE UNCHANGED <<fn, code, order>>
    <2>1. Blocks' = Blocks /\ \A x \in Blocks : Follower(x)' = Follower(x)
      BY <1>3 DEF Blocks, Follower, Number
    <2> QED
      BY <1>0, <1>3, <2>1 DEF FlowShape, Shape
  <1> QED
    BY <1>1, <1>2, <1>3 DEF Next, MeasureBlock, EndMeasure, EndRemeasure, SkipCond, SkipJump,
                            EndScan, PlaceBlock, vars

\* ... and where the blocks of the input go ...
LEMMA StepSameBranches == FlowInv /\ TypeInv' /\ [Next]_vars => SameBranches'
  <1> SUFFICES ASSUME FlowInv, TypeInv', [Next]_vars PROVE SameBranches'
    OBVIOUS
  <1> DEFINE b == order[num]
             Goes(f, lay, x, to) ==
                 to = IF Rest(f, lay, x) > Len(fn) THEN Rest(f, lay, Rest(f, lay, x))
                                                   ELSE Rest(f, lay, x)
  <1>0. /\ Len(code) \in Nat /\ Len(fn) \in Nat /\ 1..Len(fn) \subseteq Blocks
        /\ \A x \in 1..Len(fn) : /\ code[x].cond # "none" <=> fn[x].cond # "none"
                                 /\ code[x].condTo = fn[x].condTo
                                 /\ Goes(code, order, x, Rest(fn, InputOrder, x))
    <2>1. Len(code) \in Nat /\ Len(fn) \in Nat /\ Len(fn) <= Len(code)
      BY FunctionsAssumption DEF FlowInv, FlowShape, TypeInv, TypeOK, WellFormed
    <2>2. 1..Len(fn) \subseteq Blocks
      BY <2>1 DEF Blocks
    <2> QED
      BY <2>1, <2>2 DEF FlowInv, SameBranches
  <1>fn. fn' = fn /\ InputOrder' = InputOrder
    BY DEF Next, MeasureBlock, EndMeasure, EndRemeasure, SkipCond, SplitBlock, ExpandCond,
           SkipJump, ExpandJump, EndScan, PlaceBlock, vars, InputOrder
  <1>1. CASE SplitBlock
    <2>1. ASSUME NEW x \in 1..Len(fn)
          PROVE  /\ code'[x].cond # "none" <=> fn[x].cond # "none"
                 /\ code'[x].condTo = fn[x].condTo
                 /\ Goes(code', order', x, Rest(fn, InputOrder, x))
      <3>1. x \in Blocks
        BY <1>0
      <3>2. CASE x = b
        <4> DEFINE New == Len(code) + 1
        <4>1. /\ New > Len(fn) /\ code[b].cond = "JCC" /\ code'[b].cond = "JCC"
              /\ code'[b].condTo = code[b].condTo
              /\ Rest(code, order, b) = code[b].jumpTo
              /\ Rest(code', order', b) = New /\ Rest(code', order', New) = code[b].jumpTo
          BY <1>1, SplitFlow
        <4>2. code[b].jumpTo \in 1..Len(fn)
          BY <3>1, <3>2 DEF FlowInv, FlowShape, Shape
        <4>3. ~(code[b].jumpTo > Len(fn))
          BY <1>0, <4>2
        <4> HIDE DEF New, b
        <4>4. Rest(fn, InputOrder, x) = code[b].jumpTo
          BY <1>0, <3>2, <4>1, <4>3
        <4> QED
          BY <1>0, <3>2, <4>1, <4>4
      <3>3. CASE x # b
        <4>1. /\ code'[x] = code[x] /\ Rest(code', order', x) = Rest(code, order, x)
              /\ \A y \in Blocks : y # b => Rest(code', order', y) = Rest(code, order, y)
          BY <1>1, <3>1, <3>3, SplitFlow
        <4>2. Rest(code, order, x) > Len(fn) => /\ Rest(code, order, x) \in Blocks
                                               /\ Rest(code, order, x) # b
          <5>1. b \in 1..Len(fn)
            BY <1>1, SplitFlow
          <5>2. Rest(code, order, x) \in Blocks \/ Rest(code, order, x) = 0
            <6>1. code[x].jump \in {"none", "RET", "JMP", "Bi"} /\ code[x].jumpTo \in Blocks
              BY <3>1, BlockFields DEF FlowInv, TypeInv
            <6>2. code[x].jump = "none" => Rest(code, order, x) \in Blocks
              BY <3>1, Falling DEF FallsThrough, FlowInv
            <6> QED
              BY <6>1, <6>2, RestCases
          <5> QED
            BY <1>0, <5>1, <5>2
        <4> HIDE DEF b
        <4>3. Rest(code, order, x) > Len(fn) =>
                 Rest(code', order', Rest(code, order, x)) = Rest(code, order, Rest(code, order, x))
          BY <4>1, <4>2
        <4> QED
          BY <1>0, <4>1, <4>3
      <3> QED
        BY <3>2, <3>3
    <2> QED
      BY <1>fn, <2>1 DEF SameBranches
  <1>2. CASE ExpandCond \/ ExpandJump
    <2>1. ASSUME NEW x \in 1..Len(fn)
          PROVE  /\ code'[x].cond # "none" <=> fn[x].cond # "none"
                 /\ code'[x].condTo = fn[x].condTo
                 /\ Goes(code', order', x, Rest(fn, InputOrder, x))
      <3>1. /\ x \in Blocks
            /\ \A y \in Blocks : Rest(code', order', y) = Rest(code, order, y)
            /\ code'[x].cond # "none" <=> code[x].cond # "none"
            /\ code'[x].condTo = code[x].condTo
        BY <1>0, <1>2, ExpandFlow
      <3>2. Rest(code, order, x) > Len(fn) => Rest(code, order, x) \in Blocks
        <4>1. code[x].jump \in {"none", "RET", "JMP", "Bi"} /\ code[x].jumpTo \in Blocks
          BY <3>1, BlockFields DEF FlowInv, TypeInv
        <4>2. code[x].jump = "none" => Rest(code, order, x) \in Blocks
          BY <3>1, Falling DEF FallsThrough, FlowInv
        <4>3. Rest(code, order, x) \in Blocks \/ Rest(code, order, x) = 0
          BY <4>1, <4>2, RestCases
        <4> QED
          BY <1>0, <4>3
      <3> QED
        BY <1>0, <3>1, <3>2
    <2> QED
      BY <1>fn, <2>1 DEF SameBranches
  <1>3. CASE UNCHANGED <<code, order>>
    <2> SUFFICES ASSUME NEW x \in 1..Len(fn)
                 PROVE  /\ code[x].cond # "none" <=> fn[x].cond # "none"
                        /\ code[x].condTo = fn[x].condTo
                        /\ Goes(code, order, x, Rest(fn, InputOrder, x))
      BY <1>3, <1>fn DEF SameBranches
    <2> QED
      BY <1>0
  <1> QED
    BY <1>1, <1>2, <1>3 DEF Next, MeasureBlock, EndMeasure, EndRemeasure, SkipCond, SkipJump,
                            EndScan, PlaceBlock, vars

\* The successors a block has, by its branches.
Leads ==
    \A b \in Blocks :
        Outcomes(code, order, b) =
            IF code[b].cond # "none" THEN {code[b].condTo, Rest(code, order, b)}
            ELSE {Rest(code, order, b)}

LEMMA Leading == TypeOK /\ FlowShape => Leads
  <1> SUFFICES ASSUME TypeOK, FlowShape, NEW b \in Blocks
               PROVE  Outcomes(code, order, b) =
                         IF code[b].cond # "none" THEN {code[b].condTo, Rest(code, order, b)}
                         ELSE {Rest(code, order, b)}
    BY DEF Leads
  <1>1. \A c \in BOOLEAN : Outcome(code, order, b, c) =
            IF code[b].cond # "none" /\ c THEN code[b].condTo ELSE Rest(code, order, b)
    BY OutcomeCases DEF OutcomeIs
  <1>2. /\ Outcome(code, order, b, FALSE) = Rest(code, order, b)
        /\ Outcome(code, order, b, TRUE) =
              IF code[b].cond # "none" THEN code[b].condTo ELSE Rest(code, order, b)
    <2>1. TRUE \in BOOLEAN /\ FALSE \in BOOLEAN
      OBVIOUS
    <2> QED
      BY <1>1, <2>1, Zenon
  <1>3. Outcomes(code, order, b) = {Outcome(code, order, b, TRUE), Outcome(code, order, b, FALSE)}
    <2>1. BOOLEAN = {TRUE, FALSE}
      OBVIOUS
    <2> DEFINE O(c) == Outcome(code, order, b, c)
    <2>2. Outcomes(code, order, b) = {O(c) : c \in {TRUE, FALSE}}
      BY <2>1, Zenon DEF Outcomes
    <2> HIDE DEF O
    <2>3. {O(c) : c \in {TRUE, FALSE}} = {O(TRUE), O(FALSE)}
      BY Zenon
    <2> QED
      BY <2>2, <2>3 DEF O
  <1> QED
    BY <1>2, <1>3

LEMMA NextLeading == TypeOK' /\ FlowShape' => Leads'
  BY Leading, PTL

\* ... and the successor lists exact.
LEMMA StepSuccessors == FlowInv /\ TypeInv' /\ FlowShape' /\ [Next]_vars => SuccessorsExact'
  <1> SUFFICES ASSUME FlowInv, TypeInv', FlowShape', [Next]_vars PROVE SuccessorsExact'
    OBVIOUS
  <1> DEFINE b == order[num]
             Go(f, lay, x) == IF f[x].cond # "none" THEN {f[x].condTo, Rest(f, lay, x)}
                              ELSE {Rest(f, lay, x)}
  <1>1. \A x \in Blocks : succ[x] = Go(code, order, x) \ {0}
    BY Leading DEF FlowInv, TypeInv, SuccessorsExact, Leads
  <1>2. SUFFICES ASSUME NEW x \in Blocks' PROVE succ'[x] = Go(code', order', x) \ {0}
    BY NextLeading DEF TypeInv, SuccessorsExact, Leads
  <1>3. CASE SplitBlock
    <2> DEFINE New == Len(code) + 1
               moved == succ[b] \ {code[b].condTo}
    <2>1. /\ b \in 1..Len(fn) /\ b \in Blocks /\ New > Len(fn)
          /\ code[b].cond = "JCC" /\ code'[b].cond = "JCC"
          /\ code'[b].condTo = code[b].condTo /\ code'[New].cond = "none"
          /\ Rest(code, order, b) = code[b].jumpTo
          /\ Rest(code', order', b) = New /\ Rest(code', order', New) = code[b].jumpTo
          /\ \A y \in Blocks : y # b => /\ code'[y] = code[y]
                                        /\ Rest(code', order', y) = Rest(code, order, y)
      BY <1>3, SplitFlow
    <2>2. /\ code[b].condTo \in 1..Len(fn) /\ code[b].jumpTo \in 1..Len(fn)
          /\ code[b].condTo # code[b].jumpTo
      BY <1>3, <2>1 DEF FlowInv, FlowShape, Shape, SplitBlock
    <2>3. succ[b] = {code[b].condTo, code[b].jumpTo}
      BY <1>1, <2>1, <2>2
    <2>4. moved = {code[b].jumpTo}
      BY <2>2, <2>3
    <2>5. /\ \A y \in Blocks : succ'[y] = IF y = b THEN (succ[b] \ moved) \cup {New : s \in moved}
                                         ELSE succ[y]
          /\ succ'[New] = moved
      <3>1. succ \in Seq(SUBSET Blocks) /\ Len(succ) = Len(code) /\ Len(code) \in Nat
            /\ 1..Len(succ) = Blocks
        BY DEF FlowInv, TypeInv, TypeOK, Blocks
      <3> DEFINE kept == (succ[b] \ moved) \cup {New : s \in moved}
                 t == [succ EXCEPT ![b] = kept]
      <3>2. succ' = Append(t, moved)
        BY <1>3 DEF SplitBlock, MovedSuccessors
      <3>8. succ \in Seq(SUBSET Blocks') /\ kept \in SUBSET Blocks' /\ b \in 1..Len(succ)
        <4>1. Blocks' = Blocks \cup {New}
          BY <1>3, SplitNumbers DEF FlowInv
        <4>2. SUBSET Blocks \subseteq SUBSET Blocks'
          BY <4>1
        <4>3. succ[b] \in SUBSET Blocks /\ b \in 1..Len(succ)
          BY <2>1, <3>1
        <4>4. kept \in SUBSET Blocks'
          BY <4>1, <4>3
        <4> QED
          BY <3>1, <4>2, <4>3, <4>4, SeqMonotonic
      <3> HIDE DEF kept, moved
      <3>3. /\ Len(t) = Len(succ) /\ \A y \in Blocks : t[y] = IF y = b THEN kept ELSE succ[y]
            /\ DOMAIN t = 1..Len(succ)
        BY <3>1
      <3>4. t \in Seq(SUBSET Blocks')
        BY <3>8, ExceptSeq
      <3> HIDE DEF t
      <3>5. /\ \A y \in 1..Len(t) : Append(t, moved)[y] = t[y]
            /\ Append(t, moved)[Len(t) + 1] = moved
        BY <3>4
      <3>6. \A y \in Blocks : succ'[y] = IF y = b THEN kept ELSE succ[y]
        BY <3>1, <3>2, <3>3, <3>5
      <3>7. succ'[New] = moved
        BY <3>1, <3>2, <3>3, <3>5
      <3> QED
        BY <3>6, <3>7 DEF kept
    <2>6. x = b \/ x = New \/ (x \in Blocks /\ x # b)
      BY <1>3, SplitNumbers DEF FlowInv
    <2>7. CASE x = b
      <3>1. succ'[b] = {code[b].condTo, New}
        <4>1. (succ[b] \ moved) = {code[b].condTo} /\ {New : s \in moved} = {New}
          BY <2>2, <2>3, <2>4
        <4> QED
          BY <2>1, <2>5, <4>1
      <3>2. Go(code', order', b) = {code[b].condTo, New}
        BY <2>1
      <3>3. 0 # code[b].condTo /\ 0 # New
        <4>1. Len(fn) \in Nat
          BY FunctionsAssumption DEF FlowInv, TypeInv, TypeOK, WellFormed
        <4> QED
          BY <2>1, <2>2, <4>1
      <3> QED
        BY <2>7, <3>1, <3>2, <3>3
    <2>8. CASE x = New
      <3> HIDE DEF New
      <3>1. succ'[x] = {code[b].jumpTo}
        BY <2>4, <2>5, <2>8
      <3>2. Go(code', order', x) = {code[b].jumpTo}
        BY <2>1, <2>8
      <3>3. 0 # code[b].jumpTo
        BY <2>2
      <3> QED
        BY <3>1, <3>2, <3>3
    <2>9. CASE x \in Blocks /\ x # b
      <3>1. succ'[x] = succ[x] /\ code'[x] = code[x] /\ Rest(code', order', x) = Rest(code, order, x)
        BY <2>1, <2>5, <2>9
      <3> QED
        BY <1>1, <2>9, <3>1
    <2> QED
      BY <2>6, <2>7, <2>8, <2>9
  <1>4. CASE ExpandCond \/ ExpandJump
    <2>1. /\ x \in Blocks /\ succ' = succ
          /\ code'[x].cond # "none" <=> code[x].cond # "none"
          /\ code'[x].condTo = code[x].condTo
          /\ Rest(code', order', x) = Rest(code, order, x)
      <3>1. Blocks' = Blocks
        BY <1>4, ExpandFlow DEF Blocks
      <3> QED
        BY <1>2, <1>4, <3>1, ExpandFlow
    <2> QED
      BY <1>1, <2>1
  <1>5. CASE UNCHANGED <<code, order, succ>>
    <2>1. x \in Blocks
      BY <1>2, <1>5 DEF Blocks
    <2> QED
      BY <1>1, <1>5, <2>1
  <1> QED
    BY <1>3, <1>4, <1>5 DEF Next, MeasureBlock, EndMeasure, EndRemeasure, SkipCond, SkipJump,
                            EndScan, PlaceBlock, vars

\* The same of the input, whose blocks have no long branches.
LEMMA InputOutcome ==
    ASSUME NEW f \in Functions, NEW lay, NEW b \in 1..Len(f), NEW c \in BOOLEAN
    PROVE  Outcome(f, lay, b, c) =
               IF f[b].cond # "none" /\ c THEN f[b].condTo ELSE Rest(f, lay, b)
  <1>1. f[b].cond = "none" \/ f[b].cond = "JCC"
    BY FunctionsAssumption DEF WellFormed
  <1>2. CASE f[b].cond = "none"
    BY <1>2 DEF Outcome
  <1>3. CASE f[b].cond = "JCC"
    BY <1>3 DEF Outcome
  <1> QED
    BY <1>1, <1>2, <1>3

LEMMA InitFlowInv == Init => FlowInv
  <1> SUFFICES ASSUME Init PROVE FlowInv
    OBVIOUS
  <1>1. /\ fn \in Functions /\ WellFormed(fn) /\ code = fn /\ order = InputOrder
        /\ Len(fn) \in Nat /\ Blocks = 1..Len(fn)
    BY FunctionsAssumption DEF Init, WellFormed, Blocks
  <1>2. TypeInv
    BY <1>1, InitTypeOK DEF TypeInv, EndsInJump, WellFormed, InputOrder, Blocks
  <1>3. FlowShape
    <2>1. ASSUME NEW b \in Blocks PROVE Shape(b)
      <3>1. code[b].condTo \in 1..Len(fn) /\ code[b].jumpTo \in 1..Len(fn)
        BY <1>1, <1>2, BlockFields DEF TypeInv
      <3>2. /\ code[b].cond \in {"none", "JCC"}
            /\ code[b].cond = "JCC" => code[b].jump # "RET"
            /\ code[b].cond = "JCC" /\ code[b].jump # "none" => code[b].condTo # code[b].jumpTo
            /\ ~(b > Len(fn))
        BY <1>1 DEF WellFormed
      <3> QED
        BY <3>1, <3>2 DEF Shape
    <2> QED
      BY <1>1, <2>1 DEF FlowShape
  <1>4. SameBranches
    <2>1. ASSUME NEW b \in 1..Len(fn) PROVE Rest(fn, InputOrder, b) \in 0..Len(fn)
      <3>1. /\ Outcome(fn, InputOrder, b, FALSE) \in 0..Len(fn)
            /\ Outcome(fn, InputOrder, b, FALSE) = Rest(fn, InputOrder, b)
        BY <1>1, InputTargets, InputOutcome DEF InputOrder
      <3> QED
        BY <3>1
    <2>2. ASSUME NEW b \in 1..Len(fn) PROVE ~(Rest(fn, InputOrder, b) > Len(fn))
      BY <1>1, <2>1
    <2> QED
      BY <1>1, <2>2 DEF SameBranches
  <1>5. SuccessorsExact
    BY <1>1 DEF Init, SuccessorsExact
  <1> QED
    BY <1>2, <1>3, <1>4, <1>5 DEF FlowInv

LEMMA StepFlowInv == FlowInv /\ [Next]_vars => FlowInv'
  BY StepTypeInv, StepFlowShape, StepSameBranches, StepSuccessors DEF FlowInv

\* Whatever has been split, reversed and expanded so far, a block of the
\* input goes where it went, for each value of its condition, at once or
\* through a block that a split made.
THEOREM FlowPreserved == Spec => []SameTargets
  <1>1. FlowInv => SameTargets
    <2> SUFFICES ASSUME FlowInv, NEW b \in 1..Len(fn), NEW c \in BOOLEAN
                 PROVE  LET to == Outcome(code, order, b, c)
                        IN  Outcome(fn, InputOrder, b, c) =
                               IF to > Len(fn) THEN Outcome(code, order, to, c) ELSE to
      BY DEF SameTargets
    <2> DEFINE to == Outcome(code, order, b, c)
               rest == Rest(code, order, b)
    <2>1. /\ b \in Blocks /\ Len(fn) \in Nat /\ fn \in Functions
          /\ \A x \in Blocks : Shape(x)
      <3>1. fn \in Functions /\ Len(fn) \in Nat /\ Len(code) \in Nat
        BY FunctionsAssumption DEF FlowInv, TypeInv, TypeOK, WellFormed
      <3>2. Len(fn) <= Len(code) /\ \A x \in Blocks : Shape(x)
        BY DEF FlowInv, FlowShape
      <3> QED
        BY <3>1, <3>2 DEF Blocks
    <2>2. Outcome(fn, InputOrder, b, c) =
             IF fn[b].cond # "none" /\ c THEN fn[b].condTo ELSE Rest(fn, InputOrder, b)
      BY <2>1, InputOutcome
    <2>3. to = IF code[b].cond # "none" /\ c THEN code[b].condTo ELSE rest
      BY <2>1, OutcomeCases DEF OutcomeIs, FlowInv, TypeInv
    <2>4. /\ code[b].cond # "none" <=> fn[b].cond # "none"
          /\ code[b].condTo = fn[b].condTo
          /\ Rest(fn, InputOrder, b) =
                IF rest > Len(fn) THEN Rest(code, order, rest) ELSE rest
      BY DEF FlowInv, SameBranches
    <2>5. code[b].condTo \in 1..Len(fn)
      BY <2>1 DEF Shape
    <2>6. rest > Len(fn) => Outcome(code, order, rest, c) = Rest(code, order, rest)
      <3>1. rest \in Blocks \/ rest = 0
        <4>1. code[b].jump \in {"none", "RET", "JMP", "Bi"} /\ code[b].jumpTo \in Blocks
          BY <2>1, BlockFields DEF FlowInv, TypeInv
        <4>2. code[b].jump = "none" => rest \in Blocks
          BY <2>1, Falling DEF FallsThrough, FlowInv
        <4> QED
          BY <4>1, <4>2, RestCases
      <3> HIDE DEF rest
      <3>2. rest > Len(fn) => rest \in Blocks /\ code[rest].cond = "none"
        BY <2>1, <3>1 DEF Shape
      <3> QED
        BY <3>2, OutcomeCases DEF OutcomeIs, FlowInv, TypeInv
    <2> HIDE DEF to, rest
    <2>7. CASE code[b].cond # "none" /\ c
      <3>1. to = code[b].condTo /\ ~(to > Len(fn))
        BY <2>1, <2>3, <2>5, <2>7
      <3> QED
        BY <2>2, <2>4, <2>7, <3>1 DEF to
    <2>8. CASE ~(code[b].cond # "none" /\ c)
      <3>1. to = rest /\ Outcome(fn, InputOrder, b, c) = Rest(fn, InputOrder, b)
        BY <2>2, <2>3, <2>4, <2>8
      <3>2. CASE rest > Len(fn)
        BY <2>4, <2>6, <3>1, <3>2 DEF to
      <3>3. CASE ~(rest > Len(fn))
        BY <2>4, <3>1, <3>3 DEF to
      <3> QED
        BY <3>2, <3>3
    <2> QED
      BY <2>7, <2>8
  <1> QED
    BY <1>1, InitFlowInv, StepFlowInv, PTL DEF Spec

\* The successor lists, which only a split changes, always say what the code
\* does, so the block after an expanded branch is the successor that the
\* assertion of expandBranches wants it to be.
THEOREM SuccessorsCorrect == Spec => []SuccessorsExact
  <1>1. FlowInv => SuccessorsExact
    BY DEF FlowInv
  <1> QED
    BY <1>1, InitFlowInv, StepFlowInv, PTL DEF Spec

-----------------------------------------------------------------------------
\* Why no expansion is needless.  While the function is measured again some
\* offsets are those of the old positions: Offset is where measuring will
\* find the block at position i to start.
Offset(i) ==
    IF phase \in {"scan", "assemble"} \/ i < num THEN BlockOffsets[i]
    ELSE IF i = num THEN TotalSize
    ELSE IF i = num + 1 THEN TotalSize + Size(order[num])
    ELSE BlockOffsets[i - 1]

\* The positions whose offset is known.
Placed == IF phase = "measure" THEN num ELSE Len(code)

\* Each block starts where the one before ends.
OffsetsExact ==
    \A i \in 1..Placed - 1 : Offset(i + 1) = Offset(i) + Size(order[i])

\* Where block b starts.
At(b) == Offset(Number(b))

\* Out of reach of b, for a branch that ends short words after the body of b,
\* or long words after it if it goes forward.
Far(b, to, short, long) ==
    IF Number(to) > Number(b)
    THEN At(to) - (At(b) + code[b].body + long) >= Reach
    ELSE At(to) - (At(b) + code[b].body + short) < -Reach

\* A branch is long only once it was measured, and its destination is far.
LongIsFar(b) ==
    /\ code[b].cond = "long" => phase # "measure" /\ Far(b, code[b].condTo, 1, 3)
    /\ code[b].jump = "Bi" =>
          phase # "measure" /\ Far(b, code[b].jumpTo, CondSize(b) + 1, CondSize(b) + 2)

AllFar == \A b \in Blocks : LongIsFar(b)

NeedInv == ReachInv /\ FlowInv /\ OffsetsExact /\ AllFar

\* Offsets are natural numbers.
LEMMA OffsetIsNat ==
    ASSUME TypeOK, NEW i \in Blocks
    PROVE  Offset(i) \in Nat
  <1>1. /\ Len(code) \in Nat /\ num \in 1..Len(code) + 1 /\ TotalSize \in Nat
        /\ \A j \in 1..Len(code) : BlockOffsets[j] \in Nat
        /\ i \in 1..Len(code) /\ phase \in {"measure", "remeasure", "scan", "assemble"}
    <2>1. /\ Len(code) \in Nat /\ num \in 1..Len(code) + 1 /\ TotalSize \in Nat
          /\ phase \in {"measure", "remeasure", "scan", "assemble"}
      BY DEF TypeOK
    <2>2. BlockOffsets \in Seq(Nat) /\ Len(BlockOffsets) = Len(code)
      BY DEF TypeOK
    <2>3. \A j \in 1..Len(code) : BlockOffsets[j] \in Nat
      BY <2>2
    <2> QED
      BY <2>1, <2>3 DEF Blocks
  <1>2. i = num + 1 => Size(order[num]) \in Nat
    <2>1. i = num + 1 => num <= Len(order)
      BY <1>1 DEF TypeOK
    <2> QED
      BY <2>1, Current, BlockFields
  <1>3. i > num => i - 1 \in 1..Len(code)
    BY <1>1
  <1>4. CASE phase \in {"scan", "assemble"} \/ i < num
    BY <1>1, <1>4 DEF Offset
  <1>5. CASE ~(phase \in {"scan", "assemble"} \/ i < num)
    <2>1. CASE i = num
      BY <1>1, <1>5, <2>1 DEF Offset
    <2>2. CASE i = num + 1
      BY <1>1, <1>2, <1>5, <2>2 DEF Offset
    <2>3. CASE i # num /\ i # num + 1
      <3>1. i > num
        BY <1>1, <1>5, <2>3
      <3> QED
        BY <1>1, <1>3, <1>5, <2>3, <3>1 DEF Offset
    <2> QED
      BY <2>1, <2>2, <2>3
  <1> QED
    BY <1>4, <1>5

\* Measuring again and again, and looking at branches, leave the offsets.
LEMMA SameOffsets ==
    ASSUME NeedInv, [Next]_vars, ~SplitBlock, ~ExpandCond, ~ExpandJump
    PROVE  /\ UNCHANGED <<code, order>>
           /\ \A i \in 1..Placed' : Offset(i)' = Offset(i)
           /\ Placed' <= Placed \/ (Placed' = Placed + 1 /\ phase = "measure" /\ Placed = num)
           /\ phase # "measure" => phase' # "measure"
  <1>0. /\ Len(code) \in Nat /\ num \in 1..Len(code) + 1 /\ Len(order) = Len(code)
        /\ phase \in {"measure", "remeasure", "scan", "assemble"}
        /\ Len(BlockOffsets) = Len(code) /\ BlockOffsets \in Seq(Nat) /\ TotalSize \in Nat
    BY DEF NeedInv, FlowInv, TypeInv, TypeOK
  <1>1. CASE MeasureBlock
    <2>1. /\ num \in 1..Len(code) /\ num' = num + 1 /\ phase' = phase
          /\ phase \in {"measure", "remeasure"}
          /\ BlockOffsets' = [BlockOffsets EXCEPT ![num] = TotalSize]
          /\ TotalSize' = TotalSize + Size(order[num]) /\ UNCHANGED <<code, order>>
      BY <1>0, <1>1 DEF MeasureBlock
    <2>2. \A i \in 1..Len(code) : BlockOffsets'[i] = IF i = num THEN TotalSize
                                                    ELSE BlockOffsets[i]
      BY <1>0, <2>1
    <2>3. Placed' = IF phase = "measure" THEN num + 1 ELSE Len(code)
      BY <2>1 DEF Placed
    <2>4. ASSUME NEW i \in 1..Placed' PROVE Offset(i)' = Offset(i)
      <3>0. i \in 1..Len(code) + 1
        BY <1>0, <2>1, <2>3
      <3>1. CASE i <= num
        BY <1>0, <2>1, <2>2, <3>0, <3>1 DEF Offset
      <3>2. CASE i = num + 1
        <4>1. Offset(i) = TotalSize + Size(order[num])
          BY <1>0, <2>1, <3>2 DEF Offset
        <4>2. Offset(i)' = TotalSize'
          BY <1>0, <2>1, <3>2 DEF Offset
        <4> QED
          BY <2>1, <4>1, <4>2
      <3>3. CASE i = num + 2
        <4>1. phase = "remeasure" /\ num + 1 \in 1..Len(code) - 1
          BY <1>0, <2>1, <2>3, <3>3
        <4>2. Offset((num + 1) + 1) = Offset(num + 1) + Size(order[num + 1])
          BY <4>1 DEF NeedInv, OffsetsExact, Placed
        <4>3. Offset(num + 1) = TotalSize + Size(order[num])
          BY <1>0, <2>1 DEF Offset
        <4>4. Offset(i)' = TotalSize' + Size(order[num + 1])
          <5>1. order[num + 1] \in Blocks
            <6>1. num + 1 \in Blocks
              BY <1>0, <4>1 DEF Blocks
            <6> QED
              BY <6>1, Numbering DEF NumberIsInverse, NeedInv, FlowInv, TypeInv
          <5>2. \A x \in Blocks : Size(x)' = Size(x)
            BY <2>1 DEF Size, CondSize, JumpSize
          <5> QED
            BY <1>0, <2>1, <3>3, <5>1, <5>2 DEF Offset
        <4>5. (num + 1) + 1 = i
          BY <1>0, <3>3
        <4> QED
          BY <2>1, <4>2, <4>3, <4>4, <4>5
      <3>4. CASE i > num + 2
        <4>1. /\ i - 1 \in 1..Len(code) /\ i - 1 # num /\ ~(i < num) /\ i # num /\ i # num + 1
              /\ ~(i < num + 1) /\ i # num + 1 /\ i # (num + 1) + 1
          BY <1>0, <3>0, <3>4
        <4> QED
          BY <2>1, <2>2, <4>1 DEF Offset
      <3> QED
        BY <1>0, <3>0, <3>1, <3>2, <3>3, <3>4
    <2>5. Placed' <= Placed \/ (Placed' = Placed + 1 /\ phase = "measure" /\ Placed = num)
      BY <1>0, <2>1, <2>3 DEF Placed
    <2> QED
      BY <2>1, <2>4, <2>5
  <1>2. CASE EndMeasure \/ EndRemeasure
    <2>1. /\ num = Len(code) + 1 /\ phase \in {"measure", "remeasure"}
          /\ phase' \in {"scan", "assemble"}
          /\ UNCHANGED <<code, order, BlockOffsets>>
      BY <1>0, <1>2 DEF EndMeasure, EndRemeasure, StartScan
    <2>2. Placed' = Len(code)
      BY <2>1 DEF Placed
    <2>3. \A i \in 1..Len(code) : Offset(i)' = Offset(i)
      BY <1>0, <2>1 DEF Offset
    <2> QED
      BY <1>0, <2>1, <2>2, <2>3 DEF Placed
  <1>3. CASE SkipCond \/ SkipJump \/ EndScan \/ PlaceBlock
    <2>1. /\ phase \in {"scan", "assemble"} /\ phase' \in {"scan", "assemble"}
          /\ UNCHANGED <<code, order, BlockOffsets>>
      BY <1>3 DEF SkipCond, SkipJump, EndScan, PlaceBlock, StartScan, Scanning
    <2> QED
      BY <2>1 DEF Placed, Offset
  <1>4. CASE UNCHANGED vars
    <2>1. UNCHANGED <<code, order, num, phase, BlockOffsets, TotalSize>>
      BY <1>4 DEF vars
    <2>2. Placed' = Placed
      BY <2>1 DEF Placed
    <2>3. \A i : Offset(i)' = Offset(i)
      BY <2>1 DEF Offset, Size, CondSize, JumpSize
    <2> QED
      BY <1>0, <2>1, <2>2, <2>3 DEF Placed
  <1> QED
    BY <1>1, <1>2, <1>3, <1>4 DEF Next

\* A split moves no block: the new one starts where the jump of b did.
LEMMA SplitOffsets ==
    ASSUME NeedInv, TypeInv', SplitBlock
    PROVE  LET b == order[num]
               New == Len(code) + 1
           IN  /\ phase = "scan" /\ phase' = "remeasure" /\ num' = num
               /\ num \in 1..Len(code) /\ Len(code) \in Nat /\ b \in Blocks
               /\ CondSize(b) = 1
               /\ \A x \in Blocks : x # b => Size(x)' = Size(x)
               /\ \A x \in Blocks : x = b => Size(x)' = code[b].body + 1
               /\ \A x \in Blocks' : x = New => Size(x)' = JumpSize(b)
               /\ \A i \in 1..Len(code) : BlockOffsets[i] \in Nat /\ Offset(i) = BlockOffsets[i]
               /\ \A i \in 1..num : Offset(i)' = BlockOffsets[i]
               /\ Offset(num + 1)' = BlockOffsets[num] + code[b].body + 1
               /\ \A i \in num + 2..New : Offset(i)' = BlockOffsets[i - 1]
  <1> DEFINE b == order[num]
             New == Len(code) + 1
  <1>1. /\ phase = "scan" /\ phase' = "remeasure" /\ num' = num
        /\ TotalSize' = BlockOffsets[num] /\ BlockOffsets' = Append(BlockOffsets, 0)
        /\ code[b].cond = "JCC"
    BY DEF SplitBlock, Scanning, ResizedOffsets
  <1>2. /\ num \in 1..Len(code) /\ b \in Blocks /\ Len(code) \in Nat
        /\ \A i \in Blocks : code'[i] =
               IF i = b THEN [code[b] EXCEPT !.jump = "none"] ELSE code[i]
        /\ code'[New] = [code[b] EXCEPT !.body = 0, !.real = 0, !.cond = "none"]
        /\ order'[num] = b
    <2>1. /\ num \in Blocks /\ b \in Blocks /\ Len(code) \in Nat
          /\ \A i \in Blocks : code'[i] =
                 IF i = b THEN [code[b] EXCEPT !.jump = "none"] ELSE code[i]
          /\ code'[New] = [code[b] EXCEPT !.body = 0, !.real = 0, !.cond = "none"]
          /\ \A i \in 1..New : order'[i] =
                 IF i <= num THEN order[i] ELSE IF i = num + 1 THEN New ELSE order[i - 1]
      BY SplitEffect DEF NeedInv, FlowInv
    <2>2. num \in 1..New /\ num <= num
      BY <2>1 DEF Blocks
    <2> QED
      BY <2>1, <2>2 DEF Blocks
  <1>3. /\ code[b] \in MachineBasicBlock(Blocks) /\ code[b].body \in Nat
        /\ JumpSize(b) \in 0..2
    BY <1>2, BlockFields DEF NeedInv, FlowInv, TypeInv
  <1>4. /\ code'[b].body = code[b].body /\ code'[b].cond = "JCC" /\ code'[b].jump = "none"
        /\ code'[New].body = 0 /\ code'[New].cond = "none" /\ code'[New].jump = code[b].jump
    BY <1>1, <1>2, <1>3 DEF MachineBasicBlock
  <1>5. ASSUME NEW x \in Blocks, x = b PROVE Size(x)' = code[b].body + 1
    <2>1. code'[x].body = code[b].body /\ code'[x].cond = "JCC" /\ code'[x].jump = "none"
      BY <1>4, <1>5
    <2>2. CondSize(x)' = 1 /\ JumpSize(x)' = 0
      BY <2>1 DEF CondSize, JumpSize
    <2> QED
      BY <1>3, <2>1, <2>2 DEF Size
  <1>6. ASSUME NEW x \in Blocks', x = New PROVE Size(x)' = JumpSize(b)
    <2>1. code'[x].body = 0 /\ code'[x].cond = "none" /\ code'[x].jump = code[b].jump
      BY <1>4, <1>6
    <2>2. CondSize(x)' = 0 /\ JumpSize(x)' = JumpSize(b)
      BY <2>1 DEF CondSize, JumpSize
    <2> QED
      BY <1>3, <2>1, <2>2 DEF Size
  <1>7. ASSUME NEW x \in Blocks, x # b PROVE Size(x)' = Size(x)
    <2>1. code'[x] = code[x]
      BY <1>2, <1>7
    <2> QED
      BY <2>1 DEF Size, CondSize, JumpSize
  <1>8. /\ \A i \in 1..Len(code) : BlockOffsets[i] \in Nat /\ BlockOffsets'[i] = BlockOffsets[i]
        /\ \A i \in 1..Len(code) : Offset(i) = BlockOffsets[i]
    <2>1. BlockOffsets \in Seq(Nat) /\ Len(BlockOffsets) = Len(code)
      BY DEF NeedInv, FlowInv, TypeInv, TypeOK
    <2> QED
      BY <1>1, <2>1 DEF Offset
  <1>9. \A i \in 1..num : Offset(i)' = BlockOffsets[i]
    <2> SUFFICES ASSUME NEW i \in 1..num PROVE Offset(i)' = BlockOffsets[i]
      OBVIOUS
    <2>1. CASE i < num
      <3>1. i \in 1..Len(code)
        BY <1>2
      <3> QED
        BY <1>1, <1>8, <2>1, <3>1 DEF Offset
    <2>2. CASE i = num
      <3>1. ~(i < num)
        BY <1>2, <2>2
      <3> QED
        BY <1>1, <2>2, <3>1 DEF Offset
    <2> QED
      BY <1>2, <2>1, <2>2
  <1>10. Offset(num + 1)' = BlockOffsets[num] + code[b].body + 1
    <2>1. ASSUME NEW i, i = num + 1 PROVE Offset(i)' = BlockOffsets[num] + (code[b].body + 1)
      <3>1. ASSUME NEW x \in Blocks, x = b PROVE Offset(i)' = TotalSize' + Size(x)'
        <4>1. i # num /\ ~(i < num) /\ order'[num] = x
          BY <1>2, <2>1, <3>1
        <4> QED
          BY <1>1, <2>1, <4>1 DEF Offset
      <3> QED
        BY <1>1, <1>2, <1>5, <3>1
    <2>2. (num + 1)' = num + 1
      BY <1>1
    <2> QED
      BY <1>2, <1>3, <1>8, <2>1, <2>2
  <1>11. \A i \in num + 2..New : Offset(i)' = BlockOffsets[i - 1]
    <2> SUFFICES ASSUME NEW i \in num + 2..New PROVE Offset(i)' = BlockOffsets[i - 1]
      OBVIOUS
    <2>1. ~(i < num) /\ i # num /\ i # num + 1 /\ i - 1 \in 1..Len(code)
      BY <1>2
    <2> QED
      BY <1>1, <1>8, <2>1 DEF Offset
  <1>12. CondSize(b) = 1
    BY <1>1 DEF CondSize
  <1> QED
    BY <1>1, <1>2, <1>5, <1>6, <1>7, <1>8, <1>9, <1>10, <1>11, <1>12

\* Every step keeps the offsets exact ...
LEMMA StepOffsetsExact == NeedInv /\ TypeInv' /\ [Next]_vars => OffsetsExact'
  <1> SUFFICES ASSUME NeedInv, TypeInv', [Next]_vars PROVE OffsetsExact'
    OBVIOUS
  <1>0. /\ Len(code) \in Nat /\ num \in 1..Len(code) + 1 /\ Len(order) = Len(code)
        /\ phase \in {"measure", "remeasure", "scan", "assemble"}
    BY DEF NeedInv, FlowInv, TypeInv, TypeOK
  <1>1. Placed \in 1..Len(code) + 1 \/ Placed = 0
    BY <1>0 DEF Placed
  <1>2. \A i \in 1..Len(code) : order[i] \in Blocks
    BY Numbering DEF NumberIsInverse, NeedInv, FlowInv, TypeInv, Blocks
  <1>3. CASE SplitBlock
    <2> DEFINE b == order[num]
               New == Len(code) + 1
    <2>1. /\ phase = "scan" /\ phase' = "remeasure" /\ num \in 1..Len(code) /\ b \in Blocks
          /\ CondSize(b) = 1
          /\ \A x \in Blocks : x # b => Size(x)' = Size(x)
          /\ \A x \in Blocks : x = b => Size(x)' = code[b].body + 1
          /\ \A x \in Blocks' : x = New => Size(x)' = JumpSize(b)
          /\ \A i \in 1..Len(code) : BlockOffsets[i] \in Nat /\ Offset(i) = BlockOffsets[i]
          /\ \A i \in num + 2..New : Offset(i)' = BlockOffsets[i - 1]
      BY <1>3, SplitOffsets
    <2>2. /\ \A i \in 1..num : Offset(i)' = BlockOffsets[i]
          /\ \A i : i = num + 1 => Offset(i)' = BlockOffsets[num] + code[b].body + 1
      <3>1. num' = num
        BY <1>3, SplitOffsets
      <3>2. \A i \in 1..num : Offset(i)' = BlockOffsets[i]
        BY <1>3, SplitOffsets
      <3>3. Offset(num + 1)' = BlockOffsets[num] + code[b].body + 1
        BY <1>3, SplitOffsets
      <3> QED
        BY <3>1, <3>2, <3>3
    <2>3. Len(code') = New /\ Placed' = New /\ New \in Blocks' /\ Blocks \subseteq Blocks'
      <3>1. Len(code') = New
        BY <1>3, SplitEffect DEF NeedInv, FlowInv
      <3> QED
        BY <1>0, <2>1, <3>1 DEF Placed, Blocks
    <2>4. \A i \in 1..New : order'[i] =
             IF i <= num THEN order[i] ELSE IF i = num + 1 THEN New ELSE order[i - 1]
      BY <1>3, SplitEffect DEF NeedInv, FlowInv
    <2>5. \A i \in 1..Len(code) - 1 : BlockOffsets[i + 1] = BlockOffsets[i] + Size(order[i])
      <3>1. \A i \in 1..Len(code) - 1 : Offset(i + 1) = Offset(i) + Size(order[i])
        BY <2>1 DEF NeedInv, OffsetsExact, Placed
      <3> QED
        BY <1>0, <2>1, <3>1
    <2>6. code[b].body \in Nat /\ Size(b) = code[b].body + 1 + JumpSize(b) /\ JumpSize(b) \in 0..2
      BY <2>1, BlockFields DEF Size, NeedInv, FlowInv, TypeInv
    <2>7. \A i \in 1..Len(code) : i # num => order[i] # b
      BY <2>1, Numbering DEF NumberIsInverse, NeedInv, FlowInv, TypeInv, Blocks
    <2>8. ASSUME NEW i \in 1..Len(code)
          PROVE  \A j \in 1..New, x \in Blocks' :
                    j = i + 1 /\ x = order'[i] => Offset(j)' = Offset(i)' + Size(x)'
      <3> SUFFICES ASSUME NEW j \in 1..New, NEW x \in Blocks', j = i + 1, x = order'[i]
                   PROVE  Offset(j)' = Offset(i)' + Size(x)'
        BY Zenon
      <3>1. CASE i < num
        <4>1. /\ i \in 1..num /\ j \in 1..num /\ i \in 1..Len(code) - 1 /\ i \in 1..New
              /\ i <= num /\ i # num
          BY <1>0, <2>1, <3>1
        <4>2. x = order[i] /\ x # b /\ x \in Blocks
          BY <1>2, <2>4, <2>7, <4>1
        <4>3. Size(x)' = Size(order[i])
          BY <2>1, <4>2
        <4> QED
          BY <2>2, <2>5, <4>1, <4>3
      <3>2. CASE i = num
        <4>1. i \in 1..num /\ i \in 1..New /\ i <= num /\ j = num + 1
          BY <1>0, <2>1, <3>2
        <4>2. x = b
          BY <2>4, <3>2, <4>1
        <4>3. Size(x)' = code[b].body + 1 /\ BlockOffsets[num] \in Nat
          BY <2>1, <4>2
        <4>4. Offset(j)' = BlockOffsets[num] + code[b].body + 1 /\ Offset(i)' = BlockOffsets[num]
          BY <2>2, <3>2, <4>1
        <4> QED
          BY <2>6, <4>3, <4>4
      <3>3. CASE i = num + 1
        <4>1. /\ j \in num + 2..New /\ j - 1 = i /\ i \in 1..New /\ ~(i <= num)
              /\ num \in 1..Len(code) - 1
          BY <1>0, <2>1, <3>3
        <4>2. x = New
          BY <2>4, <3>3, <4>1
        <4>3. Size(x)' = JumpSize(b) /\ BlockOffsets[num] \in Nat
          BY <2>1, <4>2
        <4>4. Offset(j)' = BlockOffsets[num + 1] /\ Offset(i)' = BlockOffsets[num] + code[b].body + 1
          BY <2>1, <2>2, <3>3, <4>1
        <4>5. BlockOffsets[num + 1] = BlockOffsets[num] + Size(b)
          BY <2>5, <4>1
        <4> HIDE DEF b, New
        <4>6. BlockOffsets[num + 1] = BlockOffsets[num] + (code[b].body + 1 + JumpSize(b))
          BY <2>6, <4>5
        <4> QED
          BY <2>6, <4>3, <4>4, <4>6
      <3>4. CASE i > num + 1
        <4>1. /\ j \in num + 2..New /\ i \in num + 2..New /\ j - 1 = (i - 1) + 1 /\ i \in 1..New
              /\ ~(i <= num) /\ i # num + 1 /\ i - 1 \in 1..Len(code) - 1 /\ i - 1 # num
              /\ i - 1 \in 1..Len(code)
          BY <1>0, <2>1, <3>4
        <4>2. x = order[i - 1] /\ x # b /\ x \in Blocks
          BY <1>2, <2>4, <2>7, <4>1
        <4>3. Size(x)' = Size(order[i - 1])
          BY <2>1, <4>2
        <4>4. Offset(j)' = BlockOffsets[(i - 1) + 1] /\ Offset(i)' = BlockOffsets[i - 1]
          BY <2>1, <4>1
        <4> QED
          BY <2>5, <4>1, <4>3, <4>4
      <3> QED
        BY <1>0, <2>1, <3>1, <3>2, <3>3, <3>4
    <2>9. ASSUME NEW i \in 1..Placed' - 1
          PROVE  (Offset(i + 1) = Offset(i) + Size(order[i]))'
      <3>1. i \in 1..Len(code) /\ i + 1 \in 1..New /\ i \in 1..New
        BY <1>0, <2>3
      <3>2. order'[i] \in Blocks'
        BY <2>3, <3>1, NextNumbering DEF NumberIsInverse, TypeInv, Blocks
      <3> QED
        BY <2>8, <3>1, <3>2
    <2> QED
      BY <2>9 DEF OffsetsExact
  <1>4. CASE ExpandCond \/ ExpandJump
    <2>1. PICK diff \in {1, 2} :
              /\ num \in Blocks /\ order[num] \in Blocks /\ Blocks' = Blocks
              /\ order' = order /\ phase = "scan" /\ phase' = "scan"
              /\ \A b \in Blocks : Size(b)' = Size(b) + IF b = order[num] THEN diff ELSE 0
              /\ \A i \in Blocks :
                    BlockOffsets'[i] = BlockOffsets[i] + IF i > num THEN diff ELSE 0
      BY <1>4, ExpandEffect DEF NeedInv, FlowInv
    <2>2. Len(code') = Len(code) /\ Placed' = Len(code) /\ Placed = Len(code)
      <3>1. Len(code') = Len(code)
        BY <1>4, ExpandFlow DEF NeedInv
      <3> QED
        BY <2>1, <3>1 DEF Placed
    <2>3. ASSUME NEW i \in 1..Len(code) - 1
          PROVE  (Offset(i + 1) = Offset(i) + Size(order[i]))'
      <3>1. i \in Blocks /\ i + 1 \in Blocks /\ order[i] \in Blocks
        BY <1>0, <1>2 DEF Blocks
      <3>2. BlockOffsets[i + 1] = BlockOffsets[i] + Size(order[i])
        <4>1. Offset(i + 1) = Offset(i) + Size(order[i])
          BY <2>2 DEF NeedInv, OffsetsExact
        <4> QED
          BY <2>1, <4>1 DEF Offset
      <3>3. BlockOffsets[i] \in Nat /\ Size(order[i]) \in Nat /\ num \in Nat
        <4>1. BlockOffsets \in Seq(Nat) /\ Len(BlockOffsets) = Len(code) /\ TypeOK
          BY DEF NeedInv, FlowInv, TypeInv, TypeOK
        <4>2. BlockOffsets[i] \in Nat
          BY <1>0, <4>1
        <4>3. Size(order[i]) \in Nat
          BY <3>1, <4>1, BlockFields
        <4> QED
          BY <1>0, <4>2, <4>3
      <3>4. order[i] = order[num] <=> i = num
        BY <2>1, <3>1, Numbering DEF NumberIsInverse, NeedInv, FlowInv, TypeInv
      <3>5. Offset(i)' = BlockOffsets'[i] /\ Offset(i + 1)' = BlockOffsets'[i + 1]
        BY <2>1 DEF Offset
      <3>6. Size(order[i])' = Size(order[i]) + IF i = num THEN diff ELSE 0
        BY <2>1, <3>1, <3>4
      <3>7. /\ BlockOffsets'[i] = BlockOffsets[i] + IF i > num THEN diff ELSE 0
            /\ BlockOffsets'[i + 1] = BlockOffsets[i + 1] + IF i + 1 > num THEN diff ELSE 0
        BY <2>1, <3>1
      <3> QED
        BY <3>2, <3>3, <3>5, <3>6, <3>7
    <2> QED
      BY <2>2, <2>3 DEF OffsetsExact
  <1>5. CASE ~SplitBlock /\ ~(ExpandCond \/ ExpandJump)
    <2>1. /\ UNCHANGED <<code, order>>
          /\ \A i \in 1..Placed' : Offset(i)' = Offset(i)
          /\ Placed' <= Placed \/ (Placed' = Placed + 1 /\ phase = "measure" /\ Placed = num)
      BY <1>5, SameOffsets
    <2>2. \A x \in Blocks : Size(x)' = Size(x)
      BY <2>1 DEF Size, CondSize, JumpSize
    <2>3. PICK p \in 0..Len(code) + 1 : Placed' = p
      <3>1. num' \in 1..Len(code) + 1 /\ Len(code') = Len(code)
        BY <2>1 DEF TypeInv, TypeOK
      <3> QED
        BY <1>0, <3>1 DEF Placed
    <2>4. ASSUME NEW i \in 1..p - 1
          PROVE  (Offset(i + 1) = Offset(i) + Size(order[i]))'
      <3>1. i \in 1..p /\ i + 1 \in 1..p /\ i \in 1..Len(code)
        BY <1>0, <2>3
      <3>2. Offset(i + 1) = Offset(i) + Size(order[i])
        <4>1. CASE i \in 1..Placed - 1
          BY <4>1 DEF NeedInv, OffsetsExact
        <4>2. CASE i \notin 1..Placed - 1
          <5>1. Placed <= i
            BY <1>0, <1>1, <3>1, <4>2
          <5>2. i = num /\ phase = "measure"
            BY <1>0, <1>1, <2>1, <2>3, <5>1
          <5> QED
            BY <1>0, <5>2 DEF Offset
        <4> QED
          BY <4>1, <4>2
      <3>3. Size(order[i])' = Size(order[i])
        BY <1>2, <2>1, <2>2, <3>1
      <3>4. Offset(i)' = Offset(i) /\ Offset(i + 1)' = Offset(i + 1)
        BY <2>1, <2>3, <3>1
      <3> QED
        BY <3>2, <3>3, <3>4
    <2> QED
      BY <2>3, <2>4 DEF OffsetsExact
  <1> QED
    BY <1>3, <1>4, <1>5

\* A split leaves what is far: no block moves, and the jump it cuts off
\* stays at its place.
LEMMA SplitKeepsFar ==
    ASSUME NeedInv, TypeInv', SplitBlock
    PROVE  AllFar'
  <1> DEFINE b == order[num]
             New == Len(code) + 1
  <1>1. /\ phase = "scan" /\ phase' = "remeasure"
        /\ num \in 1..Len(code) /\ Len(code) \in Nat /\ b \in Blocks /\ CondSize(b) = 1
        /\ \A i \in 1..Len(code) : BlockOffsets[i] \in Nat /\ Offset(i) = BlockOffsets[i]
        /\ \A i \in num + 2..New : Offset(i)' = BlockOffsets[i - 1]
    BY SplitOffsets
  <1>2. /\ \A i \in 1..num : Offset(i)' = BlockOffsets[i]
        /\ \A i : i = num + 1 => Offset(i)' = BlockOffsets[num] + code[b].body + 1
    <2>1. num' = num
      BY SplitOffsets
    <2>2. \A i \in 1..num : Offset(i)' = BlockOffsets[i]
      BY SplitOffsets
    <2>3. Offset(num + 1)' = BlockOffsets[num] + code[b].body + 1
      BY SplitOffsets
    <2> QED
      BY <2>1, <2>2, <2>3
  <1>3. \A x \in Blocks : Number(x) \in 1..Len(code)
    BY Numbering DEF NumberIsInverse, NeedInv, FlowInv, TypeInv, Blocks
  <1>4. /\ Blocks' = Blocks \cup {New}
        /\ \A x \in Blocks : Number(x)' = IF Number(x) <= num THEN Number(x) ELSE Number(x) + 1
        /\ \A x \in Blocks' : x = New => Number(x)' = num + 1
    BY SplitNumbers DEF NeedInv, FlowInv
  <1>5. ASSUME NEW x \in Blocks
        PROVE  At(x) = BlockOffsets[Number(x)] /\ At(x)' = At(x) /\ At(x) \in Nat
    <2>1. At(x) = BlockOffsets[Number(x)] /\ At(x) \in Nat
      BY <1>1, <1>3 DEF At
    <2>2. CASE Number(x) <= num
      <3>1. Number(x)' = Number(x) /\ Number(x) \in 1..num
        BY <1>3, <1>4, <2>2
      <3> QED
        BY <1>2, <2>1, <3>1 DEF At
    <2>3. CASE ~(Number(x) <= num)
      <3>1. /\ Number(x)' = Number(x) + 1 /\ Number(x) + 1 \in num + 2..New
            /\ (Number(x) + 1) - 1 = Number(x)
        BY <1>1, <1>3, <1>4, <2>3
      <3> QED
        BY <1>1, <2>1, <3>1 DEF At
    <2> QED
      BY <2>1, <2>2, <2>3
  <1>6. /\ code'[b].cond = "JCC" /\ code'[b].jump = "none" /\ code'[New].cond = "none"
        /\ code'[New].jumpTo = code[b].jumpTo /\ code[b].cond = "JCC"
        /\ \A x \in Blocks : x # b => code'[x] = code[x]
    BY SplitFlow DEF NeedInv
  <1>7. code'[New].body = 0 /\ code'[New].jump = code[b].jump
    <2>1. code'[New] = [code[b] EXCEPT !.body = 0, !.real = 0, !.cond = "none"]
      BY SplitEffect DEF NeedInv, FlowInv
    <2>2. code[b] \in MachineBasicBlock(Blocks)
      BY <1>1, BlockFields DEF NeedInv, FlowInv, TypeInv
    <2> QED
      BY <2>1, <2>2 DEF MachineBasicBlock
  <1>8. ASSUME NEW x \in Blocks, x # b PROVE LongIsFar(x)'
    <2>1. code'[x] = code[x] /\ code[x].body \in Nat
          /\ code[x].condTo \in Blocks /\ code[x].jumpTo \in Blocks
      BY <1>6, <1>8, BlockFields DEF NeedInv, FlowInv, TypeInv
    <2>2. ASSUME NEW to \in Blocks PROVE Number(to)' > Number(x)' <=> Number(to) > Number(x)
      BY <1>1, <1>3, <1>4
    <2>3. ASSUME NEW to \in Blocks, NEW short, NEW long, Far(x, to, short, long)
          PROVE  Far(x, to, short, long)'
      BY <1>5, <2>1, <2>2, <2>3 DEF Far
    <2>4. LongIsFar(x) /\ CondSize(x)' = CondSize(x)
      BY <2>1 DEF NeedInv, AllFar, CondSize
    <2>5. \A to \in Blocks : \A short, long : Far(x, to, short, long) => Far(x, to, short, long)'
      BY <2>3
    <2> QED
      BY <1>1, <2>1, <2>4, <2>5 DEF LongIsFar
  <1>9. ASSUME NEW x \in Blocks', x = New PROVE LongIsFar(x)'
    <2>1. code'[x].cond = "none" /\ code'[x].body = 0
          /\ code'[x].jump = code[b].jump /\ code'[x].jumpTo = code[b].jumpTo
      BY <1>6, <1>7, <1>9
    <2>2. code[b].jumpTo \in Blocks /\ code[b].body \in Nat
      BY <1>1, BlockFields DEF NeedInv, FlowInv, TypeInv
    <2>3. CondSize(x)' = 0
      BY <2>1 DEF CondSize
    <2>4. ASSUME code[b].jump = "Bi" PROVE Far(b, code[b].jumpTo, 2, 3)
      <3>1. LongIsFar(b)
        BY <1>1 DEF NeedInv, AllFar
      <3> QED
        BY <1>1, <2>4, <3>1 DEF LongIsFar
    <2>5. Number(b) = num
      BY <1>1, Numbering DEF NumberIsInverse, NeedInv, FlowInv, TypeInv, Blocks
    <2>6. Number(x)' = num + 1 /\ At(x)' = At(b) + code[b].body + 1
      <3>1. Number(x)' = num + 1
        BY <1>4, <1>9
      <3>2. At(b) = BlockOffsets[num]
        BY <1>1, <1>5, <2>5
      <3> QED
        BY <1>2, <3>1, <3>2 DEF At
    <2>7. ASSUME NEW to \in Blocks PROVE Number(to)' > Number(x)' <=> Number(to) > Number(b)
      BY <1>1, <1>3, <1>4, <2>5, <2>6
    <2>8. ASSUME NEW to \in Blocks, Far(b, to, 2, 3) PROVE Far(x, to, 1, 2)'
      <3>1. At(to)' = At(to) /\ At(to) \in Nat /\ At(b) \in Nat /\ Reach \in Nat
        BY <1>1, <1>5, ReachAssumption
      <3> HIDE DEF b
      <3>2. CASE Number(to) > Number(b)
        <4>1. At(to) - (At(b) + code[b].body + 3) >= Reach
          BY <2>8, <3>2 DEF Far
        <4>2. At(to)' - (At(x)' + code'[x].body + 2) >= Reach
          BY <2>1, <2>2, <2>6, <3>1, <4>1
        <4> QED
          BY <2>7, <3>2, <4>2 DEF Far
      <3>3. CASE ~(Number(to) > Number(b))
        <4>1. At(to) - (At(b) + code[b].body + 2) < -Reach
          BY <2>8, <3>3 DEF Far
        <4>2. At(to)' - (At(x)' + code'[x].body + 1) < -Reach
          BY <2>1, <2>2, <2>6, <3>1, <4>1
        <4> QED
          BY <2>7, <3>3, <4>2 DEF Far
      <3> QED
        BY <3>2, <3>3
    <2> QED
      BY <1>1, <2>1, <2>2, <2>3, <2>4, <2>8 DEF LongIsFar
  <1>10. ASSUME NEW x \in Blocks, x = b PROVE LongIsFar(x)'
    BY <1>6, <1>10 DEF LongIsFar
  <1> QED
    BY <1>4, <1>8, <1>9, <1>10 DEF AllFar

\* An expansion only takes blocks further apart, and the branch it expands
\* is too far.
LEMMA ExpandKeepsFar ==
    ASSUME NeedInv, ExpandCond \/ ExpandJump
    PROVE  AllFar'
  <1> DEFINE b == order[num]
  <1>1. PICK diff \in {1, 2} :
            /\ num \in Blocks /\ b \in Blocks /\ Blocks' = Blocks
            /\ order' = order /\ phase = "scan" /\ phase' = "scan"
            /\ \A x \in Blocks : code'[x].body = code[x].body
            /\ \A i \in Blocks :
                  BlockOffsets'[i] = BlockOffsets[i] + IF i > num THEN diff ELSE 0
            /\ \A x \in Blocks : Size(x)' = Size(x) + IF x = b THEN diff ELSE 0
    BY ExpandEffect DEF NeedInv, FlowInv
  <1>2. /\ \A x \in Blocks : x # b => code'[x] = code[x]
        /\ code'[b].condTo = code[b].condTo /\ code'[b].jumpTo = code[b].jumpTo
        /\ \/ /\ code'[b].cond = "long" /\ code[b].jump = "none" /\ code'[b].jump = "none"
           \/ /\ code'[b].cond = code[b].cond /\ code[b].cond # "long"
              /\ code[b].jump = "JMP" /\ code'[b].jump = "Bi"
    BY ExpandFlow DEF NeedInv
  <1>3. /\ num \in Nat /\ Number(b) = num
        /\ \A x \in Blocks : Number(x) \in Blocks /\ Number(x) \in Nat /\ Number(x)' = Number(x)
    <2>1. \A x \in Blocks : Number(x)' = Number(x)
      BY <1>1 DEF Number
    <2>2. Blocks \subseteq Nat
      BY DEF NeedInv, FlowInv, TypeInv, TypeOK, Blocks
    <2> QED
      BY <1>1, <2>1, <2>2, Numbering DEF NumberIsInverse, NeedInv, FlowInv, TypeInv
  <1>4. \A x \in Blocks :
            /\ At(x) = BlockOffsets[Number(x)] /\ At(x) \in Nat
            /\ At(x)' = At(x) + IF Number(x) > num THEN diff ELSE 0
    <2> SUFFICES ASSUME NEW x \in Blocks
                 PROVE  /\ At(x) = BlockOffsets[Number(x)] /\ At(x) \in Nat
                        /\ At(x)' = At(x) + IF Number(x) > num THEN diff ELSE 0
      OBVIOUS
    <2>1. At(x) = BlockOffsets[Number(x)] /\ At(x)' = BlockOffsets'[Number(x)]
      BY <1>1, <1>3 DEF At, Offset
    <2>2. BlockOffsets[Number(x)] \in Nat
      <3>1. BlockOffsets \in Seq(Nat) /\ Blocks = 1..Len(BlockOffsets)
        BY DEF NeedInv, FlowInv, TypeInv, TypeOK, Blocks
      <3> QED
        BY <1>3, <3>1
    <2> QED
      BY <1>1, <1>3, <2>1, <2>2
  <1>5. ASSUME NEW x \in Blocks, NEW to \in Blocks, NEW short \in Nat, NEW long \in Nat,
               Far(x, to, short, long)
        PROVE  Far(x, to, short, long)'
    <2>1. /\ At(x) \in Nat /\ At(to) \in Nat /\ Reach \in Nat /\ code[x].body \in Nat
          /\ code'[x].body = code[x].body
          /\ At(x)' = At(x) + IF Number(x) > num THEN diff ELSE 0
          /\ At(to)' = At(to) + IF Number(to) > num THEN diff ELSE 0
      BY <1>1, <1>4, BlockFields, ReachAssumption DEF NeedInv, FlowInv, TypeInv
    <2>2. CASE Number(to) > Number(x)
      <3>1. At(to) - (At(x) + code[x].body + long) >= Reach
        BY <1>5, <2>2 DEF Far
      <3>2. Number(x) > num => Number(to) > num
        BY <1>3, <2>2
      <3>3. At(to)' - (At(x)' + code'[x].body + long) >= Reach
        BY <2>1, <3>1, <3>2
      <3> QED
        BY <1>3, <2>2, <3>3 DEF Far
    <2>3. CASE ~(Number(to) > Number(x))
      <3>1. At(to) - (At(x) + code[x].body + short) < -Reach
        BY <1>5, <2>3 DEF Far
      <3>2. Number(to) > num => Number(x) > num
        BY <1>3, <2>3
      <3>3. At(to)' - (At(x)' + code'[x].body + short) < -Reach
        BY <2>1, <3>1, <3>2
      <3> QED
        BY <1>3, <2>3, <3>3 DEF Far
    <2> QED
      BY <2>2, <2>3
  <1>6. ASSUME NEW x \in Blocks, x # b PROVE LongIsFar(x)'
    <2>1. /\ code'[x] = code[x] /\ CondSize(x) \in Nat
          /\ code[x].condTo \in Blocks /\ code[x].jumpTo \in Blocks
      BY <1>2, <1>6, BlockFields DEF NeedInv, FlowInv, TypeInv
    <2>2. LongIsFar(x) /\ CondSize(x)' = CondSize(x)
      BY <2>1 DEF NeedInv, AllFar, CondSize
    <2>3. \A to \in Blocks : \A short, long \in Nat :
              Far(x, to, short, long) => Far(x, to, short, long)'
      BY <1>5
    <2>4. CondSize(x) + 1 \in Nat /\ CondSize(x) + 2 \in Nat /\ 1 \in Nat /\ 3 \in Nat
      BY <2>1
    <2> QED
      BY <1>1, <2>1, <2>2, <2>3, <2>4 DEF LongIsFar
  <1>7. ASSUME NEW to \in Blocks, NEW n \in Nat, NEW m \in Nat, NEW k \in Nat,
               m = n + k, k = diff,
               n <= Size(b) - code[b].body,
               ~InRange(BlockOffsets[Number(to)] - BlockOffsets[num] - (code[b].body + n))
        PROVE  \A x \in Blocks : x = b => Far(x, to, n, m)'
    <2>0. SUFFICES ASSUME NEW x \in Blocks, x = b PROVE Far(x, to, n, m)'
      OBVIOUS
    <2>1. /\ At(x) = BlockOffsets[num] /\ At(to) = BlockOffsets[Number(to)]
          /\ At(x) \in Nat /\ At(to) \in Nat /\ Reach \in Nat /\ Reach > 2
          /\ code[x].body \in Nat /\ code'[x].body = code[x].body
          /\ At(x)' = At(x) /\ At(to)' = At(to) + IF Number(to) > num THEN diff ELSE 0
          /\ Size(b) \in Nat /\ diff \in Nat
      <3>1. At(x) = BlockOffsets[num] /\ At(x)' = At(x)
        <4>1. Number(x) = num /\ ~(num > num)
          BY <1>3, <2>0
        <4> QED
          BY <1>4, <4>1
      <3> QED
        BY <1>1, <1>4, <3>1, BlockFields, ReachAssumption DEF NeedInv, FlowInv, TypeInv
    <2>2. \A i, j \in Blocks : i < j => BlockOffsets[i] + Size(order[i]) <= BlockOffsets[j]
      BY <1>1 DEF NeedInv, ReachInv, OffsetsApart, Measured, Blocks, TypeInv, TypeOK
    <2>3. /\ num < Number(to) => At(x) + Size(b) <= At(to)
          /\ Number(to) < num => At(to) + Size(order[Number(to)]) <= At(x)
      BY <1>1, <1>3, <2>1, <2>2
    <2>4. Size(order[Number(to)]) \in Nat
      BY <1>3, BlockFields, Numbering DEF NumberIsInverse, NeedInv, FlowInv, TypeInv
    <2>5. ~InRange(At(to) - At(x) - (code[x].body + n))
      BY <1>7, <2>0, <2>1
    <2>6. CASE Number(to) > num
      <3>1. At(x) + Size(b) <= At(to)
        BY <1>3, <2>3, <2>6
      <3>2. At(to) - At(x) - (code[x].body + n) >= 0
        BY <1>7, <2>0, <2>1, <3>1
      <3>3. At(to) - At(x) - (code[x].body + n) >= Reach
        BY <2>1, <2>5, <3>2 DEF InRange
      <3>4. At(to)' - (At(x)' + code'[x].body + m) >= Reach
        BY <1>7, <2>1, <2>6, <3>3
      <3>5. Number(to)' > Number(x)'
        BY <1>3, <2>0, <2>6
      <3> QED
        BY <3>4, <3>5 DEF Far
    <2>7. CASE ~(Number(to) > num)
      <3>1. At(to) <= At(x)
        <4>1. CASE Number(to) < num
          BY <2>1, <2>3, <2>4, <4>1
        <4>2. CASE Number(to) = num
          BY <2>1, <4>2
        <4> QED
          BY <1>3, <2>7, <4>1, <4>2
      <3>2. At(to) - At(x) - (code[x].body + n) <= 0
        BY <1>7, <2>1, <3>1
      <3>3. At(to) - At(x) - (code[x].body + n) < -Reach
        BY <2>1, <2>5, <3>2 DEF InRange
      <3>4. At(to)' - (At(x)' + code'[x].body + n) < -Reach
        BY <1>7, <2>1, <2>7, <3>3
      <3>5. ~(Number(to)' > Number(x)')
        BY <1>3, <2>0, <2>7
      <3> QED
        BY <3>4, <3>5 DEF Far
    <2> QED
      BY <2>6, <2>7
  <1>8. code[b].body \in Nat /\ code[b].condTo \in Blocks /\ code[b].jumpTo \in Blocks
        /\ CondSize(b) \in 0..3 /\ JumpSize(b) \in 0..2
        /\ Size(b) = code[b].body + CondSize(b) + JumpSize(b)
    BY <1>1, BlockFields DEF Size, NeedInv, FlowInv, TypeInv
  <1>9. CASE ExpandCond
    <2>1. /\ code[b].cond = "JCC" /\ code[b].jump = "none" /\ ~InRange(CondDistance(b))
          /\ code'[b].cond = "long" /\ code'[b].jump = "none"
      BY <1>2, <1>9 DEF ExpandCond
    <2>2. CondSize(b) = 1 /\ JumpSize(b) = 0
      BY <2>1 DEF CondSize, JumpSize
    <2>3. diff = 2
      <3>1. ASSUME NEW x \in Blocks, x = b PROVE Size(x)' = code[b].body + 3
        <4>1. CondSize(x)' = 3 /\ JumpSize(x)' = 0
          BY <2>1, <3>1 DEF CondSize, JumpSize
        <4> QED
          BY <1>1, <1>8, <3>1, <4>1 DEF Size
      <3>2. Size(b) = code[b].body + 1
        BY <1>8, <2>2
      <3>3. \A x \in Blocks : x = b => Size(x)' = Size(b) + diff
        BY <1>1
      <3> HIDE DEF b
      <3>4. code[b].body + 3 = (code[b].body + 1) + diff
        BY <1>1, <3>1, <3>2, <3>3
      <3> QED
        BY <1>1, <1>8, <3>4
    <2>4. ~InRange(BlockOffsets[Number(code[b].condTo)] - BlockOffsets[num] - (code[b].body + 1))
      BY <1>3, <2>1 DEF CondDistance, JCCTarget
    <2>5. \A to, x \in Blocks : to = code[b].condTo /\ x = b => Far(x, to, 1, 3)'
      <3>1. 1 <= Size(b) - code[b].body /\ 3 = 1 + 2 /\ 1 \in Nat /\ 2 \in Nat /\ 3 \in Nat
        BY <1>8, <2>2
      <3>2. \A to \in Blocks :
               ~InRange(BlockOffsets[Number(to)] - BlockOffsets[num] - (code[b].body + 1)) =>
                   \A x \in Blocks : x = b => Far(x, to, 1, 3)'
        BY <1>7, <2>3, <3>1
      <3> QED
        BY <2>4, <3>2
    <2>6. ASSUME NEW x \in Blocks, x = b PROVE LongIsFar(x)'
      <3>1. code'[x].cond = "long" /\ code'[x].jump = "none" /\ code'[x].condTo = code[b].condTo
        BY <1>2, <2>1, <2>6
      <3>2. ASSUME NEW to, to = code'[x].condTo PROVE Far(x, to, 1, 3)'
        BY <1>8, <2>5, <2>6, <3>1, <3>2
      <3>3. Far(x, code[x].condTo, 1, 3)'
        BY <3>2
      <3> QED
        BY <1>1, <3>1, <3>3 DEF LongIsFar
    <2> QED
      BY <1>1, <1>6, <2>6 DEF AllFar
  <1>10. CASE ExpandJump
    <2>1. /\ code[b].jump = "JMP" /\ ~InRange(JumpDistance(b))
          /\ code'[b].jump = "Bi" /\ code'[b].cond = code[b].cond /\ code[b].cond # "long"
      BY <1>2, <1>10 DEF ExpandJump
    <2>2. JumpSize(b) = 1
      BY <2>1 DEF JumpSize
    <2>3. ASSUME NEW x \in Blocks, x = b PROVE CondSize(x)' = CondSize(b) /\ JumpSize(x)' = 2
      BY <2>1, <2>3 DEF CondSize, JumpSize
    <2>4. diff = 1
      <3>1. ASSUME NEW x \in Blocks, x = b PROVE Size(x)' = code[b].body + CondSize(b) + 2
        BY <1>1, <1>8, <2>3, <3>1 DEF Size
      <3>2. Size(b) = code[b].body + CondSize(b) + 1
        BY <1>8, <2>2
      <3>3. \A x \in Blocks : x = b => Size(x)' = Size(b) + diff
        BY <1>1
      <3> HIDE DEF b
      <3>4. code[b].body + CondSize(b) + 2 = (code[b].body + CondSize(b) + 1) + diff
        BY <1>1, <3>1, <3>2, <3>3
      <3> QED
        BY <1>1, <1>8, <3>4
    <2>5. ~InRange(BlockOffsets[Number(code[b].jumpTo)] - BlockOffsets[num]
                      - (code[b].body + (CondSize(b) + 1)))
      <3>1. JumpDistance(b) = BlockOffsets[Number(code[b].jumpTo)] - BlockOffsets[num]
                                 - (code[b].body + CondSize(b) + 1)
        BY <1>3 DEF JumpDistance
      <3>2. code[b].body + CondSize(b) + 1 = code[b].body + (CondSize(b) + 1)
        BY <1>8
      <3> QED
        BY <2>1, <3>1, <3>2
    <2>6. ASSUME NEW to \in Blocks, to = code[b].jumpTo, NEW n \in Nat, n = CondSize(b) + 1,
                 NEW m \in Nat, m = n + 1, NEW x \in Blocks, x = b
          PROVE  Far(x, to, n, m)'
      <3>1. n <= Size(b) - code[b].body /\ 1 \in Nat
        BY <1>8, <2>2, <2>6
      <3>2. ~InRange(BlockOffsets[Number(to)] - BlockOffsets[num] - (code[b].body + n))
        BY <2>5, <2>6
      <3> QED
        BY <1>7, <2>4, <2>6, <3>1, <3>2
    <2>7. ASSUME NEW x \in Blocks, x = b PROVE LongIsFar(x)'
      <3>1. /\ code'[x].cond # "long" /\ code'[x].jumpTo = code[b].jumpTo
            /\ CondSize(x)' = CondSize(b)
        BY <1>2, <2>1, <2>3, <2>7
      <3>2. ASSUME NEW to, to = code'[x].jumpTo, NEW n, n = CondSize(x)' + 1,
                   NEW m, m = CondSize(x)' + 2
            PROVE  Far(x, to, n, m)'
        <4>1. /\ to \in Blocks /\ to = code[b].jumpTo /\ n \in Nat /\ n = CondSize(b) + 1
              /\ m \in Nat /\ m = n + 1
          BY <1>8, <3>1, <3>2
        <4> QED
          BY <2>6, <2>7, <4>1
      <3>3. Far(x, code[x].jumpTo, CondSize(x) + 1, CondSize(x) + 2)'
        BY <3>2
      <3> QED
        BY <1>1, <3>1, <3>3 DEF LongIsFar
    <2> QED
      BY <1>1, <1>6, <2>7 DEF AllFar
  <1> QED
    BY <1>9, <1>10

\* ... and the destinations of long branches far.
LEMMA StepAllFar == NeedInv /\ TypeInv' /\ [Next]_vars => AllFar'
  <1> SUFFICES ASSUME NeedInv, TypeInv', [Next]_vars PROVE AllFar'
    OBVIOUS
  <1>1. CASE ~SplitBlock /\ ~ExpandCond /\ ~ExpandJump
    <2>1. /\ UNCHANGED <<code, order>>
          /\ \A i \in 1..Placed' : Offset(i)' = Offset(i)
          /\ phase # "measure" => phase' # "measure"
      BY <1>1, SameOffsets
    <2>2. Blocks' = Blocks /\ \A x \in Blocks : Number(x)' = Number(x) /\ CondSize(x)' = CondSize(x)
      BY <2>1 DEF Blocks, Number, CondSize
    <2>3. ASSUME phase # "measure", NEW x \in Blocks PROVE At(x)' = At(x)
      <3>1. Number(x) \in 1..Len(code) /\ Placed' = Len(code)
        BY <2>1, <2>3, Numbering DEF NumberIsInverse, NeedInv, FlowInv, TypeInv, Placed, Blocks
      <3> QED
        BY <2>1, <2>2, <3>1 DEF At
    <2>4. ASSUME NEW x \in Blocks PROVE LongIsFar(x)'
      <3>1. LongIsFar(x) /\ code[x].condTo \in Blocks /\ code[x].jumpTo \in Blocks
        BY BlockFields DEF NeedInv, AllFar, FlowInv, TypeInv
      <3>2. ASSUME phase # "measure", NEW to \in Blocks, NEW s, NEW l, Far(x, to, s, l)
            PROVE  Far(x, to, s, l)'
        BY <2>1, <2>2, <2>3, <3>2 DEF Far
      <3> QED
        BY <2>1, <2>2, <3>1, <3>2 DEF LongIsFar
    <2> QED
      BY <2>2, <2>4 DEF AllFar
  <1> QED
    BY <1>1, SplitKeepsFar, ExpandKeepsFar

\* No function has a Bi before the pass: the only other one, a brind of a
\* block address, is not a branch this pass made long.
ShortInput == \A f \in Functions : \A b \in 1..Len(f) : f[b].jump # "Bi"

\* A branch is long only if a short one would not reach by the sizes of the
\* function as it is now, however late its neighbours grew or were split: what
\* was out of range when it was looked at is never brought back in range.
THEOREM ExpansionNeeded ==
  ASSUME ShortInput
  PROVE  Spec => []NoNeedlessExpansion
  <1>1. Init => NeedInv
    <2> SUFFICES ASSUME Init PROVE NeedInv
      OBVIOUS
    <2>1. FlowInv
      BY InitFlowInv
    <2>2. ReachInv
      BY InitReachInv
    <2>3. OffsetsExact
      <3>1. Placed = 1
        BY DEF Init, Placed
      <3> QED
        BY <3>1 DEF OffsetsExact
    <2>4. AllFar
      <3>1. ASSUME NEW b \in Blocks PROVE code[b].cond # "long" /\ code[b].jump # "Bi"
        <4>1. b \in 1..Len(fn) /\ code = fn /\ fn \in Functions
          BY DEF Init, Blocks
        <4> QED
          BY <4>1, FunctionsAssumption, ShortInput DEF ShortInput, WellFormed
      <3> QED
        BY <3>1 DEF AllFar, LongIsFar
    <2> QED
      BY <2>1, <2>2, <2>3, <2>4 DEF NeedInv
  <1>2. NeedInv /\ [Next]_vars => NeedInv'
    <2>1. NeedInv /\ [Next]_vars => ReachInv' /\ FlowInv' /\ TypeInv'
      BY StepReachInv, StepFlowInv DEF NeedInv, FlowInv
    <2> QED
      BY <2>1, StepOffsetsExact, StepAllFar DEF NeedInv
  <1>3. NeedInv => NoNeedlessExpansion
    <2> SUFFICES ASSUME NeedInv, phase \in {"scan", "assemble"}, NEW b \in Blocks
                 PROVE  LET start(x) == BlockOffsets[Number(x)] + code[x].body
                            Beyond(to, short, long) ==
                               IF BlockOffsets[Number(to)] >= long
                               THEN ~InRange(BlockOffsets[Number(to)] - long)
                               ELSE ~InRange(BlockOffsets[Number(to)] - short)
                        IN  /\ code[b].cond = "long" =>
                                  Beyond(code[b].condTo, start(b) + 1, start(b) + 3)
                            /\ code[b].jump = "Bi" =>
                                  Beyond(code[b].jumpTo, start(b) + CondSize(b) + 1,
                                                         start(b) + CondSize(b) + 2)
      BY DEF NoNeedlessExpansion
    <2> DEFINE start(x) == BlockOffsets[Number(x)] + code[x].body
               Beyond(to, short, long) ==
                  IF BlockOffsets[Number(to)] >= long
                  THEN ~InRange(BlockOffsets[Number(to)] - long)
                  ELSE ~InRange(BlockOffsets[Number(to)] - short)
    <2>1. /\ code[b].body \in Nat /\ CondSize(b) \in Nat /\ Reach \in Nat
          /\ code[b].condTo \in Blocks /\ code[b].jumpTo \in Blocks
      BY BlockFields, ReachAssumption DEF NeedInv, FlowInv, TypeInv
    <2>2. ASSUME NEW x \in Blocks
          PROVE  At(x) = BlockOffsets[Number(x)] /\ At(x) \in Nat
      <3>1. At(x) = BlockOffsets[Number(x)]
        BY DEF At, Offset
      <3>2. At(x) \in Nat
        BY OffsetIsNat, Numbering DEF NumberIsInverse, At, NeedInv, FlowInv, TypeInv
      <3> QED
        BY <3>1, <3>2
    <2>3. ASSUME NEW to \in Blocks, NEW short \in Nat, NEW long \in Nat, short <= long,
                 Far(b, to, short, long)
          PROVE  Beyond(to, start(b) + short, start(b) + long)
      <3>1. /\ BlockOffsets[Number(to)] = At(to) /\ start(b) = At(b) + code[b].body
            /\ At(to) \in Nat /\ At(b) \in Nat
        BY <2>2
      <3> HIDE DEF start
      <3>2. CASE Number(to) > Number(b)
        <4>1. At(to) - (At(b) + code[b].body + long) >= Reach
          BY <2>3, <3>2 DEF Far
        <4>2. At(to) >= start(b) + long /\ ~InRange(At(to) - (start(b) + long))
          BY <2>1, <3>1, <4>1 DEF InRange
        <4> QED
          BY <3>1, <4>2
      <3>3. CASE ~(Number(to) > Number(b))
        <4>1. At(to) - (At(b) + code[b].body + short) < -Reach
          BY <2>3, <3>3 DEF Far
        <4>2. ~(At(to) >= start(b) + long) /\ ~InRange(At(to) - (start(b) + short))
          BY <2>1, <2>3, <3>1, <4>1 DEF InRange
        <4> QED
          BY <3>1, <4>2
      <3> QED
        BY <3>2, <3>3
    <2>4. LongIsFar(b)
      BY DEF NeedInv, AllFar
    <2>5. code[b].cond = "long" => Beyond(code[b].condTo, start(b) + 1, start(b) + 3)
      <3>1. code[b].cond = "long" => Far(b, code[b].condTo, 1, 3)
        BY <2>4 DEF LongIsFar
      <3> HIDE DEF Beyond, start
      <3> QED
        BY <2>1, <2>3, <3>1
    <2>6. code[b].jump = "Bi" => Beyond(code[b].jumpTo, start(b) + (CondSize(b) + 1),
                                                        start(b) + (CondSize(b) + 2))
      <3>1. code[b].jump = "Bi" => Far(b, code[b].jumpTo, CondSize(b) + 1, CondSize(b) + 2)
        BY <2>4 DEF LongIsFar
      <3>2. CondSize(b) + 1 \in Nat /\ CondSize(b) + 2 \in Nat /\ CondSize(b) + 1 <= CondSize(b) + 2
        BY <2>1
      <3> HIDE DEF Beyond, start
      <3> QED
        BY <2>1, <2>3, <3>1, <3>2
    <2>7. /\ start(b) + (CondSize(b) + 1) = start(b) + CondSize(b) + 1
          /\ start(b) + (CondSize(b) + 2) = start(b) + CondSize(b) + 2
      BY <2>1, <2>2
    <2> HIDE DEF start
    <2>8. code[b].jump = "Bi" => Beyond(code[b].jumpTo, start(b) + CondSize(b) + 1,
                                                        start(b) + CondSize(b) + 2)
      BY <2>6, <2>7
    <2> QED
      BY <2>5, <2>8 DEF start
  <1> QED
    BY <1>1, <1>2, <1>3, PTL DEF Spec

=============================================================================
