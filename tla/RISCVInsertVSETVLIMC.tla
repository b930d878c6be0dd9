------------------------ MODULE RISCVInsertVSETVLIMC ------------------------
(***************************************************************************)
(* Instances of RISCVInsertVSETVLI for TLC: the functions the pass is      *)
(* given, on two scalar registers, with VLEN 128.                          *)
(***************************************************************************)
EXTENDS RISCVInsertVSETVLI

CONSTANTS
    x, y,    \* scalar registers
    Which    \* the functions: "all", "redefined" or "united"

MCRegisters == {x, y}

\* VLMAX is 4 for e32m1, e64m2, e16mf2 and e8mf4 and 2 for e64m1: an AVL of 5
\* is where the hart may choose VL, between VLMAX and twice that.
MCInputs == {0, 5}
E(sew, lmul, policy) == [sew |-> sew, lmul |-> lmul, ta |-> policy, ma |-> policy]
e32m1 == E(5, 0, TRUE)
e64m2 == E(6, 1, TRUE)
e64m1 == E(6, 0, TRUE)
e16mf2 == E(4, -1, TRUE)
e8mf4 == E(3, -2, TRUE)
Undisturbed(vt) == [vt EXCEPT !.ta = FALSE, !.ma = FALSE]
MCForeign == {[vl |-> 0, vt |-> E(3, 0, FALSE)]}

Reg(r) == AVLReg([NoValue EXCEPT !.reg = r])
Sets(r) == [NoValue EXCEPT !.reg = r]

Op(kind, avl, vt) ==
    [NoInstruction EXCEPT !.kind = kind, !.avl = avl, !.vt = vt, !.undefMerge = TRUE]
Tied(I) == [I EXCEPT !.undefMerge = FALSE]
Masked(I) == [I EXCEPT !.undefMerge = FALSE, !.usesMaskPolicy = TRUE]
Store(avl, vt) == [Op("mem", avl, vt) EXCEPT !.store = TRUE]
Float(I) == [I EXCEPT !.float = TRUE]
FF(r, avl, vt) == [Op("ff", avl, vt) EXCEPT !.dst = Sets(r)]
Def(r) == [NoInstruction EXCEPT !.kind = "def", !.dst = Sets(r)]
Li(r, n) == [NoInstruction EXCEPT !.kind = "li", !.dst = Sets(r), !.n = n]
Use(r) == [NoInstruction EXCEPT !.kind = "use", !.dst = Sets(r)]
VSet(r, avl, vt) == [NoInstruction EXCEPT !.kind = "vset", !.avl = avl, !.vt = vt, !.dst = Sets(r)]
Call == [NoInstruction EXCEPT !.kind = "call"]
Undef == [NoAVL EXCEPT !.kind = "undef"]

-----------------------------------------------------------------------------
(* LiveIntervals: the definition that reaches each place.                   *)

Written(I) == I.kind \in {"vset", "ff", "def", "li"}
lastIn(code, b, k, r) ==
    LET here == {i \in 1..(k - 1) : Written(code[b][i]) /\ code[b][i].dst.reg = r}
    IN  IF here = {} THEN NoPlace ELSE <<b, Max(here)>>

\* The definitions at the entries of the blocks: a join where several meet.
Entries(code, succ) ==
    LET Bs == 1..Len(code)
        out(E0, p, r) == LET d == lastIn(code, p, Len(code[p]) + 1, r)
                         IN  IF d = NoPlace THEN E0[p][r] ELSE d
        join(E0, b, r) ==
            LET in == {out(E0, p, r) : p \in {q \in Bs : b \in succ[q]}} \ {NoPlace, <<b, 0>>}
            IN  IF in = {} THEN NoPlace
                ELSE IF Cardinality(in) = 1 THEN CHOOSE d \in in : TRUE ELSE <<b, 0>>
    IN  FoldLeft(LAMBDA E0, i : [b \in Bs |-> [r \in Registers |-> join(E0, b, r)]],
                 [b \in Bs |-> [r \in Registers |-> NoPlace]], [i \in 1..(2 * Len(code)) |-> i])

Function(code, succ, options) ==
    LET E0 == Entries(code, succ)
        reaching(b, k, r) == LET d == lastIn(code, b, k, r)
                             IN  IF d = NoPlace THEN E0[b][r] ELSE d
        value(b, k, r) == LET d == reaching(b, k, r)
                          IN  [NoValue EXCEPT !.reg = r, !.def = d,
                                  !.nonZero = d[2] > 0 /\ LET I == code[d[1]][d[2]]
                                                          IN  I.kind = "li" /\ I.n > 0]
        resolved(b, k) ==
            LET I == code[b][k]
                J == IF I.avl.kind # "reg" THEN I
                     ELSE [I EXCEPT !.avl.vn = value(b, k, I.avl.vn.reg)]
            IN  IF Written(I) /\ I.dst.reg # "none" THEN [J EXCEPT !.dst.def = <<b, k>>] ELSE J
    IN  [code |-> [b \in 1..Len(code) |-> [k \in 1..Len(code[b]) |-> resolved(b, k)]],
         succ |-> succ,
         out |-> [b \in 1..Len(code) |-> [r \in Registers |-> reaching(b, Len(code[b]) + 1, r)]],
         vlen |-> 7, LIS |-> options.LIS, exactVLen |-> options.exactVLen, F64 |-> options.F64,
         roundDown |-> options.roundDown]

Options ==
    {[LIS |-> TRUE, exactVLen |-> FALSE, F64 |-> FALSE, roundDown |-> TRUE],
     [LIS |-> TRUE, exactVLen |-> TRUE, F64 |-> TRUE, roundDown |-> FALSE],
     [LIS |-> FALSE, exactVLen |-> FALSE, F64 |-> FALSE, roundDown |-> TRUE]}

-----------------------------------------------------------------------------
Join == <<{2, 3}, {4}, {4}, {}>>
Loop == <<{2}, {2, 3}, {}>>
Straight == <<{}>>
succOf(s) == [b \in 1..Len(s) |-> s[b]]

OpsOn(avl) ==
    {Op("arith", avl, e32m1), Tied(Op("arith", avl, Undisturbed(e32m1))), Op("arith", avl, e64m2),
     Op("mem", avl, e16mf2), Op("mask", avl, e8mf4)}

Scalars ==
    {Op("insert", AVLImm(1), e64m1), Tied(Op("insert", AVLImm(1), Undisturbed(e32m1))),
     Float(Op("splat", AVLImm(1), e32m1)), Op("slide", AVLImm(1), e32m1),
     Op("extract", NoAVL, e64m1), Op("insert", Undef, e16mf2)}

Some(avl) ==
    {Op("arith", avl, e32m1), Masked(Op("arith", avl, Undisturbed(e64m2))), Store(avl, e16mf2)}

\* Two predecessors that leave the same or different states.
Joins ==
    {<<<<Def(x)>>, <<a>>, <<b>>, <<c, d>>>> :
        a \in OpsOn(Reg(x)) \cup {Call}, b \in Some(Reg(x)),
        c \in OpsOn(Reg(x)) \cup Scalars, d \in {Use(x), Op("arith", AVLVLMAX, e32m1)}}

\* A loop whose state may be set before it.
Preheaders ==
    {<<<<Def(x), p>>, <<a, b>>, <<c>>>> :
        p \in {Call, Use(x), Op("arith", AVLImm(3), e32m1)},
        a \in OpsOn(Reg(x)) \cup Some(AVLVLMAX) \cup Scalars,
        b \in Some(Reg(x)) \cup Scalars \cup {Call}, c \in {Op("arith", Reg(x), e32m1)}}

\* A loop, and its exit, that ask for the output VL of the last vset.
Phis ==
    {<<<<Def(x), VSet(y, Reg(x), a)>>, <<b, Def(x), VSet(y, Reg(x), c)>>, <<d, Use(y)>>>> :
        a \in {e32m1, e64m1}, c \in {e32m1, e64m2, Undisturbed(e32m1)},
        b \in OpsOn(Reg(y)) \cup Scalars, d \in Some(Reg(y)) \cup Scalars}

\* Chains of vsets that may be one.
Chains ==
    {<<<<s, a, b, c>>>> :
        s \in {Def(x), Li(x, 5)},
        a \in OpsOn(Reg(x)) \cup {VSet(y, Reg(x), e32m1), VSet(y, AVLVLMAX, e64m2)},
        b \in OpsOn(Reg(x)) \cup Scalars, c \in Scalars \cup OpsOn(Reg(x)) \cup Some(AVLImm(3))}

\* Output VLs, of fault-first loads among them, asked for and read.
Outputs ==
    {<<<<Def(x), a, b, c, Use(y)>>>> :
        a \in {VSet(y, Reg(x), e32m1), VSet(y, AVLVLMAX, e64m2), FF(y, Reg(x), e32m1)},
        b \in OpsOn(Reg(y)) \cup Scalars, c \in Scalars \cup OpsOn(Reg(y)) \cup OpsOn(Reg(x))}

\* A register that holds another AVL the next time.
Reused ==
    {<<<<Def(x), a>>, <<b, Def(x)>>, <<c, Use(x)>>>> :
        a \in Some(Reg(x)) \cup {Use(x)}, b \in OpsOn(Reg(x)) \cup Scalars, c \in Some(Reg(x))}

\* A register is redefined between the vset whose AVL it is and the loop that
\* asks for the output VL.
Redefined ==
    {<<<<Def(x), VSet(y, Reg(x), e32m1), Def(x), Call>>, <<a>>, <<Use(x)>>>> :
        a \in {Op("arith", Reg(y), e32m1), Op("mem", Reg(y), e16mf2)}}

\* Between two vsets, scalar moves whose demands of SEW are not comparable.
United ==
    {<<<<a, b, Op("arith", AVLImm(1), e64m1)>>>> :
        a \in {Float(Op(k, AVLImm(1), e32m1)) : k \in {"insert", "splat"}},
        b \in {Op(k, AVLImm(1), e32m1) : k \in {"insert", "splat"}}}

Shaped(codes, s) == {Function(c, succOf(s), o) : c \in codes, o \in Options}

MCFunctions ==
    IF Which = "redefined" THEN Shaped(Redefined, Loop)
    ELSE IF Which = "united" THEN Shaped(United, Straight)
    ELSE Shaped(Joins, Join) \cup Shaped(Preheaders \cup Phis \cup Reused, Loop)
            \cup Shaped(Chains \cup Outputs, Straight)
=============================================================================
