----------------------------- MODULE AtomicWord -----------------------------
(***************************************************************************)
(* Registers and memory words as sets of bit positions, the integer        *)
(* instructions the atomic expansions use, and what the IR says of an      *)
(* atomicrmw or a cmpxchg on a part of a word.                             *)
(*                                                                         *)
(* The widths are parameters: a real target has a 32-bit word, registers   *)
(* of 32 or 64 bits, and parts of 8 or 16 bits.                            *)
(***************************************************************************)
EXTENDS Integers, FiniteSets, FiniteSetsExt

CONSTANTS
    XLen,      \* bits of a register (XLen, GRLen)
    WordBits,  \* bits of the word a load-linked reads
    ValWidth   \* bits of the part a masked operation works on

ASSUME WidthsAssumption ==
    /\ XLen \in Nat /\ WordBits \in Nat /\ ValWidth \in Nat
    /\ 0 < ValWidth /\ ValWidth < WordBits /\ WordBits <= XLen

Reg == SUBSET (0..(XLen - 1))
Word == SUBSET (0..(WordBits - 1))

\* The number a register holds, and the register that holds a number.
Uns == [r \in Reg |-> MapThenSumSet(LAMBDA i : 2^i, r)]
Bits == [n \in 0..(2^XLen - 1) |-> {i \in 0..(XLen - 1) : (n \div 2^i) % 2 = 1}]
Sgn(r) == IF XLen - 1 \in r THEN Uns[r] - 2^XLen ELSE Uns[r]

Trunc(r) == r \cap 0..(WordBits - 1)

\* A word in a register, its upper bits copies of the word's sign bit.
SExt(w) == IF WordBits - 1 \in w THEN w \cup WordBits..(XLen - 1) ELSE w

And(a, b) == a \cap b
Or(a, b) == a \cup b
Xor(a, b) == (a \ b) \cup (b \ a)
Not(a) == (0..(XLen - 1)) \ a
Add(a, b) == Bits[(Uns[a] + Uns[b]) % 2^XLen]
Sub(a, b) == Bits[(Uns[a] - Uns[b]) % 2^XLen]
Sll(a, n) == {i \in 0..(XLen - 1) : i - n \in a}
Sra(a, n) == {i \in 0..(XLen - 1) : IF i + n < XLen THEN i + n \in a ELSE XLen - 1 \in a}

\* The forms that compute on the low word and sign-extend the result, and take
\* a shift amount modulo the width of the word.
WordOp(r) == SExt(Trunc(r))
SllW(a, n) == WordOp(Sll(a, n % WordBits))
SraW(a, n) == WordOp(Sra(WordOp(a), n % WordBits))
-----------------------------------------------------------------------------
\* The widths and places of the parts of a word.
ShiftAmts == {s \in 0..(WordBits - 1) : s % ValWidth = 0 /\ s + ValWidth <= WordBits}
Width(c) == IF c.masked THEN ValWidth ELSE WordBits
MaskBits(c) == c.shift..(c.shift + Width(c) - 1)

\* The number in the part of a word that call c names.
PartOf(c, w) == Uns[{i - c.shift : i \in w \cap MaskBits(c)}]
WithPart(c, w, n) == (w \ MaskBits(c)) \cup Sll(Bits[n], c.shift)

Signed(n, width) == IF n >= 2^(width - 1) THEN n - 2^width ELSE n

\* The new value of an atomicrmw (AtomicRMWInst::BinOp) on numbers of a width.
RMW(op, old, val, width) ==
    CASE op = "Xchg" -> val
      [] op = "Add"  -> (old + val) % 2^width
      [] op = "Sub"  -> (old - val) % 2^width
      [] op = "And"  -> Uns[Bits[old] \cap Bits[val]]
      [] op = "Or"   -> Uns[Bits[old] \cup Bits[val]]
      [] op = "Xor"  -> Uns[Xor(Bits[old], Bits[val])]
      [] op = "Nand" -> 2^width - 1 - Uns[Bits[old] \cap Bits[val]]
      [] op = "UMax" -> IF old >= val THEN old ELSE val
      [] op = "UMin" -> IF old <= val THEN old ELSE val
      [] op = "Max"  -> IF Signed(old, width) >= Signed(val, width) THEN old ELSE val
      [] op = "Min"  -> IF Signed(old, width) <= Signed(val, width) THEN old ELSE val

\* A call c of the IR on a word w: the word it leaves and the value it returns.
IREffect(c, w) ==
    LET old == PartOf(c, w)
    IN IF c.op = "CmpXchg"
         THEN IF old = c.cmp THEN WithPart(c, w, c.val) ELSE w
         ELSE WithPart(c, w, RMW(c.op, old, c.val, Width(c)))

IRReply(c, w) ==
    [old |-> PartOf(c, w), success |-> c.op = "CmpXchg" /\ PartOf(c, w) = c.cmp]
-----------------------------------------------------------------------------
(* The operands AtomicExpandPass prepares for a masked operation: the mask  *)
(* and the operand shifted to the part's place, in a word.                  *)

Num(n) == Bits[n]
Mask_(c) == Trunc(Sll(0..(ValWidth - 1), c.shift))
ZExtShifted(c, n) == Trunc(Sll(Num(n), c.shift))
SExtShifted(c, n) == Trunc(Sll(Num(Signed(n, ValWidth) % 2^XLen), c.shift))

\* An i32 operand any-extended to a register: junk is what the upper bits hold.
AnyExt(c, n) == Num(n) \cup IF c.junk THEN WordBits..(XLen - 1) ELSE {}

\* The value and the comparison read back out of the word returned in dest.
Extracted(c, dest) == PartOf(c, Trunc(dest))
=============================================================================
