--------------------------- MODULE RISCVAtomicsMC ---------------------------
(***************************************************************************)
(* Instances of RISCVExpandAtomicPseudo for TLC: which calls the harts     *)
(* make, and what other agents store to the word.                          *)
(***************************************************************************)
EXTENDS RISCVExpandAtomicPseudo

CONSTANTS Offered   \* the calls of an instance: "all" or "few"

\* Word operands at the edges of the signed and the unsigned range.
EdgeNums == {0, 1, 2^(WordBits - 1) - 1, 2^(WordBits - 1), 2^WordBits - 1}

Edge(c) == c.masked \/ (c.val \in EdgeNums /\ (c.op = "CmpXchg" => c.cmp \in EdgeNums))

\* A call of each loop, on the low part of the word, on the next one, and on
\* the whole word. Max with 0 changes a part of one bit that is -1.
Few(c) ==
    \/ /\ c.masked
       /\ \/ c.op = "Add" /\ c.shift = 0 /\ c.val = 1
          \/ c.op = "Xchg" /\ c.shift = ValWidth /\ c.val = 0
          \/ c.op = "Max" /\ c.shift = ValWidth /\ c.val = 0
          \/ c.op = "CmpXchg" /\ c.shift = 0 /\ c.cmp = 1 /\ c.val = 0
    \/ /\ ~c.masked /\ ~c.junk
       /\ \/ c.op = "Nand" /\ c.val = 2
          \/ c.op = "CmpXchg" /\ c.cmp = 1 /\ c.val = 6 /\ c.folded

MCCalls == {c \in Expandable : IF Offered = "few" THEN Few(c) ELSE Edge(c)}

\* A foreign store replaces the word's low part.
LowParts == SUBSET (0..(ValWidth - 1))
MCStores(w) == {(w \ 0..(ValWidth - 1)) \cup p : p \in LowParts}
NoStores(w) == {}
=============================================================================
