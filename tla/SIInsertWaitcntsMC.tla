------------------------- MODULE SIInsertWaitcntsMC -------------------------
(***************************************************************************)
(* Instances of SIInsertWaitcnts for TLC: families of small functions, one *)
(* family for each group of counters and operations that interact.         *)
(***************************************************************************)
EXTENDS SIInsertWaitcnts

CONSTANTS v1, v2, s1, s2, ldsA, ldsB, ldsC, p1

Plain == [kind |-> "alu", seg |-> "none", mem |-> {}, type |-> "VMEM_NOSAMPLER",
          event |-> "EXP_GPR_LOCK", defs |-> {}, uses |-> {}, data |-> {}, lds |-> {},
          ptr |-> NoPointer, stores |-> FALSE, exec |-> FALSE, soft |-> {}]

Use(r) == [Plain EXCEPT !.uses = {r}]
Def(r) == [Plain EXCEPT !.defs = {r}]
WriteExec == [Plain EXCEPT !.exec = TRUE]

Vmem == [Plain EXCEPT !.seg = "buffer", !.mem = {"vmem"}]
Load(v) == [Vmem EXCEPT !.kind = "load", !.defs = {v}]
Sample(v) == [Load(v) EXCEPT !.type = "VMEM_SAMPLER"]
BVH(v) == [Load(v) EXCEPT !.type = "VMEM_BVH"]
Store(v) == [Vmem EXCEPT !.kind = "store", !.uses = {v}, !.data = {v}]
Scratch(v) == [Store(v) EXCEPT !.seg = "scratch", !.mem = {"scratch"}]
Flat(v, m) == [Load(v) EXCEPT !.seg = "flat", !.mem = m]
DS(v) == [Plain EXCEPT !.kind = "ds", !.defs = {v}]
GDS(v, w) == [Plain EXCEPT !.kind = "gds", !.defs = {v}, !.uses = {w}, !.stores = TRUE]
SMem(p) == [Plain EXCEPT !.kind = "smem", !.defs = {s1}, !.ptr = p]
SMemTo(s) == [Plain EXCEPT !.kind = "smem", !.defs = {s}]
Message == [Plain EXCEPT !.kind = "message"]
Export(e, v) == [Plain EXCEPT !.kind = "export", !.event = e, !.uses = {v}]
LdsDir(v) == [Plain EXCEPT !.kind = "ldsdir", !.defs = {v}]
Dma(o) == [Vmem EXCEPT !.kind = "dma", !.lds = {o}]
Access(o) == [Plain EXCEPT !.kind = "ds", !.lds = {o}]
DsStore(o) == [Access(o) EXCEPT !.stores = TRUE]
CallTo(s) == [Plain EXCEPT !.kind = "call", !.uses = {s}]
Return == [Plain EXCEPT !.kind = "return"]
EndPgm == [Plain EXCEPT !.kind = "endpgm"]
Release(w) == [Plain EXCEPT !.soft = w]

MCLeftPending == {Load(v1), SMem(NoPointer), Scratch(v2)}

\* Blocks of at most n instructions of the given ones.
BlocksOf(n, insts) == UNION {[1..k -> insts] : k \in 0..n}

\* A way round block 2 and a loop on it.
Loop == <<{2, 3}, {2, 3}, {}>>
\* A way round block 2, but no loop.
Join == <<{2, 3}, {3}, {}>>
\* A loop of blocks 2 and 4, left from its head, whose exit is visited first.
Cycle == <<{2}, {3, 4}, {}, {2}>>

\* A loop on block 2, with a preheader.
Preheader == <<{2}, {2, 3}, {}>>

\* Three blocks on the graph s, the last one of at most one instruction before
\* its end, with no more than n instructions before it.
Family(gens, s, insts, n, end) ==
    {[gen |-> g, isEntryFunction |-> end = EndPgm,
      code |-> <<body[1], body[2], Append(body[3], end)>>, succ |-> s] :
        g \in gens,
        body \in {x \in BlocksOf(2, insts) \X BlocksOf(2, insts) \X BlocksOf(1, insts) :
                     Len(x[1]) + Len(x[2]) + Len(x[3]) = n}}

\* Four blocks of at most one instruction on the graph Cycle.
CycleFamily(gens, insts) ==
    {[gen |-> g, isEntryFunction |-> TRUE,
      code |-> <<body[1], body[2], <<EndPgm>>, body[3]>>, succ |-> Cycle] :
        g \in gens, body \in [1..3 -> BlocksOf(1, insts)]}

MCWaitCountMax == [T \in InstCounterType |-> 3]

Both == {"vmem", "lds", "scratch"}
StoreTo(p) == [Store(v1) EXCEPT !.ptr = p]

VectorMemory ==
    Family({6, 9, 10, 12}, Loop, {Load(v1), Sample(v1), Store(v1), Use(v1), Def(v1)}, 3, EndPgm)
    \cup Family({10, 12}, Join, {Load(v1), BVH(v1), Sample(v1), Use(v1)}, 3, EndPgm)
    \cup Family({9, 12}, Loop, {Load(v1), Load(v2), Use(v1)}, 4, EndPgm)
    \cup Family({9, 10, 12}, Preheader, {Load(v1), Store(v2), Use(v1)}, 3, EndPgm)

ScalarAndLocal ==
    Family({9, 12}, Loop, {DS(v1), SMem(NoPointer), Message, Use(v1), Use(s1)}, 3, EndPgm)
    \cup Family({9, 12}, Join, {SMemTo(s1), SMemTo(s2), Use(s1)}, 3, EndPgm)
    \cup CycleFamily({9, 12}, {Load(v1), DS(v1), SMem(NoPointer), Use(v1), Use(s1)})
    \cup Family({9, 10, 12}, Loop, {Flat(v1, Both), DS(v1), Load(v1), Use(v1)}, 3, EndPgm)

Exports ==
    Family({6, 11}, Loop, {Export("EXP_POS_ACCESS", v1), Def(v1), WriteExec}, 3, EndPgm)
    \cup Family({6}, Loop, {GDS(v2, v1), Def(v1), Use(v2), WriteExec}, 3, EndPgm)
    \cup Family({11}, Join, {Export("EXP_POS_ACCESS", v1), Export("EXP_PARAM_ACCESS", v1),
                             LdsDir(v2), Def(v1), Use(v2), WriteExec}, 3, EndPgm)

Calls ==
    Family({9, 11, 12}, Loop, {Load(v1), Store(v1), SMem(NoPointer), CallTo(s1), Use(v1)}, 3, Return)
    \cup Family({11}, Loop, {Store(v1), Scratch(v1), CallTo(s1)}, 3, EndPgm)

Memory ==
    Family({9, 12}, Join, {SMem(p1), StoreTo(p1), Use(s1)}, 3, EndPgm)
    \cup Family({9, 10}, Loop, {Dma(ldsA), Dma(ldsB), DsStore(ldsA), Access(ldsA), Access(ldsB)},
                3, EndPgm)
    \cup Family({9, 10}, Loop, {DsStore(ldsA), DsStore(ldsB), Dma(ldsC), Access(ldsC)}, 4, EndPgm)
    \cup Family({9, 10, 12}, Join, {Store(v1), Load(v1), Release({"LOAD_CNT"}), Release({"STORE_CNT"})}, 3, EndPgm)

MCFunctions == VectorMemory \cup ScalarAndLocal \cup Exports \cup Calls \cup Memory

\* A soft wait for the stores in a loop that stores.
SoftInLoop == Family({10}, Loop, {Store(v1), Release({"STORE_CNT"})}, 2, EndPgm)

\* An exit that is visited before a block of the loop it leaves.
ExitFromLoop == CycleFamily({11}, {Store(v1), Scratch(v1)})
=============================================================================
