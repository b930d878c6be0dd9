-------------------------- MODULE SIInsertWaitcnts --------------------------
(***************************************************************************)
(* The pass of SIInsertWaitcnts.cpp, which inserts the waits an AMDGPU     *)
(* wave needs before it touches a register or a memory location that an    *)
(* operation still in flight reads or writes, followed by a wave that runs *)
(* the code it produced.                                                   *)
(*                                                                         *)
(* The pass visits the blocks in reverse post order, again and again while *)
(* the brackets a block starts with change, and inserts waits as it goes.  *)
(* A visit of an instruction is a step; so is the end of a block.          *)
(***************************************************************************)
EXTENDS WaitcntBrackets, FiniteSetsExt, SequencesExt

CONSTANTS
    LdsObjects,    \* objects in LDS with an alias scope of their own
    Pointers,      \* addresses read by scalar loads
    NoPointer,
    LeftPending,   \* instructions a caller may leave pending, and a callee if stores
    Functions      \* the functions the pass may be given

\* seg: which kind of vector-memory instruction; mem: the address spaces of
\* its memory operands, all of them for an operand in FLAT and for a flat
\* access without operands; data: the registers it stores; lds: the LDS
\* objects it accesses; stores: whether a DS instruction may store; soft: the counters
\* a preexisting soft wait before it clears.
Instruction ==
    [kind: {"alu", "load", "store", "dma", "ds", "gds", "smem", "message", "export",
            "ldsdir", "call", "return", "endpgm"},
     seg: {"none", "buffer", "flat", "global", "scratch"},
     mem: SUBSET {"vmem", "lds", "scratch"},
     type: VmemType, event: WaitEventType,
     defs: SUBSET (Vgprs \cup Sgprs), uses: SUBSET (Vgprs \cup Sgprs),
     data: SUBSET Vgprs, lds: SUBSET LdsObjects, ptr: Pointers \cup {NoPointer},
     stores: BOOLEAN, exec: BOOLEAN, soft: SUBSET InstCounterType]

\* The stores that updateByEvent gives a slot: DS stores and, from vector
\* memory to LDS, DMA.
mayWriteLds(I) == I.kind = "dma" \/ (I.kind \in {"ds", "gds"} /\ I.stores)

\* What the descriptions of the instructions say, and the pass asserts: what
\* vector instructions define and exports read are VGPRs, stores define
\* nothing, only a flat access may go to LDS alone, GDS is not LDS, and a
\* store to LDS has one memory operand there.
Sensible(I) ==
    /\ I.kind \in {"load", "ds", "gds", "ldsdir"} => I.defs \subseteq Vgprs
    /\ I.kind \in {"smem", "message"} => I.defs \subseteq Sgprs
    /\ I.kind \in {"export", "gds"} => I.uses \subseteq Vgprs
    /\ I.kind \in {"store", "dma", "export", "endpgm"} => I.defs = {}
    /\ I.kind = "endpgm" => I.uses = {} /\ ~I.exec
    /\ I.kind = "export" => I.event \in {"EXP_GPR_LOCK", "EXP_PARAM_ACCESS", "EXP_POS_ACCESS"}
    /\ I.kind \in {"load", "store", "dma"} /\ I.mem = {"lds"} => I.seg = "flat"
    /\ I.kind = "gds" => I.lds = {}
    /\ mayWriteLds(I) => \A o, p \in I.lds : o = p

\* The blocks are numbered in reverse post order.
WellFormed(f) ==
    /\ f.gen \in Generations /\ f.isEntryFunction \in BOOLEAN
    /\ f.code \in Seq(Seq(Instruction))
    /\ \A b \in 1..Len(f.code) : \A k \in 1..Len(f.code[b]) : Sensible(f.code[b][k])
    /\ f.succ \in [1..Len(f.code) -> SUBSET (2..Len(f.code))]
    /\ f.code # <<>>

ASSUME FunctionsAssumption == \A f \in Functions : WellFormed(f)
ASSUME LeftPendingAssumption == \A I \in LeftPending : I \in Instruction /\ Sensible(I)

VARIABLES
    fn,                 \* the function being compiled, never changed
    phase,              \* the pass, the wave, its end
    at,                 \* the block and the index of the instruction looked at
    Incoming,           \* BlockInfo: the brackets of the blocks that have them
    Dirty,              \* BlockInfo: the blocks to be visited
    Repeat,             \* of runOnMachineFunction
    ScoreBrackets,      \* the brackets at the place looked at
    Hard, Soft,         \* the waits in the code, before each place
    ReleaseVGPRInsts,   \* the blocks whose S_ENDPGM gets a DEALLOC_VGPRS
    SLoadAddresses,     \* the pointers read by a scalar load, with its block
    PreheadersToFlush,  \* the blocks decided on, and the decision
    queue               \* the wave: operations in flight, in issue order

passVars == <<Incoming, Dirty, Repeat, ScoreBrackets, Hard, Soft,
              ReleaseVGPRInsts, SLoadAddresses, PreheadersToFlush>>
vars == <<fn, phase, at, passVars, queue>>

Blocks == 1..Len(fn.code)
Length(b) == Len(fn.code[b])
ST == fn.gen

\* Before each instruction, and at the end of the block.
Places == UNION {{b} \X (1..Length(b) + 1) : b \in Blocks}

Inst == fn.code[at[1]][at[2]]

NoWaits == [T \in InstCounterType |-> NoWait]

\* Mutant: the counter gfx12 has for scalar memory is forgotten.
getAllZeroWaitcnt_NoKm ==
    [T \in InstCounterType |-> IF T \in {"STORE_CNT", "KM_CNT"} THEN NoWait ELSE 0]

getAllZeroWaitcnt == [T \in InstCounterType |-> IF T = "STORE_CNT" THEN NoWait ELSE 0]

-----------------------------------------------------------------------------
\* Block a of f is on every path from block b to an exit: b is in a set of
\* blocks which has no exit, and which only a leads out of.
PostDominates(f, a, b) ==
    a = b \/ \E S \in SUBSET ((1..Len(f.code)) \ {a}) :
                /\ b \in S
                /\ \A x \in S : f.succ[x] # {} /\ f.succ[x] \ {a} \subseteq S

isVMEMOrFLAT(I) == I.kind \in {"load", "store", "dma"}

updateVMCntOnly(I) == isVMEMOrFLAT(I) /\ I.seg # "flat"

mayAccessVMEMThroughFlat(I) == I.mem # {"lds"}
mayAccessLDSThroughFlat(I) == I.seg = "flat" /\ "lds" \in I.mem
mayAccessScratchThroughFlat(I) == I.seg = "scratch" \/ (I.seg = "flat" /\ "scratch" \in I.mem)

VmemReadMapping == [VMEM_NOSAMPLER |-> "VMEM_READ_ACCESS",
                    VMEM_SAMPLER   |-> "VMEM_SAMPLER_READ_ACCESS",
                    VMEM_BVH       |-> "VMEM_BVH_READ_ACCESS"]

getVmemWaitEventType(I) ==
    IF ~hasVscnt(ST) \/ I.kind = "dma" THEN "VMEM_ACCESS"
    ELSE IF I.kind = "store"
    THEN IF I.seg # "buffer" /\ mayAccessScratchThroughFlat(I)
         THEN "SCRATCH_WRITE_ACCESS" ELSE "VMEM_WRITE_ACCESS"
    ELSE IF ~hasExtendedWaitCounts(ST) \/ I.seg # "buffer" THEN "VMEM_READ_ACCESS"
    ELSE VmemReadMapping[I.type]

-----------------------------------------------------------------------------
VgprOperands(I) == (I.defs \cup I.uses) \cap Vgprs
SgprOperands(I) == (I.defs \cup I.uses) \cap Sgprs

\* Mutant: a second write to a register never waits for the first.
needsVmWait_UseOnly(B, I) == I.uses \cap Vgprs

\* The registers of I whose pending vector-memory reads matter: not those
\* it writes after another read of its own type, which write in order.
needsVmWait(B, I) ==
    {v \in VgprOperands(I) :
        \/ v \in I.uses \/ ~updateVMCntOnly(I)
        \/ hasOtherPendingVmemTypes(B, v, I.type) \/ ~hasVmemWriteVgprInOrder(ST)}

\* The slots whose score on counter T is looked at before I.
SlotsToWaitFor(B, I, T) ==
    CASE T \in {"LOAD_CNT", "SAMPLE_CNT", "BVH_CNT"} ->
            needsVmWait(B, I) \cup
            (IF T = "LOAD_CNT" /\ I.lds # {} /\ I.kind # "dma" THEN dmaSlotsOf(B, I.lds) ELSE {})
      [] T = "EXP_CNT" ->
            IF hasPendingEvent(B, "EXP_LDS_ACCESS") THEN VgprOperands(I) ELSE I.defs \cap Vgprs
      [] T \in {"DS_CNT", "KM_CNT"} ->
            (IF T = "DS_CNT" THEN VgprOperands(I) ELSE {})
            \cup (IF T = SmemAccessCounter(ST) THEN SgprOperands(I) ELSE {})
      [] T = "STORE_CNT" -> {}

\* Exports and GDS operations read EXEC when they are granted.
ExecReaders == {"EXP_GPR_LOCK", "EXP_PARAM_ACCESS", "EXP_POS_ACCESS", "GDS_GPR_LOCK"}

storesToSLoad(I) == I.kind = "store" /\ I.ptr \in DOMAIN SLoadAddresses

\* Mutant: exports may be pending when EXEC is written.
ZeroFirst_NoExec(B, I) == {T \in {SmemAccessCounter(ST)} : storesToSLoad(I)}

\* The counters that have to be zero before I.
ZeroFirst(B, I) ==
    {T \in InstCounterType :
        \/ T = "EXP_CNT" /\ I.exec /\ B.PendingEvents \cap ExecReaders # {}
        \/ T = SmemAccessCounter(ST) /\ storesToSLoad(I)}

waitFor(B, T, slots) == Min({NoWait} \cup {determineWait(B, T, r) : r \in slots})

\* What generateWaitcntInstBefore asks for.  A call waits for its address
\* only: the callee waits for the rest.
RequiredWait(B, I) ==
    CASE I.kind = "return" -> getAllZeroWaitcnt
      [] I.kind = "endpgm" -> NoWaits
      [] I.kind = "call" ->
            [T \in InstCounterType |->
                IF T = SmemAccessCounter(ST) THEN waitFor(B, T, SgprOperands(I)) ELSE NoWait]
      [] I.kind \notin {"return", "endpgm", "call"} ->
            [T \in InstCounterType |->
                IF T \in ZeroFirst(B, I) THEN 0 ELSE waitFor(B, T, SlotsToWaitFor(B, I, T))]

\* Before gfx12 LOAD_CNT, EXP_CNT and DS_CNT are fields of one instruction:
\* where it waits for one it holds the maximum for the others.
Encoded(Wait) ==
    LET Fields == {"LOAD_CNT", "EXP_CNT", "DS_CNT"}
    IN  IF hasExtendedWaitCounts(ST) \/ \A T \in Fields : Wait[T] = NoWait THEN Wait
        ELSE [T \in InstCounterType |->
                 IF T \in Fields THEN Least(Wait[T], WaitCountMax[T]) ELSE Wait[T]]

SoftWait(p) ==
    IF p \in Soft
    THEN Encoded([T \in InstCounterType |->
                     IF T \in fn.code[p[1]][p[2]].soft THEN 0 ELSE NoWait])
    ELSE NoWaits

\* generateWaitcnt: the required wait, together with those already at p.  A
\* soft one counts for what is pending, and is gone in any case.
generatedWait(B, p, required) ==
    combined(combined(required, Hard[p]), simplifyWaitcnt(B, SoftWait(p)))

-----------------------------------------------------------------------------
\* The slots a store to LDS marks: the general one, and that of its object.
ldsMarks(B, I) ==
    IF mayWriteLds(I) THEN {0} \cup {dmaSlot(B, o) : o \in I.lds} ELSE {}

\* updateByEvent for an event E that is not one of EXP_CNT.
accessEvent(B, E, I, vmem) ==
    LET marked == updateByEvent(B, E, I.defs \cup ldsMarks(B, I), vmem)
    IN  IF mayWriteLds(I) /\ I.lds # {}
        THEN recordDmaStore(marked, CHOOSE o \in I.lds : TRUE) ELSE marked

\* The steps of updateEventWaitcntAfter for vector memory.
vmemEvent(B, I) ==
    accessEvent(B, getVmemWaitEventType(I), I, IF updateVMCntOnly(I) THEN {I.type} ELSE {})

flatEvents(B, I) ==
    LET lds(C) == accessEvent(C, "LDS_ACCESS", I, {})
    IN  IF ~mayAccessVMEMThroughFlat(I) THEN lds(B)
        ELSE IF ~mayAccessLDSThroughFlat(I) THEN vmemEvent(B, I)
        ELSE setPendingFlat(lds(vmemEvent(B, I)))

bufferEvents(B, I) ==
    IF vmemWriteNeedsExpWaitcnt(ST) /\ I.data # {}
    THEN updateByEvent(vmemEvent(B, I), "VMW_GPR_LOCK", I.data, {})
    ELSE vmemEvent(B, I)

updateEventWaitcntAfter(B, I) ==
    CASE I.kind = "ds" -> accessEvent(B, "LDS_ACCESS", I, {})
      [] I.kind = "gds" ->
            updateByEvent(accessEvent(B, "GDS_ACCESS", I, {}), "GDS_GPR_LOCK", I.uses, {})
      [] isVMEMOrFLAT(I) /\ I.seg # "buffer" -> flatEvents(B, I)
      [] isVMEMOrFLAT(I) /\ I.seg = "buffer" -> bufferEvents(B, I)
      [] I.kind = "smem" -> updateByEvent(B, "SMEM_ACCESS", I.defs, {})
      [] I.kind = "call" -> setStateOnFunctionEntryOrReturn(applyWaitcnt(B, getAllZeroWaitcnt))
      [] I.kind = "ldsdir" -> updateByEvent(B, "EXP_LDS_ACCESS", I.defs, {})
      [] I.kind = "export" -> updateByEvent(B, I.event, I.uses, {})
      [] I.kind = "message" -> updateByEvent(B, "SQ_MESSAGE", I.defs, {})
      [] I.kind \in {"alu", "return", "endpgm"} -> B

-----------------------------------------------------------------------------
\* A function that is called begins with a wait for all but the stores.
Init ==
    /\ fn \in Functions
    /\ phase = "pass" /\ at = <<0, 0>>
    /\ Incoming = [b \in {x \in {1} : ~fn.isEntryFunction} |->
                      setStateOnFunctionEntryOrReturn(NewBrackets(ST))]
    /\ Dirty = Blocks /\ Repeat = FALSE
    /\ ScoreBrackets = NewBrackets(ST)
    /\ Hard = [p \in Places |-> IF p = <<1, 1>> /\ ~fn.isEntryFunction
                                THEN getAllZeroWaitcnt ELSE NoWaits]
    /\ Soft = {p \in Places : p[2] <= Length(p[1]) /\ fn.code[p[1]][p[2]].soft # {}}
    /\ ReleaseVGPRInsts = {} /\ SLoadAddresses = <<>> /\ PreheadersToFlush = <<>>
    /\ queue = <<>>

\* The next block in the order that is to be visited; at[2] is 0 between two
\* visits, and at[1] then the last block visited, 0 at the start of a round.
StartBlock ==
    /\ phase = "pass" /\ at[2] = 0
    /\ \E b \in Dirty :
          /\ b > at[1] /\ \A x \in Dirty : x > at[1] => b <= x
          /\ at' = <<b, 1>>
          /\ Dirty' = Dirty \ {b}
          /\ ScoreBrackets' = IF b \in DOMAIN Incoming THEN Incoming[b] ELSE NewBrackets(ST)
    /\ UNCHANGED <<fn, phase, Incoming, Repeat, Hard, Soft, ReleaseVGPRInsts,
                   SLoadAddresses, PreheadersToFlush, queue>>

\* The pointers remembered after I: a store that post-dominates the block of
\* the load drops it, a scalar load adds its own unless it is there.
sLoadAddressesAfter(I) ==
    LET dropped == {p \in DOMAIN SLoadAddresses :
                       storesToSLoad(I) /\ p = I.ptr /\ PostDominates(fn, at[1], SLoadAddresses[p])}
        added == IF I.kind = "smem" /\ I.ptr # NoPointer THEN {I.ptr} ELSE {}
    IN  [p \in (DOMAIN SLoadAddresses \ dropped) \cup added |->
            IF p \in DOMAIN SLoadAddresses THEN SLoadAddresses[p] ELSE at[1]]

\* Mutant: stores to scratch are not asked about.
mayReleaseVGPRs_AnyStore(B, I) ==
    I.kind = "endpgm" /\ ST >= 11 /\ ScoreRange(B, "STORE_CNT") # 0

mayReleaseVGPRs(B, I) ==
    /\ I.kind = "endpgm" /\ ST >= 11
    /\ ScoreRange(B, "STORE_CNT") # 0 /\ ~hasPendingEvent(B, "SCRATCH_WRITE_ACCESS")

\* The brackets once the wait is generated before I.
bracketsBefore(B, I, Wait) ==
    applyWaitcnt(IF I.kind \in {"call", "return", "endpgm"} THEN B
                 ELSE clearVgprVmemTypes(B, needsVmWait(B, I)), Wait)

\* One turn of the loop of insertWaitcntInBlock: generateWaitcntInstBefore
\* and updateEventWaitcntAfter.
VisitInstruction ==
    LET I == Inst
        B == ScoreBrackets
        Wait == generatedWait(B, at, simplifyWaitcnt(B, RequiredWait(B, I)))
    IN  /\ phase = "pass" /\ at[2] > 0 /\ at[2] <= Length(at[1])
        /\ Hard' = [Hard EXCEPT ![at] = Encoded(Wait)]
        /\ Soft' = Soft \ {at}
        /\ ScoreBrackets' = updateEventWaitcntAfter(bracketsBefore(B, I, Wait), I)
        /\ ReleaseVGPRInsts' = ReleaseVGPRInsts \cup {b \in {at[1]} : mayReleaseVGPRs(B, I)}
        /\ SLoadAddresses' = sLoadAddressesAfter(I)
        /\ at' = <<at[1], at[2] + 1>>
        /\ UNCHANGED <<fn, phase, Incoming, Dirty, Repeat, PreheadersToFlush, queue>>

\* isPreheaderToFlush: decided at the first visit.  A block can be the
\* preheader of its only successor if the others that lead there come later;
\* shouldFlushVmCnt, which guesses what is faster, is left open.
isPreheader(b) ==
    \E h \in Blocks : /\ fn.succ[b] = {h} /\ h > b
                      /\ \E x \in Blocks : x >= h /\ h \in fn.succ[x]
                      /\ \A x \in Blocks : h \in fn.succ[x] /\ x # b => x >= h

FlushChoices(b) == IF b \in DOMAIN PreheadersToFlush THEN {PreheadersToFlush[b]}
                   ELSE IF isPreheader(b) THEN BOOLEAN ELSE {FALSE}

flushWait(B, flush) ==
    [T \in InstCounterType |->
        IF flush /\ T \in {"LOAD_CNT", "SAMPLE_CNT", "BVH_CNT"} /\ PendingOn(B, T) # {}
        THEN 0 ELSE NoWait]

\* Mutant: a successor visited before is not merged into again.
joinSuccessors_Once(b, B) ==
    [s \in DOMAIN Incoming \cup fn.succ[b] |->
        IF s \in DOMAIN Incoming THEN Incoming[s] ELSE B]

\* The brackets of the blocks once those at the end of b reach its successors.
joinSuccessors(b, B) ==
    [s \in DOMAIN Incoming \cup fn.succ[b] |->
        IF s \notin DOMAIN Incoming THEN B
        ELSE IF s \in fn.succ[b] THEN merge(Incoming[s], B)
        ELSE Incoming[s]]

changedSuccessors(b, B) ==
    {s \in fn.succ[b] : s \in DOMAIN Incoming => StrictDom(Incoming[s], B)}

\* The end of insertWaitcntInBlock, and the rest of the loop over the blocks.
EndBlock ==
    LET b == at[1] IN
    /\ phase = "pass" /\ at[2] > 0 /\ at[2] > Length(b)
    /\ \E flush \in FlushChoices(b) :
          LET Wait == generatedWait(ScoreBrackets, at, flushWait(ScoreBrackets, flush))
              B == applyWaitcnt(ScoreBrackets, Wait)
              changed == IF B.PendingEvents = {} THEN {} ELSE changedSuccessors(b, B)
          IN  /\ Hard' = [Hard EXCEPT ![at] = Encoded(Wait)]
              /\ ScoreBrackets' = B
              /\ PreheadersToFlush' = [x \in DOMAIN PreheadersToFlush \cup {b} |->
                                          IF x = b THEN flush ELSE PreheadersToFlush[x]]
              /\ Incoming' = IF B.PendingEvents = {} THEN Incoming ELSE joinSuccessors(b, B)
              /\ Dirty' = Dirty \cup changed
              /\ Repeat' = (Repeat \/ \E s \in changed : s <= b)
    /\ at' = <<b, 0>>
    /\ UNCHANGED <<fn, phase, Soft, ReleaseVGPRInsts, SLoadAddresses, queue>>

EndOfRound == phase = "pass" /\ at[2] = 0 /\ \A b \in Dirty : b <= at[1]

RepeatRound ==
    /\ EndOfRound /\ Repeat
    /\ Repeat' = FALSE /\ at' = <<0, 0>>
    /\ UNCHANGED <<fn, phase, Incoming, Dirty, ScoreBrackets, Hard, Soft,
                   ReleaseVGPRInsts, SLoadAddresses, PreheadersToFlush, queue>>

-----------------------------------------------------------------------------
\* The wave.  An instruction puts the operations it starts in the queue; an
\* operation is taken out when its counter is decremented, and until then may
\* write its registers, read those it holds on to, and touch its memory.
Op(ev, I) == [ev |-> ev, writes |-> {}, locks |-> {}, type |-> "none",
              flat |-> FALSE, lds |-> {}, reads |-> NoPointer, kind |-> I.kind]

VmemOp(I) ==
    [Op(getVmemWaitEventType(I), I) EXCEPT
        !.writes = I.defs, !.type = I.type,
        !.flat = mayAccessVMEMThroughFlat(I) /\ mayAccessLDSThroughFlat(I),
        !.lds = IF I.kind = "dma" THEN I.lds ELSE {}]

LdsOp(I) ==
    [Op("LDS_ACCESS", I) EXCEPT
        !.writes = I.defs,
        !.flat = isVMEMOrFLAT(I) /\ mayAccessVMEMThroughFlat(I)]

ExpOp(ev, I, locks) == [Op(ev, I) EXCEPT !.locks = locks]

Ops(I) ==
    CASE I.kind = "ds" -> <<LdsOp(I)>>
      [] I.kind = "gds" -> <<[Op("GDS_ACCESS", I) EXCEPT !.writes = I.defs],
                             ExpOp("GDS_GPR_LOCK", I, I.uses)>>
      [] isVMEMOrFLAT(I) ->
            (IF mayAccessVMEMThroughFlat(I) THEN <<VmemOp(I)>> ELSE <<>>)
            \o (IF mayAccessLDSThroughFlat(I) THEN <<LdsOp(I)>> ELSE <<>>)
            \o (IF vmemWriteNeedsExpWaitcnt(ST) /\ I.seg = "buffer" /\ I.data # {}
                THEN <<ExpOp("VMW_GPR_LOCK", I, I.data)>> ELSE <<>>)
      [] I.kind = "smem" -> <<[Op("SMEM_ACCESS", I) EXCEPT !.writes = I.defs, !.reads = I.ptr]>>
      [] I.kind = "message" -> <<[Op("SQ_MESSAGE", I) EXCEPT !.writes = I.defs]>>
      [] I.kind = "export" -> <<ExpOp(I.event, I, I.uses)>>
      [] I.kind = "ldsdir" -> <<[Op("EXP_LDS_ACCESS", I) EXCEPT !.writes = I.defs]>>
      [] I.kind \in {"alu", "call", "return", "endpgm"} -> <<>>

CounterOf(op) == eventCounter(ST, op.ev)

Outstanding(T, q) == Cardinality({k \in 1..Len(q) : CounterOf(q[k]) = T})

\* Operations of one event decrement their counter in order, but for scalar
\* reads and, on older targets, instructions that go to both memories.
InOrder(a, b) == /\ a.ev = b.ev /\ a.ev # "SMEM_ACCESS"
                 /\ (a.flat \/ b.flat) => hasFlatLgkmVMemCountInOrder(ST)

Complete ==
    /\ phase = "run"
    /\ \E k \in 1..Len(queue) :
          /\ \A j \in 1..k-1 : ~InOrder(queue[j], queue[k])
          /\ queue' = RemoveAt(queue, k)
    /\ UNCHANGED <<fn, phase, at, passVars>>

\* What may be in flight where a called function starts, the operations of two
\* instructions, and where a call returns, those of a store.
PendingOps == {Ops(I) \o Ops(J) : I, J \in LeftPending}
PendingStores ==
    {<<>>} \cup {q \in {Ops(I) : I \in LeftPending} :
                    \A k \in 1..Len(q) : CounterOf(q[k]) = "STORE_CNT"}

FinishPass ==
    /\ EndOfRound /\ ~Repeat
    /\ phase' = "run" /\ at' = <<1, 1>>
    /\ queue' \in IF fn.isEntryFunction THEN {<<>>} ELSE PendingOps
    /\ UNCHANGED <<fn, passVars>>

WaitsMet == \A T \in InstCounterType : Outstanding(T, queue) <= Hard[at][T]

\* An instruction is issued when the waits before it are met and its counters
\* can still count.
Ready == /\ phase = "run" /\ at[2] <= Length(at[1]) /\ WaitsMet
         /\ \A T \in InstCounterType :
               Outstanding(T, Ops(Inst)) > 0 =>
                   Outstanding(T, queue) + Outstanding(T, Ops(Inst)) <= WaitCountMax[T]

Issue ==
    /\ Ready /\ Inst.kind \notin {"call", "return", "endpgm"}
    /\ queue' = queue \o Ops(Inst)
    /\ at' = <<at[1], at[2] + 1>>
    /\ UNCHANGED <<fn, phase, passVars>>

\* The callee waits for all but the stores, and leaves stores of its own.
Call ==
    /\ Ready /\ Inst.kind = "call"
    /\ queue' \in PendingStores
    /\ at' = <<at[1], at[2] + 1>>
    /\ UNCHANGED <<fn, phase, passVars>>

Leave ==
    /\ Ready /\ Inst.kind \in {"return", "endpgm"}
    /\ phase' = "done"
    /\ UNCHANGED <<fn, at, passVars, queue>>

Branch ==
    /\ phase = "run" /\ at[2] > Length(at[1]) /\ WaitsMet
    /\ \E s \in fn.succ[at[1]] : at' = <<s, 1>>
    /\ UNCHANGED <<fn, phase, passVars, queue>>

\* The wave has ended.
Ended == phase = "done" /\ UNCHANGED vars

Pass == StartBlock \/ VisitInstruction \/ EndBlock \/ RepeatRound \/ FinishPass
Next == Pass \/ Complete \/ Issue \/ Call \/ Leave \/ Branch \/ Ended

Spec == Init /\ [][Next]_vars

\* Weak fairness of the pass: it is a program, and takes its steps.  It has a
\* step wherever phase is "pass", or the absence of deadlock would fail.
FairSpec == Spec /\ ([]<>(phase # "pass") \/ []<><<Pass>>_vars)

-----------------------------------------------------------------------------
BracketsType ==
    [ST: Generations, LB: [InstCounterType -> Nat], UB: [InstCounterType -> Nat],
     PendingEvents: SUBSET WaitEventType, LastFlat: [InstCounterType -> Nat],
     Score: [InstCounterType -> [Slots -> Nat]],
     VmemTypes: [Vgprs -> SUBSET VmemType], LDSDMAStores: Seq(LdsObjects)]

Waitcnt == [InstCounterType -> Nat]

VariableTypes ==
    /\ WellFormed(fn) /\ phase \in {"pass", "run", "done"}
    /\ at \in Nat \X Nat
    /\ DOMAIN Incoming \subseteq Blocks /\ \A b \in DOMAIN Incoming : Incoming[b] \in BracketsType
    /\ Dirty \subseteq Blocks /\ Repeat \in BOOLEAN
    /\ ScoreBrackets \in BracketsType
    /\ Hard \in [Places -> Waitcnt] /\ Soft \subseteq Places
    /\ ReleaseVGPRInsts \subseteq Blocks
    /\ DOMAIN SLoadAddresses \subseteq Pointers
    /\ \A p \in DOMAIN SLoadAddresses : SLoadAddresses[p] \in Blocks
    /\ DOMAIN PreheadersToFlush \subseteq Blocks
    /\ \A b \in DOMAIN PreheadersToFlush : PreheadersToFlush[b] \in BOOLEAN

\* The brackets tell no more stores to LDS apart than there are slots for, and
\* the slot of each is there.
SlotsSuffice ==
    \A B \in {ScoreBrackets} \cup {Incoming[b] : b \in DOMAIN Incoming} :
        Len(B.LDSDMAStores) <= DmaSlots

\* The pass and the wave are at a place of the code, but for the pass between
\* two blocks.
InCode ==
    at \in Places \/ (phase = "pass" /\ at \in (Blocks \cup {0}) \X {0})

\* Every variable has a value of its type: scores and waits are numbers, also
\* after scores are aligned and bounds are moved (setScoreUB, merge,
\* applyWaitcnt), the LDS stores told apart have slots, and the place looked
\* at is in the code.
TypeOK == VariableTypes /\ SlotsSuffice /\ InCode

\* In all the brackets of the pass, a counter the target has got has events
\* pending exactly when its range of scores is not empty, as hasPendingEvent
\* asserts: the updates, waits and merges that keep the two apart agree.
PendingMatchesRange ==
    \A B \in {ScoreBrackets} \cup {Incoming[b] : b \in DOMAIN Incoming} :
        \A T \in {X \in InstCounterType : getWaitCountMax(ST, X) # 0} :
            (PendingOn(B, T) # {}) <=> (ScoreRange(B, T) # 0)

\* The reads that are of the same vector-memory type write in issue order.
WritesInOrder(op, I) ==
    updateVMCntOnly(I) /\ op.type = I.type /\ hasVmemWriteVgprInOrder(ST)

\* No instruction is issued that reads a register an operation in flight may
\* still write, a call none that holds its target: on every path, for every
\* order of completion the counters allow.
ResultsArrived ==
    Ready => \A k \in 1..Len(queue) :
                queue[k].writes
                    \cap (IF Inst.kind = "call" THEN SgprOperands(Inst) ELSE Inst.uses) = {}

\* No instruction is issued that writes a register an operation in flight may
\* still read, or EXEC under an export; a call leaves that to the callee.
OperandsRead ==
    Ready /\ Inst.kind \notin {"call", "return"} =>
        \A k \in 1..Len(queue) : /\ queue[k].locks \cap Inst.defs = {}
                                  /\ Inst.exec => queue[k].ev \notin ExecReaders

\* No instruction is issued that writes a register an operation in flight may
\* still write, but where the two write in order.
WritesOrdered ==
    Ready /\ Inst.kind \notin {"call", "return"} =>
        \A k \in 1..Len(queue) :
            queue[k].writes \cap Inst.defs # {} => WritesInOrder(queue[k], Inst)

\* No store is issued to memory that a scalar load may still read.
ScalarReadsDone ==
    Ready /\ Inst.kind = "store" =>
        \A k \in 1..Len(queue) : queue[k].reads = NoPointer \/ queue[k].reads # Inst.ptr

\* No access is issued to an LDS object that a DMA store may still write.
LdsWritesDone ==
    Ready /\ Inst.kind \notin {"call", "return", "dma"} =>
        \A k \in 1..Len(queue) : queue[k].lds \cap Inst.lds = {}

\* What goes by memory, and not by registers, is in order.
MemoryOrdered == ScalarReadsDone /\ LdsWritesDone

\* A function returns with nothing in flight but stores, as it has to leave
\* the results it may have asked for to its caller.
ReturnsDrained ==
    Ready /\ Inst.kind = "return" =>
        \A k \in 1..Len(queue) : CounterOf(queue[k]) = "STORE_CNT"

\* VGPRs are released early only when no store to scratch is in flight.
ReleasedWithoutScratch ==
    (Ready /\ Inst.kind = "endpgm" /\ at[1] \in ReleaseVGPRInsts) =>
        \A k \in 1..Len(queue) : queue[k].ev # "SCRATCH_WRITE_ACCESS"

\* Where a preexisting soft wait stood, its counters are at zero.
SoftWaitsHonoured ==
    Ready => \A T \in Inst.soft : Outstanding(T, queue) = 0

\* On entry to a block with operations in flight, but for the first block of a
\* called function, which begins with a wait.
EntersBusy ==
    phase = "run" /\ at[2] = 1 /\ queue # <<>> /\ ~(at[1] = 1 /\ ~fn.isEntryFunction)

\* The brackets a block starts with have the event pending of every operation
\* that can be in flight on entry, whichever path led there.
IncomingCoversEvents ==
    EntersBusy => /\ at[1] \in DOMAIN Incoming
                  /\ \A k \in 1..Len(queue) : queue[k].ev \in Incoming[at[1]].PendingEvents

\* Each register that such an operation writes or holds on to has a score in
\* the brackets.
IncomingCoversRegisters ==
    EntersBusy =>
        \A k \in 1..Len(queue) :
            \A r \in queue[k].writes \cup queue[k].locks :
                LET B == Incoming[at[1]]
                    T == CounterOf(queue[k])
                IN  InBracket(B, T, B.Score[T][r])

\* The rounds over the blocks come to an end, whatever is flushed.
PassTerminates == <>(phase = "run")
=============================================================================
