-------------------------------- MODULE LLSC --------------------------------
(***************************************************************************)
(* Harts that share one word of memory and reach it with load-linked and   *)
(* store-conditional instructions.  A hart's reservation is lost when      *)
(* another agent stores to the word, or for no reason the program sees (an *)
(* interrupt, an eviction).                                                *)
(***************************************************************************)
EXTENDS AtomicWord

CONSTANTS
    Hart,       \* the harts
    Calls,      \* the operations they execute, as records
    Stores(_)   \* Stores(w): what a plain store of another agent makes of w

VARIABLES
    mem,      \* the shared word
    resv,     \* the harts that hold a reservation
    pc,       \* pc[h]: the basic block hart h is in, "idle" outside a call
    call,     \* call[h]: the operation hart h executes
    Dest,     \* Dest[h]: DestReg of the expansion
    Scratch   \* Scratch[h]: ScratchReg, Scratch1Reg in a min/max loop

vars == <<mem, resv, pc, call, Dest, Scratch>>

NoCall == [op |-> "none"]
NoReply == [old |-> -1, success |-> FALSE]

\* The blocks that follow an expansion: the loop's DoneMBB, and the target of a
\* branch on the result that was folded into the loop.
Returned == {"done", "bnetarget"}

InitLLSC ==
    /\ mem \in Word
    /\ resv = {}
    /\ pc = [h \in Hart |-> "idle"]
    /\ call = [h \in Hart |-> NoCall]
    /\ Dest = [h \in Hart |-> {}]
    /\ Scratch = [h \in Hart |-> {}]

Goto(h, block) == pc' = [pc EXCEPT ![h] = block]
SetScratch(h, r) == Scratch' = [Scratch EXCEPT ![h] = r]

LoadLinked(h) ==
    /\ Dest' = [Dest EXCEPT ![h] = SExt(mem)]
    /\ resv' = resv \cup {h}
    /\ UNCHANGED <<mem, call>>

\* The store-conditional of r, and where control goes.
SCSucceeds(h, r, block) ==
    /\ h \in resv
    /\ mem' = Trunc(r)
    /\ resv' = {}
    /\ Goto(h, block)
    /\ UNCHANGED <<call, Dest>>

SCFails(h, block) ==
    /\ h \notin resv
    /\ Goto(h, block)
    /\ UNCHANGED <<mem, resv, call, Dest>>

LoseReservation(h) ==
    /\ h \in resv
    /\ resv' = resv \ {h}
    /\ UNCHANGED <<mem, pc, call, Dest, Scratch>>

ForeignStore ==
    /\ mem' \in Stores(mem)
    /\ resv' = {}
    /\ UNCHANGED <<pc, call, Dest, Scratch>>

\* The program has read the result: the registers are dead.
Return(h) ==
    /\ pc[h] \in Returned
    /\ Goto(h, "idle")
    /\ call' = [call EXCEPT ![h] = NoCall]
    /\ Dest' = [Dest EXCEPT ![h] = {}]
    /\ SetScratch(h, {})
    /\ UNCHANGED <<mem, resv>>

Environment == ForeignStore \/ \E h \in Hart : LoseReservation(h)
=============================================================================
