---------------------------- MODULE AtomicObject ----------------------------
(***************************************************************************)
(* What an atomic read-modify-write promises: each call takes effect on    *)
(* the shared word in a single step between its invocation and its return, *)
(* and returns what that step read.  Other agents may store to the word.   *)
(***************************************************************************)
CONSTANTS
    Hart,           \* the harts (cores) that execute calls
    Word,           \* the values of the shared word
    Calls,          \* the calls a hart may execute
    NoCall,         \* the call of a hart that is idle
    NoReply,        \* the reply of a hart that has none to give
    Effect(_, _),   \* Effect(c, w): the word after call c finds w
    Reply(_, _),    \* Reply(c, w): what call c returns when it finds w
    Stores(_)       \* Stores(w): the words a foreign store may leave

VARIABLES
    word,    \* the shared word
    status,  \* status[h]: "idle", "pending" or "done"
    call,    \* call[h]: the call hart h executes
    reply    \* reply[h]: its result, once done

vars == <<word, status, call, reply>>

Init ==
    /\ word \in Word
    /\ status = [h \in Hart |-> "idle"]
    /\ call = [h \in Hart |-> NoCall]
    /\ reply = [h \in Hart |-> NoReply]

Invoke(h) ==
    /\ status[h] = "idle"
    /\ \E c \in Calls : call' = [call EXCEPT ![h] = c]
    /\ status' = [status EXCEPT ![h] = "pending"]
    /\ UNCHANGED <<word, reply>>

Perform(h) ==
    /\ status[h] = "pending"
    /\ word' = Effect(call[h], word)
    /\ reply' = [reply EXCEPT ![h] = Reply(call[h], word)]
    /\ status' = [status EXCEPT ![h] = "done"]
    /\ UNCHANGED call

Return(h) ==
    /\ status[h] = "done"
    /\ status' = [status EXCEPT ![h] = "idle"]
    /\ call' = [call EXCEPT ![h] = NoCall]
    /\ reply' = [reply EXCEPT ![h] = NoReply]
    /\ UNCHANGED word

ForeignStore ==
    /\ word' \in Stores(word)
    /\ UNCHANGED <<status, call, reply>>

Next ==
    \/ \E h \in Hart : Invoke(h) \/ Perform(h) \/ Return(h)
    \/ ForeignStore

Spec == Init /\ [][Next]_vars
=============================================================================
