------------------------------ MODULE Threads ------------------------------
(***************************************************************************)
(* QThread (thread/qthread.cpp) and the table of thread ids it keeps       *)
(* (thread/uv_thread.h).  A thread id is what uv_thread_self returns: the  *)
(* system gives it to another thread as soon as its thread has been        *)
(* joined.  A slot of the table holds the id of the thread that took it,   *)
(* or Free.  Callers are the threads that call Start and Join.             *)
(***************************************************************************)
EXTENDS Naturals

CONSTANTS Objects,     \* QThread objects
          Tids,        \* thread ids the system hands out
          Callers,     \* threads that start and join
          QUEUUE_SIZE, \* slots of the table
          QUEUEU_MASK, \* what the index of the scan is masked with
          NULL         \* no slot, no object, no id

ASSUME ThreadConstants ==
    /\ QUEUUE_SIZE \in Nat \ {0} /\ QUEUEU_MASK \in Nat
    /\ NULL \notin Objects /\ NULL \notin Tids /\ NULL \notin 0 .. QUEUUE_SIZE - 1
    /\ "free" \notin Tids

VARIABLES
    queue_,    \* slot -> id or Free
    idx_,      \* the slot taken last
    obj,       \* object -> is_joined_, thread_ptr_ (a slot or NULL), started while it ran
    thr,       \* id -> its object, what it does, its slot
    caller,    \* caller -> what it does, with which object, for which id
    failed     \* the assertion, or the bad access, that ended the process

threadVars == <<queue_, idx_, obj, thr, caller, failed>>

Free  == "free"
Slots == 0 .. QUEUUE_SIZE - 1
None  == [obj |-> NULL, pc |-> "none", slot |-> NULL]

InitThreads ==
    /\ queue_ = [s \in Slots |-> Free]
    /\ idx_ = 0
    /\ obj = [o \in Objects |-> [is_joined_ |-> TRUE, thread_ptr_ |-> NULL, twice |-> FALSE]]
    /\ thr = [t \in Tids |-> None]
    /\ caller = [c \in Callers |-> [pc |-> "idle", obj |-> NULL, tid |-> NULL]]
    /\ failed = "no"

\* Start: the object may have been started already.
Start(c, o) ==
    /\ caller[c].pc = "idle"
    /\ \E t \in Tids :
        /\ thr[t].pc = "none"
        /\ thr' = [thr EXCEPT ![t] = [obj |-> o, pc |-> "created", slot |-> NULL]]
    /\ obj' = [obj EXCEPT ![o].is_joined_ = FALSE, ![o].twice = @ \/ ~obj[o].is_joined_]
    /\ UNCHANGED <<queue_, idx_, caller, failed>>

\* Mutant: the scan takes the next slot without looking at it.
ScanTakes(i) == IF i + 1 \in Slots THEN i + 1 ELSE 0

\* The slot a scan from i on ends at; QUEUUE_SIZE when it leaves the array, NULL after a round.
Scan(i) ==
    LET at(k) == (i + k) % (QUEUEU_MASK + 1)
        stops == {k \in 0..QUEUEU_MASK : at(k) \notin Slots \/ queue_[at(k)] = Free}
    IN  IF stops = {} THEN NULL
        ELSE LET k == CHOOSE k \in stops : \A l \in stops : k <= l
             IN  IF at(k) \in Slots THEN at(k) ELSE QUEUUE_SIZE

\* InitCurrentThreadInfo: the slot that holds this id already, else the next free one.
InitCurrentThreadInfo(t) ==
    LET mine == {s \in Slots : queue_[s] = t}
    IN  IF mine # {} THEN CHOOSE s \in mine : \A r \in mine : s <= r ELSE Scan(idx_)

\* The new thread takes its slot, and runs.
thread_start(t) ==
    LET s == InitCurrentThreadInfo(t) IN
    /\ thr[t].pc = "created"
    /\ IF s \notin Slots
       THEN failed' = "thread table" /\ UNCHANGED <<queue_, idx_, obj, thr>>
       ELSE /\ queue_' = [queue_ EXCEPT ![s] = t]
            /\ idx_' = IF queue_[s] = t THEN idx_ ELSE s
            /\ obj' = [obj EXCEPT ![thr[t].obj].thread_ptr_ = s]
            /\ thr' = [thr EXCEPT ![t].pc = "running", ![t].slot = s]
            /\ UNCHANGED failed
    /\ UNCHANGED caller

\* thr_func_ returns.
Over(t) ==
    /\ thr[t].pc = "running"
    /\ thr' = [thr EXCEPT ![t].pc = "over"]
    /\ UNCHANGED <<queue_, idx_, obj, caller, failed>>

\* Join takes mutex_ for all of its steps.
Unlocked(o) == \A c \in Callers : caller[c].obj # o

Join(c, o) ==
    /\ caller[c].pc = "idle" /\ Unlocked(o) /\ ~obj[o].is_joined_
    /\ obj' = [obj EXCEPT ![o].is_joined_ = TRUE]
    /\ IF obj[o].thread_ptr_ = NULL
       THEN failed' = "thread_ptr_" /\ UNCHANGED caller
       ELSE /\ caller' = [caller EXCEPT ![c] = [pc |-> "join", obj |-> o, tid |-> queue_[obj[o].thread_ptr_]]]
            /\ UNCHANGED failed
    /\ UNCHANGED <<queue_, idx_, thr>>

\* uv_thread_join: from here on the system may use the id again.
Joined(c) ==
    LET t == caller[c].tid IN
    /\ caller[c].pc = "join"
    /\ IF t = Free
       THEN failed' = "thrid_" /\ UNCHANGED <<thr, caller>>
       ELSE /\ thr[t].pc = "over"
            /\ thr' = [thr EXCEPT ![t] = None]
            /\ caller' = [caller EXCEPT ![c].pc = "clear"]
            /\ UNCHANGED failed
    /\ UNCHANGED <<queue_, idx_, obj>>

\* Mutant: the slot is not given back.
KeepsThreadInfo(c) ==
    LET o == caller[c].obj IN
    /\ caller[c].pc = "clear"
    /\ obj' = [obj EXCEPT ![o].thread_ptr_ = NULL]
    /\ caller' = [caller EXCEPT ![c] = [pc |-> "idle", obj |-> NULL, tid |-> NULL]]
    /\ UNCHANGED <<queue_, idx_, thr, failed>>

ClearThreadInfo(c) ==
    LET o == caller[c].obj
        s == obj[o].thread_ptr_ IN
    /\ caller[c].pc = "clear"
    /\ IF s = NULL \/ queue_[s] = Free
       THEN failed' = "thrid_idx_" /\ UNCHANGED <<queue_, obj>>
       ELSE /\ queue_' = [queue_ EXCEPT ![s] = Free]
            /\ obj' = [obj EXCEPT ![o].thread_ptr_ = NULL]
            /\ UNCHANGED failed
    /\ caller' = [caller EXCEPT ![c] = [pc |-> "idle", obj |-> NULL, tid |-> NULL]]
    /\ UNCHANGED <<idx_, thr>>

NextThreads ==
    /\ failed = "no"
    /\ \/ \E c \in Callers, o \in Objects : Start(c, o) \/ Join(c, o)
       \/ \E c \in Callers : Joined(c) \/ ClearThreadInfo(c)
       \/ \E t \in Tids : thread_start(t) \/ Over(t)

SpecThreads == InitThreads /\ [][NextThreads]_threadVars

(***************************************************************************)
(* Properties.                                                             *)
(***************************************************************************)

Running(t) == thr[t].pc \in {"running", "over"}

\* No object was started while its thread ran, which zLogger.cpp 189 warns of: Join and
\* ClearThreadInfo then take the slot of one thread for that of the other.
StartedOnce == failed = "no" /\ \A o \in Objects : ~obj[o].twice

\* The slot a thread took is its own until it has been joined: it holds its id, and no other
\* thread takes it, though ids are used again (uv_thread.h 56-104).  With two threads that start and
\* join it does not hold: an id may be used again before its slot is cleared.
SlotIsOwn ==
    StartedOnce => \A t \in Tids : Running(t) => queue_[thr[t].slot] = t

\* After Join has returned no thread of the object runs, and every slot in use is that of a
\* thread not yet joined, so that the table does not fill up (qthread.cpp 32-47).
JoinedIsOver ==
    StartedOnce =>
        /\ \A t \in Tids : thr[t].pc = "running" =>
             ~obj[thr[t].obj].is_joined_ \/ \E c \in Callers : caller[c].obj = thr[t].obj
        /\ \A s \in Slots : queue_[s] # Free =>
             Running(queue_[s]) \/ \E c \in Callers : caller[c].pc = "clear" /\ caller[c].tid = queue_[s]

SlotsFollowThreads == SlotIsOwn /\ JoinedIsOver

\* qthread.cpp 41, assert (thr_data_.thread_ptr_): Join finds the slot of the thread it waits for.
JoinFindsThread == failed # "thread_ptr_"

=============================================================================
