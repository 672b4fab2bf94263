------------------------------- MODULE LoopStop -------------------------------
(***************************************************************************)
(* The start and the end of the libuv thread.  Libuv has five async        *)
(* handles; a call of another thread puts a key in a queue and signals a   *)
(* handle, and the loop runs the handle's callback, which empties the      *)
(* queue.  Stop signals the last handle, whose callback closes all five,   *)
(* and waits for the thread, which ends when nothing is left in the loop:  *)
(* sockets keep it alive, and nothing closes them for Stop.                *)
(***************************************************************************)
EXTENDS Integers, Sequences, FiniteSets

CONSTANTS
    Requests,   \* the keys that other threads may queue
    MaxSockets  \* bound: sockets open at a time

\* The handles in the order of uv_async_init, which is the order the loop visits them in.
Handles == <<"evt_regist_", "obj_async_", "link_write_", "link_close_", "on_stop_">>
Names == {Handles[i] : i \in 1..Len(Handles)}
Queues == {"obj_async_", "link_write_", "link_close_"}

\* The place of a handle in that order.
PlaceOf(h) == CHOOSE i \in 1..Len(Handles) : Handles[i] = h

VARIABLES
    open,       \* handles initialised and not closed
    pending,    \* handles signalled since their callback last ran
    queue,      \* keys in obj_async_queue_, write_queue_ and close_queue_
    unused,     \* keys not queued yet
    sockets,    \* open sockets
    closing,    \* the loop has closes of handles and sockets to finish
    loop,       \* the libuv thread: "none", "created", "poll", "scan", "ended"
    place,      \* the next handle of the scan
    stopper,    \* the thread in Libuv::Stop: "idle", "join", "close", "done", "crashed"
    thread_ptr_,\* QThread knows its thread
    loop_close, \* the result of uv_loop_close: "none", "ok", "busy"
    passed      \* keys queued when the loop had passed their handle, or it was closed

stopVars == <<open, pending, queue, unused, sockets, closing, loop, place, stopper, thread_ptr_,
              loop_close, passed>>

\* Libuv::Libuv.
InitLoop ==
    /\ open = Names /\ pending = {}
    /\ queue = [h \in Queues |-> {}] /\ unused = Requests /\ passed = {}
    /\ sockets = 0 /\ closing = FALSE
    /\ loop = "none" /\ place = 1
    /\ stopper = "idle" /\ thread_ptr_ = FALSE /\ loop_close = "none"

\* uv_async_send: a closed handle is not visited again.
Signalled(h) == IF h \in open THEN pending \cup {h} ELSE pending

-----------------------------------------------------------------------------
(* Other threads.                                                            *)

\* NetStart, Libuv::Start, QThread::Start.
NetStart ==
    /\ loop = "none"
    /\ loop' = "created"
    /\ UNCHANGED <<open, pending, queue, unused, sockets, closing, place, stopper, thread_ptr_,
                   loop_close, passed>>

\* TcpStartWakeup, LinkWriteWakeup, LinkCloseWakeup: the key is queued and the handle signalled
\* under one lock.  Nothing stops a caller once Libuv has stopped.
Wakeup(h, k) ==
    /\ k \in unused
    /\ unused' = unused \ {k}
    /\ queue' = [queue EXCEPT ![h] = @ \cup {k}]
    /\ pending' = Signalled(h)
    /\ passed' = IF h \notin open \/ (loop = "scan" /\ PlaceOf(h) < place) THEN passed \cup {k} ELSE passed
    /\ UNCHANGED <<open, sockets, closing, loop, place, stopper, thread_ptr_, loop_close>>

\* NetStop, Libuv::Stop: the signal; then Join, which asserts that the thread has reported.
NetStop ==
    /\ stopper = "idle" /\ loop # "none"
    /\ pending' = Signalled("on_stop_")
    /\ stopper' = "join"
    /\ UNCHANGED <<open, queue, unused, sockets, closing, loop, place, thread_ptr_, loop_close, passed>>

\* Mutant: Stop does not wait for the thread.
JoinLoop_not ==
    /\ stopper = "join"
    /\ stopper' = "close"
    /\ UNCHANGED <<open, pending, queue, unused, sockets, closing, loop, place, thread_ptr_, loop_close,
                   passed>>

JoinLoop ==
    /\ stopper = "join"
    /\ \/ ~thread_ptr_ /\ stopper' = "crashed"
       \/ thread_ptr_ /\ loop = "ended" /\ stopper' = "close"
    /\ UNCHANGED <<open, pending, queue, unused, sockets, closing, loop, place, thread_ptr_, loop_close,
                   passed>>

\* uv_loop_close refuses while the loop has handles, or closes to finish.
uv_loop_close ==
    /\ stopper = "close"
    /\ loop_close' = IF open = {} /\ sockets = 0 /\ ~closing THEN "ok" ELSE "busy"
    /\ stopper' = "done"
    /\ UNCHANGED <<open, pending, queue, unused, sockets, closing, loop, place, thread_ptr_, passed>>

-----------------------------------------------------------------------------
(* The libuv thread.                                                         *)

\* thread_start, then uv_run_temp.
uv_run_temp ==
    /\ loop = "created"
    /\ thread_ptr_' = TRUE
    /\ loop' = "poll"
    /\ UNCHANGED <<open, pending, queue, unused, sockets, closing, place, stopper, loop_close, passed>>

\* The loop is woken and visits the handles from the first.
Woken ==
    /\ loop = "poll" /\ pending # {}
    /\ loop' = "scan" /\ place' = 1
    /\ passed' = {k \in passed : \E h \in Queues \ open : k \in queue[h]}
    /\ UNCHANGED <<open, pending, queue, unused, sockets, closing, stopper, thread_ptr_, loop_close>>

\* TcpObjectEvent: a key starts a client or a server, whose socket may fail at once.
\* LinkCloseEvent: a key closes a socket, if there is one.  LinkWriteEvent closes nothing.
Served(h) ==
    \/ /\ h = "obj_async_"
       /\ \E n \in 0..Cardinality(queue[h]) :
            sockets' = IF sockets + n > MaxSockets THEN MaxSockets ELSE sockets + n
       /\ UNCHANGED closing
    \/ /\ h = "link_close_"
       /\ sockets' = IF Cardinality(queue[h]) < sockets THEN sockets - Cardinality(queue[h]) ELSE 0
       /\ closing' = (closing \/ sockets > 0)
    \/ h = "link_write_" /\ UNCHANGED <<sockets, closing>>

\* Mutant: one handle is not closed.
OnStop_four == open' = {"evt_regist_"} /\ closing' = TRUE

\* Libuv::OnStop: uv_close for each of the five.
OnStop == open' = {} /\ closing' = TRUE

\* Mutant: the handle that stops the loop is visited first.
Callback_stopFirst(h) ==
    \/ h \in Queues /\ "on_stop_" \notin pending /\ Served(h) /\ queue' = [queue EXCEPT ![h] = {}]
       /\ UNCHANGED open
    \/ h \in Queues /\ "on_stop_" \in pending /\ OnStop /\ UNCHANGED <<queue, sockets>>
    \/ h = "on_stop_" /\ OnStop /\ UNCHANGED <<queue, sockets>>

\* The callbacks of the handles: async_tcp_start, async_tcp_write_cb, async_tcp_close_cb,
\* libuv_close; evt_regist_ has none.
Callback(h) ==
    \/ h \in Queues /\ Served(h) /\ queue' = [queue EXCEPT ![h] = {}] /\ UNCHANGED open
    \/ h = "on_stop_" /\ OnStop /\ UNCHANGED <<queue, sockets>>

\* The next handle of the scan: its callback runs if it is signalled and still open.
Visit ==
    LET h == Handles[place] IN
    /\ loop = "scan"
    /\ IF h \in pending \cap open
       THEN Callback(h) /\ pending' = pending \ {h}
       ELSE UNCHANGED <<open, queue, sockets, closing>> /\ pending' = pending \cap open
    /\ place' = IF place < Len(Handles) THEN place + 1 ELSE 1
    /\ loop' = IF place < Len(Handles) THEN "scan" ELSE "poll"
    /\ UNCHANGED <<unused, stopper, thread_ptr_, loop_close, passed>>

\* A socket of the loop: a server accepts a link, or a link fails and is closed.
SocketEvent ==
    /\ loop = "poll" /\ sockets > 0
    /\ \/ sockets < MaxSockets /\ sockets' = sockets + 1 /\ UNCHANGED closing
       \/ sockets' = sockets - 1 /\ closing' = TRUE
    /\ UNCHANGED <<open, pending, queue, unused, loop, place, stopper, thread_ptr_, loop_close, passed>>

\* The end of an iteration: uv_after_tcp_close for the closed sockets, and uv_run returns when
\* nothing is left.
EndIteration ==
    /\ loop = "poll"
    /\ closing
    /\ closing' = FALSE
    /\ loop' = IF open = {} /\ sockets = 0 THEN "ended" ELSE "poll"
    /\ UNCHANGED <<open, pending, queue, unused, sockets, place, stopper, thread_ptr_, loop_close, passed>>

StopStep == JoinLoop \/ uv_loop_close
LoopStep == uv_run_temp \/ Woken \/ Visit \/ EndIteration

NextLoop ==
    \/ NetStart \/ NetStop \/ StopStep
    \/ \E h \in Queues, k \in Requests : Wakeup(h, k)
    \/ LoopStep \/ SocketEvent

\* The two threads go on; the sockets do what they like.
SpecLoop ==
    InitLoop /\ [][NextLoop]_stopVars /\ WF_stopVars(LoopStep) /\ WF_stopVars(StopStep)

-----------------------------------------------------------------------------

\* What is queued before the loop visits its handle is served before the loop stops: a key left
\* behind came when its handle had been passed, or after OnStop.  on_stop_ is the last handle
\* (Libuv::Libuv), so a key queued before Stop is only lost if it came during the very scan.
NothingLeftBehind == \A h \in Queues \ open : queue[h] \subseteq passed

\* When Stop has waited for the thread the loop is empty, and uv_loop_close takes it ("uv_loop_close
\* failed!" is never logged).
LoopIsEmpty == loop_close # "busy"

\* What was queued in time is served, and nothing is left when the loop is closed.
LoopServed == NothingLeftBehind /\ LoopIsEmpty

\* Once the sockets are closed for good, Stop returns, whatever other threads queue meanwhile; or
\* Join's assertion has ended the process.
StopReturns == <>[](sockets = 0) => (stopper = "join" ~> stopper \in {"done", "crashed"})
=============================================================================
