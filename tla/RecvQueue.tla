------------------------------ MODULE RecvQueue ------------------------------
(***************************************************************************)
(* recv_queue_ of TcpManager: the libuv thread posts messages, and         *)
(* application threads fetch all of them at once, waiting on rm_cond_      *)
(* (read_msg_mutex_ is its mutex).  Packets are posted with a notification *)
(* (PutRecvQueue); the messages about links and objects (PutMessage,       *)
(* LinkDel) without one.                                                   *)
(*                                                                         *)
(* Everything happens under read_msg_mutex_, which a waiting thread gives  *)
(* up: an action is one critical section.  Messages are numbered in the    *)
(* order in which they are posted.                                         *)
(***************************************************************************)
EXTENDS Integers, Sequences, FiniteSets, SequencesExt

CONSTANTS
    Fetchers,   \* application threads
    Calls,      \* how each fetches: "FetchRecvQueue", or FetchRecvQueue1 with waittime zero
                \* ("wait") or not ("timed")
    MaxMsgs,    \* bound: messages posted
    MaxBatch    \* bound: packets one read completes

ASSUME RecvConstants ==
    /\ Calls \in [Fetchers -> SUBSET {"FetchRecvQueue", "wait", "timed"}]
    /\ MaxMsgs \in Nat /\ MaxBatch \in Nat

VARIABLES
    recv_queue_, \* messages posted and not fetched
    posted,      \* number of messages posted so far
    rm_cond_,    \* the threads waiting on the condition
    pc,          \* where each thread is: outside, waiting or about to return
    call,        \* the call it has made
    got          \* what each thread has fetched so far

vars == <<recv_queue_, posted, rm_cond_, pc, call, got>>

Init ==
    /\ recv_queue_ = <<>>
    /\ posted = 0
    /\ rm_cond_ = {}
    /\ pc = [t \in Fetchers |-> "idle"]
    /\ call \in {c \in [Fetchers -> UNION {Calls[t] : t \in Fetchers}] :
                   \A t \in Fetchers : c[t] \in Calls[t]}
    /\ got = [t \in Fetchers |-> <<>>]

-----------------------------------------------------------------------------
(* The libuv thread.                                                        *)

\* n more messages are posted.
Post(n) ==
    /\ posted + n <= MaxMsgs
    /\ recv_queue_' = recv_queue_ \o [i \in 1..n |-> posted + i]
    /\ posted' = posted + n

\* rm_cond_.Notify(): one waiting thread wakes up, if there is one.
Notify ==
    \/ rm_cond_ = {} /\ UNCHANGED rm_cond_
    \/ \E t \in rm_cond_ : rm_cond_' = rm_cond_ \ {t}

\* A read has completed n packets; OnRead passes them on even when there is none.
PutRecvQueue(n) ==
    /\ Post(n)
    /\ Notify
    /\ UNCHANGED <<pc, call, got>>

\* PutMessage and LinkDel: nobody is notified.
PutMessage ==
    /\ Post(1)
    /\ UNCHANGED <<rm_cond_, pc, call, got>>

-----------------------------------------------------------------------------
(* Application threads.                                                     *)

\* Mutant: the wait fails and the call returns empty-handed.
Wait_fails(t) ==
    /\ rm_cond_' = rm_cond_ \cup {t}
    /\ UNCHANGED <<recv_queue_, pc, got>>

\* The thread gives read_msg_mutex_ up and waits.
Wait(t) ==
    /\ rm_cond_' = rm_cond_ \cup {t}
    /\ pc' = [pc EXCEPT ![t] = "waiting"]
    /\ UNCHANGED <<recv_queue_, got>>

\* Mutant: the queue is copied out and not emptied.
Swap_copy(t) ==
    /\ got' = [got EXCEPT ![t] = @ \o recv_queue_]
    /\ pc' = [pc EXCEPT ![t] = "idle"]
    /\ UNCHANGED <<recv_queue_, rm_cond_>>

\* q.swap(recv_queue_), and the call returns.
Swap(t) ==
    /\ got' = [got EXCEPT ![t] = @ \o recv_queue_]
    /\ recv_queue_' = <<>>
    /\ pc' = [pc EXCEPT ![t] = "idle"]
    /\ UNCHANGED rm_cond_

\* A call up to its first wait.  FetchRecvQueue waits whether or not there are messages.
Fetch(t, c) ==
    /\ pc[t] = "idle"
    /\ call' = [call EXCEPT ![t] = c]
    /\ IF c = "FetchRecvQueue" \/ recv_queue_ = <<>> THEN Wait(t) ELSE Swap(t)
    /\ UNCHANGED posted

\* Mutant: FetchRecvQueue waits without a timeout.
Timeout_timedOnly(t) ==
    /\ t \in rm_cond_
    /\ call[t] = "timed"
    /\ rm_cond_' = rm_cond_ \ {t}
    /\ UNCHANGED <<recv_queue_, posted, pc, call, got>>

\* The wait of a timed call is over (FetchRecvQueue waits 10 ms).
Timeout(t) ==
    /\ t \in rm_cond_
    /\ call[t] # "wait"
    /\ rm_cond_' = rm_cond_ \ {t}
    /\ UNCHANGED <<recv_queue_, posted, pc, call, got>>

\* A condition variable may wake a thread for no reason.
Spurious(t) ==
    /\ t \in rm_cond_
    /\ rm_cond_' = rm_cond_ \ {t}
    /\ UNCHANGED <<recv_queue_, posted, pc, call, got>>

\* Mutant: the loop around rm_cond_.Wait() is a mere test.
Return_if(t) ==
    /\ pc[t] = "waiting" /\ t \notin rm_cond_
    /\ Swap(t)
    /\ UNCHANGED <<posted, call>>

\* A thread woken by a notification, its timeout or nothing has the mutex again.  Only the call
\* without a timeout tests the queue again and goes back to waiting.
Return(t) ==
    /\ pc[t] = "waiting" /\ t \notin rm_cond_
    /\ IF call[t] = "wait" /\ recv_queue_ = <<>> THEN Wait(t) ELSE Swap(t)
    /\ UNCHANGED <<posted, call>>

-----------------------------------------------------------------------------

FetchStep(t) == Timeout(t) \/ Return(t) \/ \E c \in Calls[t] : Fetch(t, c)

Next ==
    \/ \E n \in 0..MaxBatch : PutRecvQueue(n)
    \/ PutMessage
    \/ \E t \in Fetchers : FetchStep(t) \/ Spurious(t)

Spec == Init /\ [][Next]_vars

\* A waiting thread is woken when its timeout is over, a woken one returns or waits again, and
\* a thread that is back from a call makes the next one (the loop of Service::Run).  No
\* notification or spurious wakeup is assumed to come.
FairSpec == Spec /\ \A t \in Fetchers : WF_vars(FetchStep(t))

-----------------------------------------------------------------------------
(* Properties.                                                              *)

Msgs == 1..MaxMsgs

\* The variables keep their types; only a waiting thread is in the wait set.
TypeOK ==
    /\ recv_queue_ \in Seq(Msgs)
    /\ posted \in 0..MaxMsgs
    /\ rm_cond_ \subseteq {t \in Fetchers : pc[t] = "waiting"}
    /\ pc \in [Fetchers -> {"idle", "waiting"}]
    /\ \A t \in Fetchers : call[t] \in Calls[t]
    /\ got \in [Fetchers -> Seq(Msgs)]

Increasing(s) == \A i, j \in 1..Len(s) : i < j => s[i] < s[j]

\* Every message posted is in the queue or has been fetched by exactly one thread (a packet's
\* buffer is freed once), and every thread sees messages in the order in which they were posted:
\* the packets of a link after the message that reports it, and before the one that ends it.
FetchedOnceInOrder ==
    /\ \A t \in Fetchers : Increasing(got[t] \o recv_queue_)
    /\ \A t, u \in Fetchers : t # u => ToSet(got[t]) \cap ToSet(got[u]) = {}
    /\ (UNION {ToSet(got[t]) : t \in Fetchers}) \cup ToSet(recv_queue_) = 1..posted

\* A message that has been posted is fetched, although most messages notify nobody and a
\* notification may come when nobody waits.
PostedIsFetched ==
    \A m \in Msgs : (posted >= m) ~> (\E t \in Fetchers : m \in ToSet(got[t]))

\* "If waittime is 0, wait until a message is received" (tcp_manager.h): such a call never
\* returns empty-handed, although it may be woken for nothing, or find that another thread has
\* taken the messages it was woken for.
WaitBringsMessages ==
    [][\A t \in Fetchers :
          (call'[t] = "wait" /\ pc[t] = "waiting" /\ pc'[t] = "idle") => Len(got'[t]) > Len(got[t])]_vars
=============================================================================
