------------------------------ MODULE LinkWrite ------------------------------
(***************************************************************************)
(* The write side of the links.  Any thread hands a message to a link      *)
(* (TcpManager::SendData); it is pushed on the link's write_queue_ and the *)
(* link's key on Libuv's write_queue_, and the libuv thread is woken by an *)
(* async handle.  The libuv thread takes all queued keys at once and, for  *)
(* each, all queued messages of that link, and gives them to uv_write as   *)
(* one batch; after_write_cb frees the batch.                              *)
(*                                                                         *)
(* A link belongs to a TcpServer, whose map_mutex_ is held by everyone who *)
(* touches the link, or to a TcpClient, whose link_ pointer is read by the *)
(* senders and reset by the libuv thread with no lock.                     *)
(*                                                                         *)
(* Messages are numbered in the order in which they are handed in.         *)
(***************************************************************************)
EXTENDS Integers, Sequences, FiniteSets

CONSTANTS
    ServerLinks,    \* keys of the links of one TcpServer
    ClientLinks,    \* keys of the links of TcpClients, one each
    Senders,        \* application threads
    Libuv,          \* the libuv thread
    None,           \* nobody
    MaxMsgs,        \* bound: messages handed in
    MaxWakeups      \* bound: length of Libuv's write_queue_ for a bare WriteWakeup

Links == ServerLinks \cup ClientLinks

ASSUME WriteConstants ==
    /\ ServerLinks \cap ClientLinks = {}
    /\ Libuv \notin Senders /\ None \notin Senders /\ Libuv # None
    /\ None \notin Links
    /\ MaxMsgs \in Nat /\ MaxWakeups \in Nat

Msgs == 1..MaxMsgs

VARIABLES
    open,        \* the link is in link_map_ / link_ is set
    link_queue_, \* TcpLink::write_queue_ of each link
    write_queue_,\* Libuv::write_queue_: keys of links with something to write
    write_temp_, \* Libuv::write_temp_: the keys being handled
    async,       \* link_write_ has been signalled
    uv,          \* where the libuv thread is in LinkWriteEvent
    map_mutex_,  \* owner of the server's map_mutex_
    inflight,    \* batches given to uv_write, per link
    sent,        \* messages written to the socket, per link
    freed,       \* messages whose buffer has been freed
    dangling,    \* links a sender has used after their TcpLink was destroyed
    lost,        \* messages pushed through such a link
    pc,          \* where each sender is in SendData
    at,          \* the link each sender is sending to
    cur,         \* the message each sender holds
    next         \* number of the next message

vars == <<open, link_queue_, write_queue_, write_temp_, async, uv, map_mutex_, inflight,
          sent, freed, dangling, lost, pc, at, cur, next>>
uvVars == <<write_temp_, uv, inflight, sent>>
sendVars == <<pc, at, cur, next>>

Elems(s) == {s[i] : i \in 1..Len(s)}

Init ==
    /\ open = [l \in Links |-> TRUE]
    /\ link_queue_ = [l \in Links |-> <<>>]
    /\ write_queue_ = <<>>
    /\ write_temp_ = <<>>
    /\ async = FALSE
    /\ uv = "idle"
    /\ map_mutex_ = None
    /\ inflight = [l \in Links |-> <<>>]
    /\ sent = [l \in Links |-> <<>>]
    /\ freed = {}
    /\ dangling = {}
    /\ lost = {}
    /\ pc = [t \in Senders |-> "idle"]
    /\ at = [t \in Senders |-> None]
    /\ cur = [t \in Senders |-> 0]
    /\ next = 1

-----------------------------------------------------------------------------
(* Sender threads.                                                          *)

\* Mutant: map_mutex_ is released as soon as the link is found.
Lock_early(t) == map_mutex_ = None /\ UNCHANGED map_mutex_

\* Sender t takes map_mutex_.
Lock(t) == map_mutex_ = None /\ map_mutex_' = t

\* SendData(msg) up to finding the link.  TcpServer::SendData looks the key up under
\* map_mutex_ and keeps it; TcpClient::SendData tests link_ with no lock.  With no link the
\* message is freed.
SendData(t, l) ==
    /\ pc[t] = "idle"
    /\ next <= MaxMsgs
    /\ next' = next + 1
    /\ at' = [at EXCEPT ![t] = l]
    /\ cur' = [cur EXCEPT ![t] = next]
    /\ \/ /\ open[l]
          /\ pc' = [pc EXCEPT ![t] = "found"]
          /\ IF l \in ServerLinks THEN Lock(t) ELSE UNCHANGED map_mutex_
          /\ UNCHANGED freed
       \/ /\ ~open[l]
          /\ l \in ServerLinks => map_mutex_ = None
          /\ freed' = freed \cup {next}
          /\ UNCHANGED <<pc, map_mutex_>>
    /\ UNCHANGED <<open, link_queue_, write_queue_, async, dangling, lost, uvVars>>

\* SendMessage pushes the message on the queue of the link that was found.  If the link has
\* been destroyed since, the push goes to freed memory and the message is lost.
SendMessage(t) ==
    /\ pc[t] = "found"
    /\ \/ /\ open[at[t]]
          /\ link_queue_' = [link_queue_ EXCEPT ![at[t]] = Append(@, cur[t])]
          /\ pc' = [pc EXCEPT ![t] = "pushed"]
          /\ UNCHANGED <<map_mutex_, dangling, lost>>
       \/ /\ ~open[at[t]]
          /\ lost' = lost \cup {cur[t]}
          /\ dangling' = dangling \cup {at[t]}
          /\ pc' = [pc EXCEPT ![t] = "idle"]
          /\ map_mutex_' = IF map_mutex_ = t THEN None ELSE map_mutex_
          /\ UNCHANGED link_queue_
    /\ UNCHANGED <<open, write_queue_, async, freed, at, cur, next, uvVars>>

\* Mutant: the async handle is not signalled.
Signal_none == UNCHANGED async

\* uv_async_send(&link_write_)
Signal == async' = TRUE

\* Libuv::LinkWriteWakeup(linkid_), called by SendMessage after the push, and the end of
\* SendData.  The key is read from the link, which a client may have lost by now.
LinkWriteWakeup(t) ==
    /\ pc[t] = "pushed"
    /\ dangling' = IF open[at[t]] THEN dangling ELSE dangling \cup {at[t]}
    /\ write_queue_' = Append(write_queue_, at[t])
    /\ Signal
    /\ pc' = [pc EXCEPT ![t] = "idle"]
    /\ map_mutex_' = IF map_mutex_ = t THEN None ELSE map_mutex_
    /\ UNCHANGED <<open, link_queue_, freed, lost, at, cur, next, uvVars>>

\* TcpManager::WriteWakeup: a key is queued although nothing was pushed.
WriteWakeup(l) ==
    /\ Len(write_queue_) < MaxWakeups
    /\ write_queue_' = Append(write_queue_, l)
    /\ Signal
    /\ UNCHANGED <<open, link_queue_, map_mutex_, freed, dangling, lost, sendVars, uvVars>>

-----------------------------------------------------------------------------
(* The libuv thread.                                                        *)

\* libuv clears the pending flag of the async handle, then calls async_tcp_write_cb.
async_tcp_write_cb ==
    /\ uv = "idle"
    /\ async
    /\ async' = FALSE
    /\ uv' = "swap"
    /\ UNCHANGED <<open, link_queue_, write_queue_, write_temp_, map_mutex_, inflight, sent,
                   freed, dangling, lost, sendVars>>

\* Mutant: the keys are copied out but a key already queued for the next round is forgotten.
LinkWriteEvent_forget ==
    /\ uv = "swap"
    /\ write_temp_' = IF write_queue_ = <<>> THEN <<>> ELSE <<Head(write_queue_)>>
    /\ write_queue_' = <<>>
    /\ uv' = IF write_queue_ = <<>> THEN "idle" ELSE "next"
    /\ UNCHANGED <<open, link_queue_, async, map_mutex_, inflight, sent, freed, dangling, lost, sendVars>>

\* Libuv::LinkWriteEvent: the queued keys are swapped out under Libuv's write_mutex_.
LinkWriteEvent ==
    /\ uv = "swap"
    /\ write_temp_' = write_queue_
    /\ write_queue_' = <<>>
    /\ uv' = IF write_queue_ = <<>> THEN "idle" ELSE "next"
    /\ UNCHANGED <<open, link_queue_, async, map_mutex_, inflight, sent, freed, dangling, lost, sendVars>>

\* Mutant: the loop does not end after the last key.
NextKey_endless ==
    /\ write_temp_' = Tail(write_temp_)
    /\ uv' = "next"

\* The loop of LinkWriteEvent goes to the next key.
NextKey ==
    /\ write_temp_' = Tail(write_temp_)
    /\ uv' = IF Tail(write_temp_) = <<>> THEN "idle" ELSE "next"

\* OnWrite for the next key, up to the unlocked test in OnAsyncWrite.  The link of a server
\* is looked up, and then used, under map_mutex_.
OnWrite ==
    LET l == Head(write_temp_) IN
    /\ uv = "next"
    /\ l \in ServerLinks => map_mutex_ = None
    /\ \/ /\ open[l] /\ link_queue_[l] # <<>>
          /\ uv' = "drain"
          /\ map_mutex_' = IF l \in ServerLinks THEN Libuv ELSE map_mutex_
          /\ UNCHANGED write_temp_
       \/ /\ ~(open[l] /\ link_queue_[l] # <<>>)
          /\ NextKey
          /\ UNCHANGED map_mutex_
    /\ UNCHANGED <<open, link_queue_, write_queue_, async, inflight, sent, freed, dangling, lost, sendVars>>

\* Mutant: uv_write's failure returns without freeing the batch.
uv_write_leak(l, batch) ==
    \/ /\ inflight' = [inflight EXCEPT ![l] = Append(@, batch)]
       /\ UNCHANGED freed
    \/ UNCHANGED <<inflight, freed>>

\* Mutant: a new batch overtakes the one being written.
uv_write_overtake(l, batch) ==
    /\ inflight' = [inflight EXCEPT ![l] = <<batch>> \o @]
    /\ UNCHANGED freed

\* uv_write takes the batch; or it fails at once and the batch is freed, the link stays.
uv_write(l, batch) ==
    \/ /\ inflight' = [inflight EXCEPT ![l] = Append(@, batch)]
       /\ UNCHANGED freed
    \/ /\ freed' = freed \cup Elems(batch)
       /\ UNCHANGED inflight

\* The rest of OnAsyncWrite: the link's queue is swapped out and given to uv_write.
OnAsyncWrite ==
    LET l == Head(write_temp_) IN
    /\ uv = "drain"
    /\ link_queue_' = [link_queue_ EXCEPT ![l] = <<>>]
    /\ uv_write(l, link_queue_[l])
    /\ map_mutex_' = IF map_mutex_ = Libuv THEN None ELSE map_mutex_
    /\ NextKey
    /\ UNCHANGED <<open, write_queue_, async, sent, dangling, lost, sendVars>>

\* The link leaves link_map_ (under map_mutex_) or link_ is reset; ~TcpLink frees what its
\* queue still holds.  The messages of `extra' are freed in the same callback.
StopLink(l, extra) ==
    /\ l \in ServerLinks => map_mutex_ = None
    /\ open' = [open EXCEPT ![l] = FALSE]
    /\ link_queue_' = [link_queue_ EXCEPT ![l] = <<>>]
    /\ freed' = freed \cup Elems(link_queue_[l]) \cup extra

\* A read error, a close request or a stop of the object ends the link.
OnError(l) ==
    /\ uv = "idle"
    /\ open[l]
    /\ StopLink(l, {})
    /\ UNCHANGED <<write_queue_, async, map_mutex_, dangling, lost, sendVars, uvVars>>

\* The write requests of a stream complete in the order in which they were made.
PopBatch(l) == inflight' = [inflight EXCEPT ![l] = Tail(@)]

\* after_write_cb(status = 0): the oldest batch of an open link has reached the socket.
after_write_ok(l) ==
    /\ uv = "idle"
    /\ open[l] /\ inflight[l] # <<>>
    /\ PopBatch(l)
    /\ sent' = [sent EXCEPT ![l] = @ \o Head(inflight[l])]
    /\ freed' = freed \cup Elems(Head(inflight[l]))
    /\ UNCHANGED <<open, link_queue_, write_queue_, write_temp_, async, uv, map_mutex_, dangling, lost, sendVars>>

\* after_write_cb(status # 0): a write error stops an open link; the batches of a link already
\* stopped are cancelled one by one, and OnError finds no link.
after_write_failed(l) ==
    /\ uv = "idle"
    /\ inflight[l] # <<>>
    /\ PopBatch(l)
    /\ \/ open[l] /\ StopLink(l, Elems(Head(inflight[l])))
       \/ /\ ~open[l]
          /\ freed' = freed \cup Elems(Head(inflight[l]))
          /\ UNCHANGED <<open, link_queue_>>
    /\ UNCHANGED <<write_queue_, write_temp_, async, uv, map_mutex_, sent, dangling, lost, sendVars>>

-----------------------------------------------------------------------------

Send(t) == SendMessage(t) \/ LinkWriteWakeup(t)
Loop == async_tcp_write_cb \/ LinkWriteEvent \/ OnWrite \/ OnAsyncWrite

Next ==
    \/ \E t \in Senders, l \in Links : SendData(t, l)
    \/ \E t \in Senders : Send(t)
    \/ \E l \in Links : WriteWakeup(l)
    \/ Loop
    \/ \E l \in Links : OnError(l) \/ after_write_ok(l) \/ after_write_failed(l)

Spec == Init /\ [][Next]_vars

\* A sender inside SendData goes on, and so does the libuv thread inside its loop.  Nothing is
\* assumed about the peer: a write may never complete.
FairSpec == Spec /\ WF_vars(Loop) /\ \A t \in Senders : WF_vars(Send(t))

-----------------------------------------------------------------------------
(* Properties.                                                              *)

\* The variables keep their types.
TypeOK ==
    /\ open \in [Links -> BOOLEAN]
    /\ link_queue_ \in [Links -> Seq(Msgs)]
    /\ write_queue_ \in Seq(Links) /\ write_temp_ \in Seq(Links)
    /\ async \in BOOLEAN
    /\ uv \in {"idle", "swap", "next", "drain"}
    /\ uv \in {"next", "drain"} <=> write_temp_ # <<>>
    /\ map_mutex_ \in Senders \cup {Libuv, None}
    /\ inflight \in [Links -> Seq(Seq(Msgs))]
    /\ sent \in [Links -> Seq(Msgs)]
    /\ freed \subseteq Msgs /\ lost \subseteq Msgs /\ dangling \subseteq Links
    /\ pc \in [Senders -> {"idle", "found", "pushed"}]
    /\ at \in [Senders -> Links \cup {None}]
    /\ cur \in [Senders -> 0..MaxMsgs]
    /\ next \in 1..(MaxMsgs + 1)

\* Sender t has pushed to l and not queued its key yet.
Pushing(t, l) == pc[t] = "pushed" /\ at[t] = l

\* No wakeup is lost: if a link holds messages, its key is in one of Libuv's queues or its
\* sender is about to put it there; and if keys are queued, the async handle is signalled or
\* its callback is about to take them.
NoLostWakeup ==
    /\ \A l \in Links : link_queue_[l] # <<>> =>
          \/ l \in Elems(write_queue_)
          \/ l \in Elems(write_temp_)
          \/ \E t \in Senders : Pushing(t, l)
    /\ write_queue_ # <<>> => async \/ uv = "swap"

\* Where a message's buffer is referenced from.
Held(m) == {t \in Senders : pc[t] = "found" /\ cur[t] = m}
Queued(m) == {l \in Links : m \in Elems(link_queue_[l])}
Flying(m) == {l \in Links : \E i \in 1..Len(inflight[l]) : m \in Elems(inflight[l][i])}

\* Every message handed in has exactly one owner: a sender, one link's queue, one batch of
\* uv_write, or it has been freed.  (Two owners would free it twice, none would leak it.)
OneOwner ==
    \A m \in 1..(next - 1) :
        Cardinality(Held(m)) + Cardinality(Queued(m)) + Cardinality(Flying(m))
            + (IF m \in freed THEN 1 ELSE 0) + (IF m \in lost THEN 1 ELSE 0) = 1

\* What SendMessage saved (tcp_link.cpp: "save succeeded, clear is enough") stays owned by the
\* write path: it is never pushed on a link that has been destroyed.
SavedIsOwned == lost = {}

\* map_mutex_ keeps a server's link alive while a sender uses it: no sender ever touches a
\* destroyed link of a server.
ServerLinksAlive == dangling \cap ServerLinks = {}

\* A thread that has found a server's link, and the libuv thread that drains one, hold
\* map_mutex_, and the link found is still there; a link that is gone has an empty queue.
LockInv ==
    /\ \A t \in Senders : pc[t] # "idle" =>
          /\ at[t] \in Links /\ cur[t] \in Msgs
          /\ at[t] \in ServerLinks => map_mutex_ = t /\ open[at[t]]
    /\ (uv = "drain" /\ Head(write_temp_) \in ServerLinks) => map_mutex_ = Libuv
    /\ \A l \in Links : ~open[l] => link_queue_[l] = <<>>

\* The inductive invariant of the write side.
WriteInv == TypeOK /\ LockInv /\ NoLostWakeup /\ ServerLinksAlive

InOrder(s) == \A i, j \in 1..Len(s) : i < j => s[i] < s[j]
Older(s, t) == \A m \in Elems(s), n \in Elems(t) : m < n

\* The messages written s, then the batches b, then the queue q are in order.
PiecesInOrder(s, b, q) ==
    /\ InOrder(s) /\ InOrder(q) /\ Older(s, q)
    /\ \A i \in 1..Len(b) :
          /\ InOrder(b[i])
          /\ Older(s, b[i]) /\ Older(b[i], q)
          /\ \A j \in 1..Len(b) : i < j => Older(b[i], b[j])

\* Per link, the messages written, then the batches given to uv_write, then those queued are in
\* the order in which SendMessage pushed them, whatever threads pushed them.
FifoPerLink == \A l \in ServerLinks : PiecesInOrder(sent[l], inflight[l], link_queue_[l])

\* A message pushed on a link is given to uv_write or freed, whatever wakeups are merged.
PushedIsWritten ==
    \A m \in Msgs, l \in Links :
        (m \in Elems(link_queue_[l])) ~> (Flying(m) # {} \/ m \in freed)

\* No buffer is freed twice or leaked, and no sender uses a destroyed link of a server, while
\* links fail and writes complete or fail around them.
MemorySafe == OneOwner /\ ServerLinksAlive
=============================================================================
