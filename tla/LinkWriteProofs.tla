--------------------------- MODULE LinkWriteProofs ---------------------------
(***************************************************************************)
(* The write side loses no wakeup and never touches a destroyed link of a  *)
(* server, for any number of links, sender threads and messages.  The      *)
(* argument is the inductive invariant WriteInv: besides the two           *)
(* properties it says who holds map_mutex_ (LockInv) and that a link that  *)
(* is gone has nothing queued, which is why skipping its key is safe.      *)
(***************************************************************************)
EXTENDS LinkWrite, FiniteSetTheorems, TLAPS

-----------------------------------------------------------------------------
(* Sequences.                                                               *)

\* What push_back adds to the elements of a queue.
LEMMA ElemsAppend ==
    ASSUME NEW S, NEW s \in Seq(S), NEW x \in S
    PROVE  Elems(Append(s, x)) = Elems(s) \cup {x}
<1> DEFINE a == Append(s, x)
<1>1. a \in Seq(S) /\ Len(a) = Len(s) + 1 /\ a[Len(s) + 1] = x
  OBVIOUS
<1>2. \A i \in 1..Len(s) : a[i] = s[i]
  OBVIOUS
<1>3. Len(s) \in Nat
  OBVIOUS
<1> HIDE DEF a
<1>4. 1..Len(a) = (1..Len(s)) \cup {Len(s) + 1}
  BY <1>1, <1>3
<1>5. Elems(a) = Elems(s) \cup {x}
  BY <1>1, <1>2, <1>4 DEF Elems
<1> QED BY <1>5 DEF a

\* Going past the first key of write_temp_ forgets that key and no other.
LEMMA ElemsTail ==
    ASSUME NEW S, NEW s \in Seq(S), s # <<>>
    PROVE  /\ Tail(s) \in Seq(S) /\ Head(s) \in S
           /\ \A x \in Elems(s) : x = Head(s) \/ x \in Elems(Tail(s))
<1>1. Tail(s) \in Seq(S) /\ Head(s) \in S /\ Len(s) \in Nat /\ Len(s) > 0
  OBVIOUS
<1>2. Len(Tail(s)) = Len(s) - 1 /\ Head(s) = s[1]
  OBVIOUS
<1>3. \A i \in 1..(Len(s) - 1) : Tail(s)[i] = s[i + 1]
  OBVIOUS
<1>4. ASSUME NEW i \in 1..Len(s), i # 1
      PROVE  s[i] \in Elems(Tail(s))
  <2>1. i - 1 \in 1..Len(Tail(s)) /\ Tail(s)[i - 1] = s[i]
    BY <1>1, <1>2, <1>3, <1>4
  <2> QED BY <2>1 DEF Elems
<1> QED BY <1>1, <1>2, <1>4 DEF Elems

\* The elements of a queue of messages are messages.
LEMMA ElemsType ==
    ASSUME NEW S, NEW s \in Seq(S)
    PROVE  Elems(s) \subseteq S
BY DEF Elems

-----------------------------------------------------------------------------
(* Init.                                                                    *)

LEMMA WriteInit == Init => WriteInv
<1> SUFFICES ASSUME Init PROVE WriteInv
  OBVIOUS
<1>1. TypeOK
  <2>1. MaxMsgs \in Nat
    BY WriteConstants
  <2>2. 1 \in 1..(MaxMsgs + 1) /\ 0 \in 0..MaxMsgs
    BY <2>1
  <2>3. /\ <<>> \in Seq(Msgs) /\ <<>> \in Seq(Seq(Msgs)) /\ <<>> \in Seq(Links)
        /\ write_temp_ = <<>> /\ uv = "idle"
    BY DEF Init
  <2> QED BY <2>2, <2>3 DEF Init, TypeOK
<1>2. LockInv
  BY DEF Init, LockInv
<1>3. NoLostWakeup
  BY DEF Init, NoLostWakeup
<1>4. ServerLinksAlive
  BY DEF Init, ServerLinksAlive
<1> QED BY <1>1, <1>2, <1>3, <1>4 DEF WriteInv

-----------------------------------------------------------------------------
(* Steps.                                                                   *)

\* The mutex facts the steps need, from the assumptions on the constants.
LEMMA Distinct == Libuv \notin Senders /\ None \notin Senders /\ Libuv # None /\ MaxMsgs \in Nat
BY WriteConstants

\* The head of a nonempty write_temp_ is a link.
LEMMA HeadLink == TypeOK /\ uv \in {"next", "drain"} => Head(write_temp_) \in Links /\ write_temp_ # <<>>
BY ElemsTail DEF TypeOK

\* Every step keeps the types.
LEMMA TypeStep == WriteInv /\ [Next]_vars => TypeOK'
<1> SUFFICES ASSUME WriteInv, [Next]_vars PROVE TypeOK'
  OBVIOUS
<1> USE DEF WriteInv
<1>1. CASE UNCHANGED vars
  BY <1>1 DEF vars, TypeOK
<1>2. ASSUME NEW t \in Senders, NEW l \in Links, SendData(t, l)
      PROVE  TypeOK'
  <2>1. next \in Msgs /\ next' \in 1..(MaxMsgs + 1) /\ next \in 0..MaxMsgs
    BY <1>2, Distinct DEF SendData, TypeOK, Msgs
  <2>2. freed' \subseteq Msgs /\ map_mutex_' \in Senders \cup {Libuv, None}
    BY <1>2, <2>1 DEF SendData, TypeOK, Lock
  <2> QED BY <1>2, <2>1, <2>2 DEF SendData, TypeOK, uvVars
<1>3. ASSUME NEW t \in Senders, SendMessage(t)
      PROVE  TypeOK'
  <2>1. at[t] \in Links
    BY <1>3 DEF SendMessage, LockInv
  <2>2. cur[t] \in Msgs
    BY <1>3 DEF SendMessage, LockInv
  <2>3. Append(link_queue_[at[t]], cur[t]) \in Seq(Msgs)
    BY <2>1, <2>2 DEF TypeOK
  <2>4. link_queue_' \in [Links -> Seq(Msgs)]
    BY <1>3, <2>1, <2>3 DEF SendMessage, TypeOK
  <2> QED BY <1>3, <2>1, <2>2, <2>4 DEF SendMessage, TypeOK, uvVars
<1>4. ASSUME NEW t \in Senders, LinkWriteWakeup(t)
      PROVE  TypeOK'
  <2>1. at[t] \in Links
    BY <1>4 DEF LinkWriteWakeup, LockInv
  <2> QED BY <1>4, <2>1 DEF LinkWriteWakeup, TypeOK, Signal, uvVars
<1>5. ASSUME NEW l \in Links, WriteWakeup(l)
      PROVE  TypeOK'
  BY <1>5, SMTT(30) DEF WriteWakeup, TypeOK, Signal, uvVars, sendVars
<1>6. CASE async_tcp_write_cb
  BY <1>6 DEF async_tcp_write_cb, TypeOK, sendVars
<1>7. CASE LinkWriteEvent
  BY <1>7 DEF LinkWriteEvent, TypeOK, sendVars
<1>8. CASE OnWrite
  <2>1. Tail(write_temp_) \in Seq(Links)
    BY <1>8, ElemsTail DEF OnWrite, TypeOK
  <2> QED BY <1>8, <2>1 DEF OnWrite, NextKey, TypeOK, sendVars
<1>9. CASE OnAsyncWrite
  <2>1. Tail(write_temp_) \in Seq(Links) /\ Head(write_temp_) \in Links
    BY <1>9, ElemsTail DEF OnAsyncWrite, TypeOK
  <2>2. freed' \subseteq Msgs /\ inflight' \in [Links -> Seq(Seq(Msgs))]
    <3> DEFINE l == Head(write_temp_)
    <3>1. link_queue_[l] \in Seq(Msgs) /\ Elems(link_queue_[l]) \subseteq Msgs
      BY <2>1, ElemsType DEF TypeOK
    <3>2. uv_write(l, link_queue_[l])
      BY <1>9 DEF OnAsyncWrite
    <3>3. Append(inflight[l], link_queue_[l]) \in Seq(Seq(Msgs))
      BY <2>1, <3>1 DEF TypeOK
    <3>4. l \in Links
      BY <2>1
    <3> HIDE DEF l
    <3> QED BY <3>1, <3>2, <3>3, <3>4 DEF uv_write, TypeOK
  <2>3. link_queue_' \in [Links -> Seq(Msgs)]
    BY <1>9, <2>1 DEF OnAsyncWrite, TypeOK
  <2> QED BY <1>9, <2>1, <2>2, <2>3 DEF OnAsyncWrite, NextKey, TypeOK, sendVars
<1>10. ASSUME NEW l \in Links, OnError(l)
       PROVE  TypeOK'
  <2>1. Elems(link_queue_[l]) \subseteq Msgs
    BY ElemsType DEF TypeOK
  <2> QED BY <1>10, <2>1 DEF OnError, StopLink, TypeOK, sendVars, uvVars
<1>11. ASSUME NEW l \in Links, after_write_ok(l)
       PROVE  TypeOK'
  <2>1. Head(inflight[l]) \in Seq(Msgs) /\ Tail(inflight[l]) \in Seq(Seq(Msgs))
    BY <1>11, ElemsTail DEF after_write_ok, TypeOK
  <2>2. Elems(Head(inflight[l])) \subseteq Msgs
    BY <2>1, ElemsType
  <2>3. sent[l] \o Head(inflight[l]) \in Seq(Msgs)
    BY <2>1 DEF TypeOK
  <2> QED BY <1>11, <2>1, <2>2, <2>3 DEF after_write_ok, PopBatch, TypeOK, sendVars
<1>12. ASSUME NEW l \in Links, after_write_failed(l)
       PROVE  TypeOK'
  <2>1. Head(inflight[l]) \in Seq(Msgs) /\ Tail(inflight[l]) \in Seq(Seq(Msgs))
    BY <1>12, ElemsTail DEF after_write_failed, TypeOK
  <2>2. Elems(Head(inflight[l])) \subseteq Msgs /\ Elems(link_queue_[l]) \subseteq Msgs
    BY <2>1, ElemsType DEF TypeOK
  <2>3. freed' \subseteq Msgs
    BY <1>12, <2>2 DEF after_write_failed, StopLink, TypeOK
  <2>4. open' \in [Links -> BOOLEAN] /\ link_queue_' \in [Links -> Seq(Msgs)]
    <3>1. CASE StopLink(l, Elems(Head(inflight[l])))
      BY <3>1 DEF StopLink, TypeOK
    <3>2. CASE UNCHANGED <<open, link_queue_>>
      BY <3>2 DEF TypeOK
    <3> QED BY <1>12, <3>1, <3>2 DEF after_write_failed
  <2>5. inflight' \in [Links -> Seq(Seq(Msgs))]
    BY <1>12, <2>1 DEF after_write_failed, PopBatch, TypeOK
  <2> QED BY <1>12, <2>3, <2>4, <2>5 DEF after_write_failed, TypeOK, sendVars
<1> QED BY <1>1, <1>2, <1>3, <1>4, <1>5, <1>6, <1>7, <1>8, <1>9, <1>10, <1>11, <1>12
        DEF Next, Send, Loop

\* Every step keeps the mutex discipline: map_mutex_ is taken only when it is free, and a link
\* is stopped only then, so nobody who has found the link can still be using it.
LEMMA LockStep == WriteInv /\ [Next]_vars => LockInv'
<1> SUFFICES ASSUME WriteInv, [Next]_vars PROVE LockInv'
  OBVIOUS
<1> USE Distinct DEF WriteInv
<1>0. /\ open \in [Links -> BOOLEAN] /\ link_queue_ \in [Links -> Seq(Msgs)]
      /\ pc \in [Senders -> {"idle", "found", "pushed"}]
      /\ at \in [Senders -> Links \cup {None}] /\ cur \in [Senders -> 0..MaxMsgs]
  BY DEF TypeOK
<1>1. CASE UNCHANGED vars
  BY <1>1 DEF vars, LockInv
<1>2. ASSUME NEW t \in Senders, NEW l \in Links, SendData(t, l)
      PROVE  LockInv'
  <2>1. next \in Msgs
    BY <1>2 DEF SendData, TypeOK, Msgs
  <2>2. CASE open[l] /\ pc' = [pc EXCEPT ![t] = "found"]
    <3>1. l \in ServerLinks => map_mutex_ = None /\ map_mutex_' = t
      BY <1>2, <2>2 DEF SendData, Lock
    <3>2. l \notin ServerLinks => map_mutex_' = map_mutex_
      BY <1>2, <2>2 DEF SendData, Lock
    <3> QED BY <1>0, <1>2, <2>1, <2>2, <3>1, <3>2 DEF SendData, LockInv, uvVars
  <2>3. CASE UNCHANGED <<pc, map_mutex_>>
    <3>1. pc[t] = "idle"
      BY <1>2 DEF SendData
    <3> QED BY <1>0, <1>2, <2>3, <3>1 DEF SendData, LockInv, uvVars
  <2> QED BY <1>2, <2>2, <2>3 DEF SendData
<1>3. ASSUME NEW t \in Senders, SendMessage(t)
      PROVE  LockInv'
  <2>1. at[t] \in Links
    BY <1>3 DEF SendMessage, LockInv
  <2>2. CASE open[at[t]] /\ UNCHANGED map_mutex_ /\ pc' = [pc EXCEPT ![t] = "pushed"]
            /\ link_queue_' = [link_queue_ EXCEPT ![at[t]] = Append(@, cur[t])]
    BY <1>0, <1>3, <2>1, <2>2 DEF SendMessage, LockInv, uvVars
  <2>3. CASE /\ pc' = [pc EXCEPT ![t] = "idle"] /\ UNCHANGED link_queue_
             /\ map_mutex_' = IF map_mutex_ = t THEN None ELSE map_mutex_
    BY <1>0, <1>3, <2>1, <2>3 DEF SendMessage, LockInv, uvVars
  <2> QED BY <1>3, <2>2, <2>3 DEF SendMessage
<1>4. ASSUME NEW t \in Senders, LinkWriteWakeup(t)
      PROVE  LockInv'
  BY <1>0, <1>4 DEF LinkWriteWakeup, LockInv, uvVars
<1>5. ASSUME NEW l \in Links, WriteWakeup(l)
      PROVE  LockInv'
  BY <1>5 DEF WriteWakeup, LockInv, uvVars, sendVars
<1>6. CASE async_tcp_write_cb
  BY <1>6 DEF async_tcp_write_cb, LockInv, sendVars
<1>7. CASE LinkWriteEvent
  BY <1>7 DEF LinkWriteEvent, LockInv, sendVars
<1>8. CASE OnWrite
  BY <1>0, <1>8 DEF OnWrite, NextKey, LockInv, sendVars
<1>9. CASE OnAsyncWrite
  <2>1. Head(write_temp_) \in Links
    BY <1>9, HeadLink DEF OnAsyncWrite
  <2>2. /\ link_queue_' = [link_queue_ EXCEPT ![Head(write_temp_)] = <<>>]
        /\ map_mutex_' = IF map_mutex_ = Libuv THEN None ELSE map_mutex_
        /\ UNCHANGED <<open, pc, at, cur>> /\ uv' # "drain"
    BY <1>9 DEF OnAsyncWrite, NextKey, sendVars
  <2> QED BY <1>0, <2>1, <2>2 DEF LockInv
<1>10. ASSUME NEW l \in Links, NEW extra, StopLink(l, extra),
              UNCHANGED <<map_mutex_, pc, at, cur, uv, write_temp_>>
       PROVE  LockInv'
  BY <1>0, <1>10 DEF StopLink, LockInv
<1>11. ASSUME NEW l \in Links, OnError(l)
       PROVE  LockInv'
  BY <1>10, <1>11 DEF OnError, sendVars, uvVars
<1>12. ASSUME NEW l \in Links, after_write_ok(l)
       PROVE  LockInv'
  BY <1>12 DEF after_write_ok, LockInv, sendVars
<1>13. ASSUME NEW l \in Links, after_write_failed(l)
       PROVE  LockInv'
  <2>1. UNCHANGED <<map_mutex_, pc, at, cur, uv, write_temp_>>
    BY <1>13 DEF after_write_failed, sendVars
  <2>2. CASE UNCHANGED <<open, link_queue_>>
    BY <2>1, <2>2 DEF LockInv
  <2> QED BY <1>10, <1>13, <2>1, <2>2 DEF after_write_failed
<1> QED BY <1>1, <1>2, <1>3, <1>4, <1>5, <1>6, <1>7, <1>8, <1>9, <1>11, <1>12, <1>13
        DEF Next, Send, Loop

\* No step strands a message: a key leaves Libuv's queues only when its link's queue has been
\* drained or the link is gone (and then, by LockInv, its queue is empty).
LEMMA WakeupStep == WriteInv /\ [Next]_vars => NoLostWakeup'
<1> SUFFICES ASSUME WriteInv, [Next]_vars PROVE NoLostWakeup'
  OBVIOUS
<1> USE DEF WriteInv
<1>0. /\ open \in [Links -> BOOLEAN] /\ link_queue_ \in [Links -> Seq(Msgs)]
      /\ write_queue_ \in Seq(Links) /\ write_temp_ \in Seq(Links)
      /\ pc \in [Senders -> {"idle", "found", "pushed"}]
      /\ at \in [Senders -> Links \cup {None}]
      /\ uv \in {"next", "drain"} <=> write_temp_ # <<>>
  BY DEF TypeOK
<1>1. CASE UNCHANGED vars
  BY <1>1 DEF vars, NoLostWakeup, Pushing, Elems
<1>2. ASSUME NEW t \in Senders, NEW l \in Links, SendData(t, l)
      PROVE  NoLostWakeup'
  <2>1. pc[t] = "idle" /\ \A u \in Senders \ {t} : pc'[u] = pc[u] /\ at'[u] = at[u]
    BY <1>0, <1>2 DEF SendData
  <2>2. \A u \in Senders, k \in Links : Pushing(u, k) => Pushing(u, k)'
    BY <2>1 DEF Pushing
  <2>3. UNCHANGED <<link_queue_, write_queue_, write_temp_, async, uv>>
    BY <1>2 DEF SendData, uvVars
  <2> QED BY <2>2, <2>3 DEF NoLostWakeup, Elems
<1>3. ASSUME NEW t \in Senders, SendMessage(t)
      PROVE  NoLostWakeup'
  <2>1. at[t] \in Links /\ pc[t] = "found" /\ UNCHANGED <<write_queue_, write_temp_, async, uv, at>>
    BY <1>3 DEF SendMessage, LockInv, uvVars
  <2>2. /\ pc'[t] = "pushed" \/ UNCHANGED link_queue_
        /\ \A u \in Senders \ {t} : pc'[u] = pc[u]
    BY <1>0, <1>3 DEF SendMessage
  <2>3. \A l \in Links : l # at[t] => link_queue_'[l] = link_queue_[l]
    BY <1>0, <1>3, <2>1 DEF SendMessage
  <2>4. \A u \in Senders, k \in Links : Pushing(u, k) => Pushing(u, k)'
    BY <2>1, <2>2 DEF Pushing
  <2>5. pc'[t] = "pushed" => Pushing(t, at[t])'
    BY <2>1 DEF Pushing
  <2> QED BY <2>1, <2>2, <2>3, <2>4, <2>5 DEF NoLostWakeup, Elems
<1>4. ASSUME NEW t \in Senders, LinkWriteWakeup(t)
      PROVE  NoLostWakeup'
  <2>1. at[t] \in Links /\ async' = TRUE /\ write_queue_' = Append(write_queue_, at[t])
        /\ UNCHANGED <<link_queue_, write_temp_, at>>
    BY <1>4 DEF LinkWriteWakeup, LockInv, uvVars, Signal
  <2>2. Elems(write_queue_)' = Elems(write_queue_) \cup {at[t]}
    <3>1. Elems(Append(write_queue_, at[t])) = Elems(write_queue_) \cup {at[t]}
      BY <1>0, <2>1, ElemsAppend
    <3> QED BY <2>1, <3>1 DEF Elems
  <2>3. \A u \in Senders \ {t} : pc'[u] = pc[u]
    BY <1>0, <1>4 DEF LinkWriteWakeup
  <2>4. \A u \in Senders, k \in Links : Pushing(u, k) => Pushing(u, k)' \/ k = at[t]
    BY <2>1, <2>3 DEF Pushing
  <2>5. Elems(write_temp_)' = Elems(write_temp_)
    BY <2>1 DEF Elems
  <2> QED BY <2>1, <2>2, <2>4, <2>5 DEF NoLostWakeup
<1>5. ASSUME NEW l \in Links, WriteWakeup(l)
      PROVE  NoLostWakeup'
  <2>1. async' = TRUE /\ write_queue_' = Append(write_queue_, l)
        /\ UNCHANGED <<link_queue_, write_temp_, at, pc>>
    BY <1>5 DEF WriteWakeup, uvVars, sendVars, Signal
  <2>2. Elems(write_queue_)' = Elems(write_queue_) \cup {l}
    <3>1. Elems(Append(write_queue_, l)) = Elems(write_queue_) \cup {l}
      BY <1>0, <2>1, ElemsAppend
    <3> QED BY <2>1, <3>1 DEF Elems
  <2>3. Elems(write_temp_)' = Elems(write_temp_) /\ \A u \in Senders, k \in Links : Pushing(u, k)' <=> Pushing(u, k)
    BY <2>1 DEF Elems, Pushing
  <2> QED BY <2>1, <2>2, <2>3 DEF NoLostWakeup
<1>6. CASE async_tcp_write_cb
  BY <1>6 DEF async_tcp_write_cb, NoLostWakeup, Pushing, Elems, sendVars
<1>7. CASE LinkWriteEvent
  <2>1. write_temp_ = <<>>
    BY <1>0, <1>7 DEF LinkWriteEvent
  <2>2. Elems(write_temp_) = {}
    BY <2>1 DEF Elems
  <2>3. write_queue_' = <<>> /\ Elems(write_temp_)' = Elems(write_queue_)
    BY <1>7 DEF LinkWriteEvent, Elems
  <2>4. UNCHANGED <<link_queue_, pc, at>>
    BY <1>7 DEF LinkWriteEvent, sendVars
  <2> QED BY <2>2, <2>3, <2>4 DEF NoLostWakeup, Pushing
<1>8. ASSUME write_temp_ # <<>>, write_temp_' = Tail(write_temp_),
             UNCHANGED <<write_queue_, pc, at, async>>, uv # "swap",
             link_queue_'[Head(write_temp_)] = <<>>,
             \A l \in Links : l # Head(write_temp_) => link_queue_'[l] = link_queue_[l]
      PROVE  NoLostWakeup'
  <2>1. \A x \in Elems(write_temp_) : x = Head(write_temp_) \/ x \in Elems(write_temp_)'
    <3>1. \A x \in Elems(write_temp_) : x = Head(write_temp_) \/ x \in Elems(Tail(write_temp_))
      BY <1>0, <1>8, ElemsTail
    <3> QED BY <1>8, <3>1 DEF Elems
  <2>2. Elems(write_queue_)' = Elems(write_queue_)
    BY <1>8 DEF Elems
  <2>3. \A u \in Senders, k \in Links : Pushing(u, k)' <=> Pushing(u, k)
    BY <1>8 DEF Pushing
  <2> QED BY <1>8, <2>1, <2>2, <2>3 DEF NoLostWakeup
<1>9. CASE OnWrite
  <2>0. uv = "next" /\ UNCHANGED <<link_queue_, write_queue_, async, pc, at>>
    BY <1>9 DEF OnWrite, sendVars
  <2>1. CASE uv' = "drain" /\ UNCHANGED write_temp_
    BY <2>0, <2>1 DEF NoLostWakeup, Pushing, Elems
  <2>2. CASE NextKey /\ ~(open[Head(write_temp_)] /\ link_queue_[Head(write_temp_)] # <<>>)
    <3>1. link_queue_[Head(write_temp_)] = <<>>
      BY <2>0, <2>2, HeadLink DEF LockInv
    <3> QED BY <1>0, <1>8, <2>0, <2>2, <3>1 DEF NextKey
  <2> QED BY <1>9, <2>1, <2>2 DEF OnWrite
<1>10. CASE OnAsyncWrite
  <2>1. Head(write_temp_) \in Links /\ write_temp_ # <<>>
    BY <1>10, HeadLink DEF OnAsyncWrite
  <2>2. /\ link_queue_' = [link_queue_ EXCEPT ![Head(write_temp_)] = <<>>]
        /\ write_temp_' = Tail(write_temp_) /\ uv = "drain"
        /\ UNCHANGED <<write_queue_, async, pc, at>>
    BY <1>10 DEF OnAsyncWrite, NextKey, sendVars
  <2> QED BY <1>0, <1>8, <2>1, <2>2
<1>11. ASSUME NEW l \in Links, NEW extra, StopLink(l, extra),
              UNCHANGED <<write_queue_, write_temp_, async, uv, pc, at>>
       PROVE  NoLostWakeup'
  <2>1. \A k \in Links : link_queue_'[k] # <<>> => link_queue_[k] # <<>>
    BY <1>0, <1>11 DEF StopLink
  <2>2. \A u \in Senders, k \in Links : Pushing(u, k)' <=> Pushing(u, k)
    BY <1>11 DEF Pushing
  <2>3. Elems(write_queue_)' = Elems(write_queue_) /\ Elems(write_temp_)' = Elems(write_temp_)
    BY <1>11 DEF Elems
  <2> QED BY <1>11, <2>1, <2>2, <2>3 DEF NoLostWakeup
<1>12. ASSUME NEW l \in Links, OnError(l)
       PROVE  NoLostWakeup'
  BY <1>11, <1>12 DEF OnError, sendVars, uvVars
<1>13. ASSUME NEW l \in Links, after_write_ok(l)
       PROVE  NoLostWakeup'
  BY <1>13 DEF after_write_ok, NoLostWakeup, Pushing, Elems, sendVars
<1>14. ASSUME NEW l \in Links, after_write_failed(l)
       PROVE  NoLostWakeup'
  <2>1. UNCHANGED <<write_queue_, write_temp_, async, uv, pc, at>>
    BY <1>14 DEF after_write_failed, sendVars
  <2>2. CASE UNCHANGED <<open, link_queue_>>
    BY <2>1, <2>2 DEF NoLostWakeup, Pushing, Elems
  <2> QED BY <1>11, <1>14, <2>1, <2>2 DEF after_write_failed
<1> QED BY <1>1, <1>2, <1>3, <1>4, <1>5, <1>6, <1>7, <1>9, <1>10, <1>12, <1>13, <1>14
        DEF Next, Send, Loop

\* No step makes a sender touch a destroyed link of a server: a link it has found is open.
LEMMA AliveStep == WriteInv /\ [Next]_vars => ServerLinksAlive'
<1> SUFFICES ASSUME WriteInv, [Next]_vars PROVE ServerLinksAlive'
  OBVIOUS
<1> USE DEF WriteInv, ServerLinksAlive
<1>1. ASSUME NEW t \in Senders, SendMessage(t)
      PROVE  ServerLinksAlive'
  BY <1>1 DEF SendMessage, LockInv
<1>2. ASSUME NEW t \in Senders, LinkWriteWakeup(t)
      PROVE  ServerLinksAlive'
  BY <1>2 DEF LinkWriteWakeup, LockInv
<1>3. CASE UNCHANGED dangling
  BY <1>3
<1>4. \/ UNCHANGED dangling
      \/ \E t \in Senders : SendMessage(t) \/ LinkWriteWakeup(t)
  BY DEF Next, Send, Loop, vars, SendData, WriteWakeup, async_tcp_write_cb, LinkWriteEvent,
         OnWrite, OnAsyncWrite, OnError, after_write_ok, after_write_failed
<1> QED BY <1>1, <1>2, <1>3, <1>4

-----------------------------------------------------------------------------
(* Owners.                                                                  *)

\* What a message can be: not handed in yet, or with its one owner.
Nobody(m) == Held(m) = {} /\ Queued(m) = {} /\ Flying(m) = {}
Unborn(m) == Nobody(m) /\ m \notin freed /\ m \notin lost
Gone(m) == Nobody(m) /\ (m \in freed <=> m \notin lost)
InHand(m) ==
    /\ \E t \in Senders : Held(m) = {t}
    /\ Queued(m) = {} /\ Flying(m) = {} /\ m \notin freed /\ m \notin lost
InQueue(m) ==
    /\ \E l \in Links : Queued(m) = {l}
    /\ Held(m) = {} /\ Flying(m) = {} /\ m \notin freed /\ m \notin lost
InFlight(m) ==
    /\ \E l \in Links : Flying(m) = {l}
    /\ Held(m) = {} /\ Queued(m) = {} /\ m \notin freed /\ m \notin lost
Owned(m) == InHand(m) \/ InQueue(m) \/ InFlight(m) \/ Gone(m)

\* Two batches of a link have no message in common, so that freeing one leaves the others alone.
BatchesApart ==
    \A l \in Links : \A i, j \in 1..Len(inflight[l]) :
        i # j => Elems(inflight[l][i]) \cap Elems(inflight[l][j]) = {}

\* The inductive invariant of the ownership.
OwnerInv ==
    /\ \A m \in Msgs : IF m < next THEN Owned(m) ELSE Unborn(m)
    /\ BatchesApart

LEMMA OwnerInit == Init => OwnerInv
<1> SUFFICES ASSUME Init PROVE OwnerInv
  OBVIOUS
<1>1. next = 1 /\ freed = {} /\ lost = {} /\ \A t \in Senders : pc[t] = "idle"
  BY DEF Init
<1>2. \A l \in Links : link_queue_[l] = <<>> /\ inflight[l] = <<>> /\ Len(inflight[l]) = 0
  BY DEF Init
<1>3. \A m \in Msgs : Unborn(m)
  BY <1>1, <1>2 DEF Unborn, Nobody, Held, Queued, Flying, Elems
<1>4. \A m \in Msgs : ~(m < next)
  BY <1>1 DEF Msgs
<1>5. BatchesApart
  BY <1>2 DEF BatchesApart
<1> QED BY <1>3, <1>4, <1>5 DEF OwnerInv

\* What is in a link's queue, and in which queue a message is.
LEMMA InItsQueue ==
    ASSUME NEW l \in Links, NEW m
    PROVE  m \in Elems(link_queue_[l]) <=> l \in Queued(m)
BY DEF Queued

\* A queue that is swapped out or destroyed gives its messages up and no other queue does.
LEMMA QueueCleared ==
    ASSUME TypeOK, NEW l \in Links, link_queue_' = [link_queue_ EXCEPT ![l] = <<>>], NEW m
    PROVE  Queued(m)' = Queued(m) \ {l}
<1>1. \A k \in Links : k # l => link_queue_'[k] = link_queue_[k]
  BY DEF TypeOK
<1>2. Elems(link_queue_'[l]) = {}
  BY DEF TypeOK, Elems
<1> QED BY <1>1, <1>2 DEF Queued

\* A batch given to uv_write flies with its link; its messages must not fly already.
LEMMA BatchTaken ==
    ASSUME TypeOK, BatchesApart, NEW l \in Links, NEW batch \in Seq(Msgs),
           inflight' = [inflight EXCEPT ![l] = Append(@, batch)],
           \A m \in Elems(batch) : Flying(m) = {}
    PROVE  /\ \A m \in Msgs : Flying(m)' = IF m \in Elems(batch) THEN {l} ELSE Flying(m)
           /\ BatchesApart'
<1> DEFINE f == inflight[l]
           g == Append(f, batch)
<1>1. /\ f \in Seq(Seq(Msgs)) /\ Len(f) \in Nat
      /\ inflight'[l] = g /\ \A k \in Links : k # l => inflight'[k] = inflight[k]
  BY DEF TypeOK
<1>2. Len(g) = Len(f) + 1 /\ g[Len(f) + 1] = batch
  BY <1>1
<1>3. \A i \in 1..Len(f) : g[i] = f[i]
  BY <1>1
<1> HIDE DEF g
<1>4. 1..Len(g) = (1..Len(f)) \cup {Len(f) + 1}
  BY <1>1, <1>2
<1>5. ASSUME NEW m \in Msgs
      PROVE  Flying(m)' = IF m \in Elems(batch) THEN {l} ELSE Flying(m)
  <2>1. (\E i \in 1..Len(g) : m \in Elems(g[i])) <=>
          (m \in Elems(batch) \/ \E i \in 1..Len(f) : m \in Elems(f[i]))
    BY <1>2, <1>3, <1>4
  <2>2. \A k \in Links : k \in Flying(m)' <=> \E i \in 1..Len(inflight'[k]) : m \in Elems(inflight'[k][i])
    BY DEF Flying, Elems
  <2>3. \A k \in Links : k \in Flying(m) <=> \E i \in 1..Len(inflight[k]) : m \in Elems(inflight[k][i])
    BY DEF Flying
  <2>4. l \in Flying(m)' <=> m \in Elems(batch) \/ l \in Flying(m)
    BY <1>1, <2>1, <2>2, <2>3
  <2>5. \A k \in Links \ {l} : k \in Flying(m)' <=> k \in Flying(m)
    BY <1>1, <2>2, <2>3
  <2>6. Flying(m) \subseteq Links /\ Flying(m)' \subseteq Links
    BY DEF Flying
  <2> QED BY <2>4, <2>5, <2>6
<1>6. ASSUME NEW i \in 1..Len(f)
      PROVE  Elems(batch) \cap Elems(f[i]) = {}
  <2>1. \A m \in Elems(f[i]) : l \in Flying(m)
    BY DEF Flying
  <2> QED BY <2>1
<1>7. ASSUME NEW i \in 1..Len(g), NEW j \in 1..Len(g), i # j
      PROVE  Elems(g[i]) \cap Elems(g[j]) = {}
  <2>1. CASE i \in 1..Len(f) /\ j \in 1..Len(f)
    BY <1>3, <1>7, <2>1 DEF BatchesApart
  <2>2. CASE i = Len(f) + 1 /\ j \in 1..Len(f)
    BY <1>2, <1>3, <1>6, <2>2
  <2>3. CASE i \in 1..Len(f) /\ j = Len(f) + 1
    BY <1>2, <1>3, <1>6, <2>3
  <2> QED BY <1>4, <1>7, <2>1, <2>2, <2>3
<1>8. \A k \in Links : \A i, j \in 1..Len(inflight'[k]) :
          i # j => Elems(inflight'[k][i]) \cap Elems(inflight'[k][j]) = {}
  BY <1>1, <1>7, ZenonT(60) DEF BatchesApart
<1> QED BY <1>5, <1>8 DEF BatchesApart, Elems

\* The oldest batch of a link ends its flight, and only its messages do.
LEMMA BatchDone ==
    ASSUME TypeOK, BatchesApart, NEW l \in Links, inflight[l] # <<>>, PopBatch(l)
    PROVE  /\ \A m \in Msgs :
                Flying(m)' = IF m \in Elems(Head(inflight[l])) THEN Flying(m) \ {l} ELSE Flying(m)
           /\ \A m \in Elems(Head(inflight[l])) : l \in Flying(m)
           /\ BatchesApart'
<1> DEFINE f == inflight[l]
           g == Tail(f)
<1>1. /\ f \in Seq(Seq(Msgs)) /\ Len(f) \in Nat /\ Len(f) > 0 /\ Head(f) = f[1]
      /\ inflight'[l] = g /\ \A k \in Links : k # l => inflight'[k] = inflight[k]
  BY DEF TypeOK, PopBatch
<1>2. Len(g) = Len(f) - 1 /\ \A i \in 1..(Len(f) - 1) : g[i] = f[i + 1]
  BY <1>1
<1> HIDE DEF g
<1>3. \A i, j \in 1..Len(f) : i # j => Elems(f[i]) \cap Elems(f[j]) = {}
  BY DEF BatchesApart
<1>4. 1 \in 1..Len(f) /\ \A i \in 1..Len(g) : i + 1 \in 1..Len(f) /\ i + 1 # 1 /\ g[i] = f[i + 1]
  BY <1>1, <1>2
<1>5. \A i \in 1..Len(f) : i # 1 => i - 1 \in 1..Len(g) /\ g[i - 1] = f[i]
  BY <1>1, <1>2
<1>6. ASSUME NEW m \in Msgs
      PROVE  Flying(m)' = IF m \in Elems(Head(f)) THEN Flying(m) \ {l} ELSE Flying(m)
  <2>1. (\E i \in 1..Len(g) : m \in Elems(g[i])) <=>
          (m \notin Elems(f[1]) /\ \E i \in 1..Len(f) : m \in Elems(f[i]))
    <3>1. ASSUME NEW i \in 1..Len(g), m \in Elems(g[i])
          PROVE  m \notin Elems(f[1]) /\ \E j \in 1..Len(f) : m \in Elems(f[j])
      <4>1. m \in Elems(f[i + 1]) /\ i + 1 \in 1..Len(f)
        BY <1>4, <3>1
      <4>2. Elems(f[i + 1]) \cap Elems(f[1]) = {}
        BY <1>3, <1>4
      <4> QED BY <4>1, <4>2
    <3>2. ASSUME NEW i \in 1..Len(f), m \in Elems(f[i]), m \notin Elems(f[1])
          PROVE  \E j \in 1..Len(g) : m \in Elems(g[j])
      <4>1. i # 1
        BY <3>2
      <4>2. i - 1 \in 1..Len(g) /\ g[i - 1] = f[i]
        BY <1>5, <4>1
      <4> QED BY <3>2, <4>2
    <3> QED BY <3>1, <3>2
  <2>2. \A k \in Links : k \in Flying(m)' <=> \E i \in 1..Len(inflight'[k]) : m \in Elems(inflight'[k][i])
    BY DEF Flying, Elems
  <2>3. \A k \in Links : k \in Flying(m) <=> \E i \in 1..Len(inflight[k]) : m \in Elems(inflight[k][i])
    BY DEF Flying
  <2>4. l \in Flying(m)' <=> m \notin Elems(Head(f)) /\ l \in Flying(m)
    BY <1>1, <2>1, <2>2, <2>3
  <2>5. \A k \in Links \ {l} : k \in Flying(m)' <=> k \in Flying(m)
    BY <1>1, <2>2, <2>3
  <2>6. Flying(m) \subseteq Links /\ Flying(m)' \subseteq Links
    BY DEF Flying
  <2>7. CASE m \in Elems(Head(f))
    BY <2>4, <2>5, <2>6, <2>7
  <2>8. CASE m \notin Elems(Head(f))
    <3>1. \A k \in Links : k \in Flying(m)' <=> k \in Flying(m)
      BY <2>4, <2>5, <2>8
    <3> QED BY <2>6, <2>8, <3>1
  <2> QED BY <2>7, <2>8
<1>7. \A m \in Elems(Head(f)) : l \in Flying(m)
  BY <1>1, <1>4 DEF Flying
<1>8. ASSUME NEW i \in 1..Len(g), NEW j \in 1..Len(g), i # j
      PROVE  Elems(g[i]) \cap Elems(g[j]) = {}
  <2>1. i + 1 \in 1..Len(f) /\ j + 1 \in 1..Len(f) /\ i + 1 # j + 1
    BY <1>1, <1>4, <1>8
  <2> QED BY <1>3, <1>4, <2>1
<1>9. \A k \in Links : \A i, j \in 1..Len(inflight'[k]) :
          i # j => Elems(inflight'[k][i]) \cap Elems(inflight'[k][j]) = {}
  BY <1>1, <1>8 DEF BatchesApart
<1> QED BY <1>6, <1>7, <1>9 DEF BatchesApart, Elems

\* Nothing happens to the batches.
LEMMA ApartStays ==
    ASSUME BatchesApart, UNCHANGED inflight
    PROVE  BatchesApart'
BY DEF BatchesApart

\* A message stays as it is when none of its possible owners changes.
LEMMA OwnerStays ==
    ASSUME NEW m \in Msgs, UNCHANGED <<Held(m), Queued(m), Flying(m)>>,
           m \in freed' <=> m \in freed, m \in lost' <=> m \in lost
    PROVE  (Owned(m) => Owned(m)') /\ (Unborn(m) => Unborn(m)')
BY DEF Owned, Unborn, Nobody, Gone, InHand, InQueue, InFlight

\* Steps of neither the senders' messages nor the queues change no owner.
LEMMA OwnersStay ==
    ASSUME OwnerInv,
           UNCHANGED <<link_queue_, inflight, freed, lost, next>>,
           \A m \in Msgs : Held(m)' = Held(m)
    PROVE  OwnerInv'
<1>1. \A m \in Msgs : UNCHANGED <<Queued(m), Flying(m)>>
  BY DEF Queued, Flying, Elems
<1>2. BatchesApart'
  BY ApartStays DEF OwnerInv
<1>3. \A m \in Msgs : (Owned(m) => Owned(m)') /\ (Unborn(m) => Unborn(m)')
  BY <1>1, OwnerStays
<1> QED BY <1>2, <1>3 DEF OwnerInv

\* A link's queue is emptied into freed, with a batch of the link or without.
LEMMA FreedOnce ==
    ASSUME TypeOK, OwnerInv, NEW l \in Links, NEW X \in SUBSET Msgs,
           freed' = freed \cup X, UNCHANGED <<lost, next, pc, cur>>, BatchesApart',
           \A m \in Msgs : /\ Queued(m)' = IF m \in X THEN Queued(m) \ {l} ELSE Queued(m)
                           /\ Flying(m)' = IF m \in X THEN Flying(m) \ {l} ELSE Flying(m),
           \A m \in X : l \in Queued(m) \/ l \in Flying(m)
    PROVE  OwnerInv'
<1>1. \A m \in Msgs : Held(m)' = Held(m)
  BY DEF Held
<1>2. ASSUME NEW m \in X
      PROVE  m < next /\ Owned(m)'
  <2>1. m < next /\ (InQueue(m) \/ InFlight(m))
    BY <1>2 DEF OwnerInv, Unborn, Nobody, Owned, InHand, Gone
  <2>2. Nobody(m)' /\ m \in freed' /\ m \notin lost'
    BY <1>1, <2>1 DEF InQueue, InFlight, Nobody
  <2> QED BY <2>1, <2>2 DEF Owned, Gone
<1>3. \A m \in Msgs \ X : (Owned(m) => Owned(m)') /\ (Unborn(m) => Unborn(m)')
  BY <1>1, OwnerStays
<1> QED BY <1>2, <1>3 DEF OwnerInv

LEMMA OwnerStep == WriteInv /\ OwnerInv /\ [Next]_vars => OwnerInv'
<1> SUFFICES ASSUME WriteInv, OwnerInv, [Next]_vars PROVE OwnerInv'
  OBVIOUS
<1>0. /\ TypeOK /\ LockInv /\ BatchesApart
      /\ pc \in [Senders -> {"idle", "found", "pushed"}] /\ cur \in [Senders -> 0..MaxMsgs]
      /\ link_queue_ \in [Links -> Seq(Msgs)] /\ inflight \in [Links -> Seq(Seq(Msgs))]
      /\ next \in 1..(MaxMsgs + 1)
  BY DEF WriteInv, TypeOK, OwnerInv
<1>1. CASE UNCHANGED vars
  <2>1. \A m \in Msgs : Held(m)' = Held(m)
    BY <1>1 DEF vars, Held
  <2> QED BY <1>1, <2>1, OwnersStay DEF vars
<1>2. ASSUME NEW t \in Senders, NEW l \in Links, SendData(t, l)
      PROVE  OwnerInv'
  <2>1. /\ next \in Msgs /\ next' = next + 1 /\ pc[t] = "idle" /\ cur' = [cur EXCEPT ![t] = next]
        /\ UNCHANGED <<link_queue_, inflight, lost>>
    BY <1>0, <1>2, Distinct DEF SendData, Msgs, uvVars
  <2>2. \A m \in Msgs : UNCHANGED <<Queued(m), Flying(m)>>
    BY <2>1 DEF Queued, Flying, Elems
  <2>3. BatchesApart'
    BY <1>0, <2>1, ApartStays
  <2> PICK n \in Msgs : n = next
    BY <2>1
  <2>4. Unborn(n)
    BY <1>0, <2>1 DEF OwnerInv
  <2>5. /\ \A u \in Senders \ {t} : pc'[u] = pc[u] /\ cur'[u] = cur[u]
        /\ cur'[t] = n
    BY <1>0, <1>2, <2>1 DEF SendData
  <2>6. \A m \in Msgs : m # n => Held(m)' = Held(m)
    BY <2>1, <2>5 DEF Held
  <2>7. Owned(n)'
    <3>1. CASE pc' = [pc EXCEPT ![t] = "found"] /\ UNCHANGED freed
      <4>1. Held(n)' = {t}
        BY <1>0, <2>4, <2>5, <3>1 DEF Unborn, Nobody, Held
      <4> QED BY <2>1, <2>2, <2>4, <3>1, <4>1 DEF Unborn, Nobody, Owned, InHand
    <3>2. CASE freed' = freed \cup {n} /\ UNCHANGED pc
      <4>1. Held(n)' = {}
        BY <2>1, <2>4, <2>5, <3>2 DEF Unborn, Nobody, Held
      <4> QED BY <2>1, <2>2, <2>4, <3>2, <4>1 DEF Unborn, Nobody, Owned, Gone
    <3> QED BY <1>2, <3>1, <3>2 DEF SendData
  <2>8. \A m \in Msgs : m # n => (m \in freed' <=> m \in freed)
    BY <1>2 DEF SendData
  <2>9. \A m \in Msgs : m # n => (Owned(m) => Owned(m)') /\ (Unborn(m) => Unborn(m)')
    BY <2>1, <2>2, <2>6, <2>8, OwnerStays
  <2>10. \A m \in Msgs : m # n => (m < next' <=> m < next)
    BY <1>0, <2>1, Distinct DEF Msgs
  <2>11. n < next'
    BY <1>0, <2>1
  <2>12. \A m \in Msgs : IF m < next' THEN Owned(m)' ELSE Unborn(m)'
    BY <2>7, <2>9, <2>10, <2>11 DEF OwnerInv
  <2> QED BY <2>3, <2>12 DEF OwnerInv
<1>3. ASSUME NEW t \in Senders, SendMessage(t)
      PROVE  OwnerInv'
  <2> DEFINE c == cur[t]
  <2>1. /\ at[t] \in Links /\ c \in Msgs /\ pc[t] = "found" /\ UNCHANGED <<inflight, freed, next, cur>>
    BY <1>0, <1>3 DEF SendMessage, LockInv, uvVars
  <2>2. t \in Held(c)
    BY <2>1 DEF Held
  <2>3. c < next /\ InHand(c) /\ Held(c) = {t}
    BY <2>1, <2>2 DEF OwnerInv, Unborn, Nobody, Owned, InHand, InQueue, InFlight, Gone
  <2>4. pc'[t] # "found" /\ \A u \in Senders \ {t} : pc'[u] = pc[u]
    BY <1>0, <1>3 DEF SendMessage
  <2>5. Held(c)' = {} /\ \A m \in Msgs : m # c => Held(m)' = Held(m)
    BY <2>1, <2>3, <2>4 DEF Held
  <2>6. \A m \in Msgs : Flying(m)' = Flying(m)
    BY <2>1 DEF Flying, Elems
  <2>7. BatchesApart'
    BY <1>0, <2>1, ApartStays
  <2>8. CASE link_queue_' = [link_queue_ EXCEPT ![at[t]] = Append(@, c)] /\ UNCHANGED lost
    <3>1. Elems(link_queue_'[at[t]]) = Elems(link_queue_[at[t]]) \cup {c}
      BY <1>0, <2>1, <2>8, ElemsAppend
    <3>2. \A k \in Links : k # at[t] => link_queue_'[k] = link_queue_[k]
      BY <1>0, <2>8
    <3>3. Queued(c)' = {at[t]}
      BY <2>1, <2>3, <3>1, <3>2 DEF Queued, InHand
    <3>4. \A m \in Msgs : m # c => Queued(m)' = Queued(m)
      BY <2>1, <3>1, <3>2 DEF Queued
    <3>5. Owned(c)'
      BY <2>1, <2>3, <2>5, <2>6, <2>8, <3>3 DEF Owned, InHand, InQueue
    <3>6. \A m \in Msgs : m # c => (Owned(m) => Owned(m)') /\ (Unborn(m) => Unborn(m)')
      BY <2>1, <2>5, <2>6, <2>8, <3>4, OwnerStays
    <3> QED BY <2>1, <2>3, <2>7, <3>5, <3>6 DEF OwnerInv
  <2>9. CASE lost' = lost \cup {c} /\ UNCHANGED link_queue_
    <3>1. \A m \in Msgs : Queued(m)' = Queued(m)
      BY <2>9 DEF Queued, Elems
    <3>2. Owned(c)'
      BY <2>1, <2>3, <2>5, <2>6, <2>9, <3>1 DEF Owned, InHand, Gone, Nobody
    <3>3. \A m \in Msgs : m # c => (Owned(m) => Owned(m)') /\ (Unborn(m) => Unborn(m)')
      BY <2>1, <2>5, <2>6, <2>9, <3>1, OwnerStays
    <3> QED BY <2>1, <2>3, <2>7, <3>2, <3>3 DEF OwnerInv
  <2> QED BY <1>3, <2>8, <2>9 DEF SendMessage
<1>4. ASSUME NEW t \in Senders, LinkWriteWakeup(t)
      PROVE  OwnerInv'
  <2>1. /\ pc[t] = "pushed" /\ pc' = [pc EXCEPT ![t] = "idle"]
        /\ UNCHANGED <<link_queue_, inflight, freed, lost, next, cur>>
    BY <1>4 DEF LinkWriteWakeup, uvVars
  <2>2. \A m \in Msgs : Held(m)' = Held(m)
    BY <1>0, <2>1 DEF Held
  <2> QED BY <2>1, <2>2, OwnersStay
<1>5. ASSUME UNCHANGED <<link_queue_, inflight, freed, lost, next, pc, cur>>
      PROVE  OwnerInv'
  <2>1. \A m \in Msgs : Held(m)' = Held(m)
    BY <1>5 DEF Held
  <2> QED BY <1>5, <2>1, OwnersStay
<1>6. CASE OnAsyncWrite
  <2> DEFINE l == Head(write_temp_)
             batch == link_queue_[l]
  <2>1. l \in Links /\ batch \in Seq(Msgs)
    BY <1>0, <1>6, HeadLink DEF OnAsyncWrite
  <2>2. /\ link_queue_' = [link_queue_ EXCEPT ![l] = <<>>] /\ uv_write(l, batch)
        /\ UNCHANGED <<lost, next, pc, cur>>
    BY <1>6 DEF OnAsyncWrite, sendVars
  <2> HIDE DEF l
  <2>3. Elems(batch) \subseteq Msgs
    BY <2>1, ElemsType
  <2>4. \A m \in Msgs : Queued(m)' = Queued(m) \ {l} /\ (m \in Elems(batch) <=> l \in Queued(m))
    BY <1>0, <2>1, <2>2, QueueCleared, InItsQueue
  <2>5. \A m \in Msgs : Queued(m)' = IF m \in Elems(batch) THEN Queued(m) \ {l} ELSE Queued(m)
    BY <2>4
  <2>6. CASE freed' = freed \cup Elems(batch) /\ UNCHANGED inflight
    <3>1. \A m \in Elems(batch) : Flying(m) = {}
      BY <2>3, <2>4 DEF OwnerInv, Owned, Unborn, Nobody, Gone, InHand, InQueue, InFlight
    <3>2. \A m \in Msgs : Flying(m)' = Flying(m)
      BY <2>6 DEF Flying, Elems
    <3>3. \A m \in Msgs : Flying(m)' = IF m \in Elems(batch) THEN Flying(m) \ {l} ELSE Flying(m)
      BY <3>1, <3>2
    <3>4. BatchesApart'
      BY <1>0, <2>6, ApartStays
    <3>5. \A m \in Elems(batch) : l \in Queued(m)
      BY <2>3, <2>4
    <3> QED BY <1>0, <2>1, <2>2, <2>3, <2>5, <2>6, <3>3, <3>4, <3>5, FreedOnce
  <2>7. CASE inflight' = [inflight EXCEPT ![l] = Append(@, batch)] /\ UNCHANGED freed
    <3>1. \A m \in Elems(batch) : m < next /\ InQueue(m) /\ Queued(m) = {l}
      BY <2>3, <2>4 DEF OwnerInv, Owned, Unborn, Nobody, Gone, InHand, InQueue, InFlight
    <3>2. \A m \in Elems(batch) : Flying(m) = {}
      BY <3>1 DEF InQueue
    <3>3. /\ \A m \in Msgs : Flying(m)' = IF m \in Elems(batch) THEN {l} ELSE Flying(m)
          /\ BatchesApart'
      BY <1>0, <2>1, <2>7, <3>2, BatchTaken
    <3>4. \A m \in Msgs : Held(m)' = Held(m)
      BY <2>2 DEF Held
    <3>5. ASSUME NEW m \in Elems(batch)
          PROVE  Owned(m)'
      <4>1. Flying(m)' = {l} /\ Queued(m)' = {} /\ Held(m)' = {} /\ m \notin freed' /\ m \notin lost'
        BY <2>2, <2>3, <2>5, <2>7, <3>1, <3>3, <3>4 DEF InQueue
      <4> QED BY <2>1, <4>1 DEF Owned, InFlight
    <3>6. \A m \in Msgs \ Elems(batch) : (Owned(m) => Owned(m)') /\ (Unborn(m) => Unborn(m)')
      BY <2>2, <2>5, <2>7, <3>3, <3>4, OwnerStays
    <3> QED BY <2>2, <2>3, <3>1, <3>3, <3>5, <3>6 DEF OwnerInv
  <2> QED BY <2>2, <2>6, <2>7 DEF uv_write
<1>7. ASSUME NEW l \in Links, OnError(l)
      PROVE  OwnerInv'
  <2>1. /\ link_queue_' = [link_queue_ EXCEPT ![l] = <<>>] /\ freed' = freed \cup Elems(link_queue_[l])
        /\ UNCHANGED <<inflight, lost, next, pc, cur>>
    BY <1>7 DEF OnError, StopLink, sendVars, uvVars
  <2>2. Elems(link_queue_[l]) \subseteq Msgs
    BY <1>0, ElemsType
  <2>3. \A m \in Msgs : Queued(m)' = Queued(m) \ {l} /\ (m \in Elems(link_queue_[l]) <=> l \in Queued(m))
    BY <1>0, <2>1, QueueCleared, InItsQueue
  <2>4. \A m \in Elems(link_queue_[l]) : Flying(m) = {}
    BY <2>2, <2>3 DEF OwnerInv, Owned, Unborn, Nobody, Gone, InHand, InQueue, InFlight
  <2>5. \A m \in Msgs : Flying(m)' = Flying(m)
    BY <2>1 DEF Flying, Elems
  <2>6. BatchesApart'
    BY <1>0, <2>1, ApartStays
  <2>7. \A m \in Msgs :
          /\ Queued(m)' = IF m \in Elems(link_queue_[l]) THEN Queued(m) \ {l} ELSE Queued(m)
          /\ Flying(m)' = IF m \in Elems(link_queue_[l]) THEN Flying(m) \ {l} ELSE Flying(m)
    BY <2>3, <2>4, <2>5
  <2>8. \A m \in Elems(link_queue_[l]) : l \in Queued(m)
    BY <2>2, <2>3
  <2> QED BY <1>0, <2>1, <2>2, <2>6, <2>7, <2>8, FreedOnce
<1>8. ASSUME NEW l \in Links, after_write_ok(l) \/ after_write_failed(l)
      PROVE  OwnerInv'
  <2> DEFINE batch == Head(inflight[l])
             queue == link_queue_[l]
  <2>1. inflight[l] # <<>> /\ PopBatch(l) /\ UNCHANGED <<lost, next, pc, cur>>
    BY <1>8 DEF after_write_ok, after_write_failed, sendVars
  <2>2. batch \in Seq(Msgs) /\ Elems(batch) \subseteq Msgs /\ Elems(queue) \subseteq Msgs
    <3>1. batch \in Seq(Msgs)
      BY <1>0, <2>1, ElemsTail
    <3> QED BY <1>0, <3>1, ElemsType
  <2>3. /\ \A m \in Msgs : Flying(m)' = IF m \in Elems(batch) THEN Flying(m) \ {l} ELSE Flying(m)
        /\ \A m \in Elems(batch) : l \in Flying(m)
        /\ BatchesApart'
    BY <1>0, <2>1, BatchDone
  <2>4. \A m \in Elems(batch) : Queued(m) = {}
    BY <2>2, <2>3 DEF OwnerInv, Owned, Unborn, Nobody, Gone, InHand, InQueue, InFlight
  <2>5. CASE freed' = freed \cup Elems(batch) /\ UNCHANGED link_queue_
    <3>1. \A m \in Msgs : Queued(m)' = Queued(m)
      BY <2>5 DEF Queued, Elems
    <3>2. \A m \in Msgs :
            /\ Queued(m)' = IF m \in Elems(batch) THEN Queued(m) \ {l} ELSE Queued(m)
            /\ Flying(m)' = IF m \in Elems(batch) THEN Flying(m) \ {l} ELSE Flying(m)
      BY <2>3, <2>4, <3>1
    <3> HIDE DEF batch
    <3> QED BY <1>0, <2>1, <2>2, <2>3, <2>5, <3>2, FreedOnce
  <2>6. CASE StopLink(l, Elems(batch))
    <3> DEFINE X == Elems(queue) \cup Elems(batch)
    <3>1. link_queue_' = [link_queue_ EXCEPT ![l] = <<>>] /\ freed' = freed \cup X
      BY <2>6 DEF StopLink
    <3>2. \A m \in Msgs : Queued(m)' = Queued(m) \ {l} /\ (m \in Elems(queue) <=> l \in Queued(m))
      BY <1>0, <3>1, QueueCleared, InItsQueue
    <3>3. \A m \in Elems(queue) : Flying(m) = {}
      BY <2>2, <3>2 DEF OwnerInv, Owned, Unborn, Nobody, Gone, InHand, InQueue, InFlight
    <3>4. \A m \in Msgs :
            /\ Queued(m)' = IF m \in X THEN Queued(m) \ {l} ELSE Queued(m)
            /\ Flying(m)' = IF m \in X THEN Flying(m) \ {l} ELSE Flying(m)
      BY <2>3, <2>4, <3>2, <3>3
    <3>5. \A m \in X : l \in Queued(m) \/ l \in Flying(m)
      BY <2>2, <2>3, <3>2
    <3>6. X \in SUBSET Msgs
      BY <2>2
    <3> HIDE DEF X
    <3> QED BY <1>0, <2>1, <2>3, <3>1, <3>4, <3>5, <3>6, FreedOnce
  <2> QED BY <1>8, <2>5, <2>6 DEF after_write_ok, after_write_failed
<1>9. \/ UNCHANGED vars \/ UNCHANGED <<link_queue_, inflight, freed, lost, next, pc, cur>>
      \/ \E t \in Senders : (\E l \in Links : SendData(t, l)) \/ SendMessage(t) \/ LinkWriteWakeup(t)
      \/ OnAsyncWrite
      \/ \E l \in Links : OnError(l) \/ after_write_ok(l) \/ after_write_failed(l)
  BY DEF Next, Send, Loop, WriteWakeup, async_tcp_write_cb, LinkWriteEvent, OnWrite, sendVars, uvVars
<1> QED BY <1>1, <1>2, <1>3, <1>4, <1>5, <1>6, <1>7, <1>8, <1>9

\* An owned message is counted once.
LEMMA OwnedOnce == TypeOK /\ OwnerInv => OneOwner
<1> SUFFICES ASSUME TypeOK, OwnerInv, NEW m \in 1..(next - 1)
             PROVE  Cardinality(Held(m)) + Cardinality(Queued(m)) + Cardinality(Flying(m))
                      + (IF m \in freed THEN 1 ELSE 0) + (IF m \in lost THEN 1 ELSE 0) = 1
  BY DEF OneOwner
<1>1. m \in Msgs /\ m < next
  BY Distinct DEF TypeOK, Msgs
<1>2. Owned(m)
  BY <1>1 DEF OwnerInv
<1>3. Cardinality({}) = 0
  BY FS_EmptySet
<1>4. \A x : Cardinality({x}) = 1
  BY FS_Singleton
<1>5. CASE InHand(m)
  <2>1. Cardinality(Held(m)) = 1 /\ Cardinality(Queued(m)) = 0 /\ Cardinality(Flying(m)) = 0
    BY <1>3, <1>4, <1>5 DEF InHand
  <2>2. m \notin freed /\ m \notin lost
    BY <1>5 DEF InHand
  <2> QED BY <2>1, <2>2
<1>6. CASE InQueue(m)
  BY <1>3, <1>4, <1>6 DEF InQueue
<1>7. CASE InFlight(m)
  BY <1>3, <1>4, <1>7 DEF InFlight
<1>8. CASE Gone(m)
  BY <1>3, <1>8 DEF Gone, Nobody
<1> QED BY <1>2, <1>5, <1>6, <1>7, <1>8 DEF Owned

-----------------------------------------------------------------------------
(* Order.                                                                   *)

\* Everything the pieces of a link hold is older than message n.
PiecesUnder(s, b, q, n) ==
    /\ \A m \in Elems(s) \cup Elems(q) : m < n
    /\ \A i \in 1..Len(b) : \A m \in Elems(b[i]) : m < n

Under(l, n) == PiecesUnder(sent[l], inflight[l], link_queue_[l], n)

\* What a server's link holds is older than the message its finder is about to push, and than the
\* next one handed in.
FinderIsLast ==
    /\ \A l \in ServerLinks : Under(l, next)
    /\ \A t \in Senders : pc[t] = "found" => cur[t] < next /\ (at[t] \in ServerLinks => Under(at[t], cur[t]))

OrderInv == FifoPerLink /\ FinderIsLast

\* Appending the youngest message keeps a queue in order.
LEMMA InOrderAppend ==
    ASSUME NEW s \in Seq(Msgs), NEW m \in Msgs, InOrder(s), \A x \in Elems(s) : x < m
    PROVE  InOrder(Append(s, m))
<1> DEFINE a == Append(s, m)
<1>1. /\ Len(a) = Len(s) + 1 /\ a[Len(s) + 1] = m /\ Len(s) \in Nat
      /\ \A i \in 1..Len(s) : a[i] = s[i]
  OBVIOUS
<1>2. \A i \in 1..Len(s) : s[i] < m
  BY DEF Elems
<1> HIDE DEF a
<1>3. SUFFICES ASSUME NEW i \in 1..Len(a), NEW j \in 1..Len(a), i < j
               PROVE  a[i] < a[j]
  BY DEF InOrder, a
<1>4. CASE j = Len(s) + 1
  BY <1>1, <1>2, <1>3, <1>4
<1>5. CASE j # Len(s) + 1
  <2>1. i \in 1..Len(s) /\ j \in 1..Len(s)
    BY <1>1, <1>3, <1>5
  <2> QED BY <1>1, <1>3, <2>1 DEF InOrder
<1> QED BY <1>4, <1>5

\* What a batch adds to the messages written.
LEMMA ElemsConcat ==
    ASSUME NEW s \in Seq(Msgs), NEW t \in Seq(Msgs)
    PROVE  Elems(s \o t) = Elems(s) \cup Elems(t)
<1> DEFINE u == s \o t
<1>1. /\ Len(u) = Len(s) + Len(t) /\ Len(s) \in Nat /\ Len(t) \in Nat
      /\ \A i \in 1..(Len(s) + Len(t)) : u[i] = IF i <= Len(s) THEN s[i] ELSE t[i - Len(s)]
  OBVIOUS
<1> HIDE DEF u
<1>2. ASSUME NEW i \in 1..Len(u) PROVE u[i] \in Elems(s) \cup Elems(t)
  <2>1. CASE i <= Len(s)
    <3>1. i \in 1..Len(s) /\ u[i] = s[i]
      BY <1>1, <2>1
    <3> QED BY <3>1 DEF Elems
  <2>2. CASE ~(i <= Len(s))
    <3>1. i - Len(s) \in 1..Len(t) /\ u[i] = t[i - Len(s)]
      BY <1>1, <2>2
    <3> QED BY <3>1 DEF Elems
  <2> QED BY <2>1, <2>2
<1>3. ASSUME NEW i \in 1..Len(s) PROVE s[i] \in Elems(u)
  <2>1. i \in 1..Len(u) /\ u[i] = s[i]
    BY <1>1
  <2> QED BY <2>1 DEF Elems
<1>4. ASSUME NEW i \in 1..Len(t) PROVE t[i] \in Elems(u)
  <2>1. i + Len(s) \in 1..Len(u) /\ ~(i + Len(s) <= Len(s)) /\ (i + Len(s)) - Len(s) = i
    BY <1>1
  <2>2. u[i + Len(s)] = t[i]
    BY <1>1, <2>1
  <2> QED BY <2>1, <2>2 DEF Elems
<1>5. Elems(u) = Elems(s) \cup Elems(t)
  BY <1>2, <1>3, <1>4 DEF Elems
<1> QED BY <1>5 DEF u

\* Two sequences in order, the first older than the second, are in order together.
LEMMA InOrderConcat ==
    ASSUME NEW s \in Seq(Msgs), NEW t \in Seq(Msgs), InOrder(s), InOrder(t), Older(s, t)
    PROVE  InOrder(s \o t)
<1> DEFINE u == s \o t
<1>1. /\ Len(u) = Len(s) + Len(t) /\ Len(s) \in Nat /\ Len(t) \in Nat
      /\ \A i \in 1..(Len(s) + Len(t)) : u[i] = IF i <= Len(s) THEN s[i] ELSE t[i - Len(s)]
  OBVIOUS
<1> HIDE DEF u
<1>2. SUFFICES ASSUME NEW i \in 1..Len(u), NEW j \in 1..Len(u), i < j
               PROVE  u[i] < u[j]
  BY DEF InOrder, u
<1>3. CASE j <= Len(s)
  <2>1. i \in 1..Len(s) /\ j \in 1..Len(s) /\ u[i] = s[i] /\ u[j] = s[j]
    BY <1>1, <1>2, <1>3
  <2> QED BY <1>2, <2>1 DEF InOrder
<1>4. CASE i <= Len(s) /\ ~(j <= Len(s))
  <2>1. i \in 1..Len(s) /\ j - Len(s) \in 1..Len(t) /\ u[i] = s[i] /\ u[j] = t[j - Len(s)]
    BY <1>1, <1>2, <1>4
  <2> QED BY <2>1 DEF Older, Elems
<1>5. CASE ~(i <= Len(s))
  <2>1. /\ i - Len(s) \in 1..Len(t) /\ j - Len(s) \in 1..Len(t) /\ i - Len(s) < j - Len(s)
        /\ u[i] = t[i - Len(s)] /\ u[j] = t[j - Len(s)]
    BY <1>1, <1>2, <1>5
  <2> QED BY <2>1 DEF InOrder
<1> QED BY <1>1, <1>2, <1>3, <1>4, <1>5

LEMMA EmptyPiece == Elems(<<>>) = {} /\ InOrder(<<>>) /\ \A s : Older(s, <<>>)
<1>1. Len(<<>>) = 0
  OBVIOUS
<1>2. Elems(<<>>) = {}
  BY <1>1 DEF Elems
<1> QED BY <1>1, <1>2 DEF InOrder, Older

\* SendMessage: the youngest message goes to the end of the queue.
LEMMA PiecesPush ==
    ASSUME NEW s \in Seq(Msgs), NEW b \in Seq(Seq(Msgs)), NEW q \in Seq(Msgs), NEW m \in Msgs,
           PiecesInOrder(s, b, q), PiecesUnder(s, b, q, m)
    PROVE  /\ PiecesInOrder(s, b, Append(q, m))
           /\ \A n \in Nat : m < n /\ PiecesUnder(s, b, q, n) => PiecesUnder(s, b, Append(q, m), n)
<1> DEFINE r == Append(q, m)
<1>1. Elems(r) = Elems(q) \cup {m}
  BY ElemsAppend
<1>2. InOrder(r)
  BY InOrderAppend DEF PiecesInOrder, PiecesUnder
<1> HIDE DEF r
<1>3. PiecesInOrder(s, b, r)
  BY <1>1, <1>2 DEF PiecesInOrder, PiecesUnder, Older
<1>4. \A n \in Nat : m < n /\ PiecesUnder(s, b, q, n) => PiecesUnder(s, b, r, n)
  BY <1>1 DEF PiecesUnder
<1> QED BY <1>3, <1>4 DEF r

\* A queue is dropped.
LEMMA PiecesDrop ==
    ASSUME NEW s, NEW b, NEW q, PiecesInOrder(s, b, q)
    PROVE  /\ PiecesInOrder(s, b, <<>>)
           /\ \A n \in Nat : PiecesUnder(s, b, q, n) => PiecesUnder(s, b, <<>>, n)
<1>1. PiecesInOrder(s, b, <<>>)
  BY EmptyPiece DEF PiecesInOrder
<1>2. \A n \in Nat : PiecesUnder(s, b, q, n) => PiecesUnder(s, b, <<>>, n)
  BY EmptyPiece DEF PiecesUnder
<1> QED BY <1>1, <1>2

\* OnAsyncWrite: the queue becomes the youngest batch.
LEMMA PiecesBatch ==
    ASSUME NEW s \in Seq(Msgs), NEW b \in Seq(Seq(Msgs)), NEW q \in Seq(Msgs),
           PiecesInOrder(s, b, q)
    PROVE  /\ PiecesInOrder(s, Append(b, q), <<>>)
           /\ \A n \in Nat : PiecesUnder(s, b, q, n) => PiecesUnder(s, Append(b, q), <<>>, n)
<1> DEFINE c == Append(b, q)
<1>1. /\ Len(c) = Len(b) + 1 /\ Len(b) \in Nat /\ c[Len(b) + 1] = q
      /\ \A i \in 1..Len(b) : c[i] = b[i]
  OBVIOUS
<1> HIDE DEF c
<1>2. ASSUME NEW i \in 1..Len(c) PROVE (i \in 1..Len(b) /\ c[i] = b[i]) \/ (i = Len(b) + 1 /\ c[i] = q)
  BY <1>1
<1>3. \A i \in 1..Len(c) : InOrder(c[i]) /\ Older(s, c[i])
  BY <1>2 DEF PiecesInOrder
<1>4. ASSUME NEW i \in 1..Len(c), NEW j \in 1..Len(c), i < j PROVE Older(c[i], c[j])
  <2>1. i \in 1..Len(b) /\ c[i] = b[i]
    BY <1>1, <1>4
  <2>2. (j \in 1..Len(b) /\ c[j] = b[j]) \/ c[j] = q
    BY <1>2
  <2> QED BY <1>4, <2>1, <2>2 DEF PiecesInOrder
<1>5. PiecesInOrder(s, c, <<>>)
  BY <1>3, <1>4, EmptyPiece DEF PiecesInOrder
<1>6. \A n \in Nat : PiecesUnder(s, b, q, n) => PiecesUnder(s, c, <<>>, n)
  BY <1>2, EmptyPiece DEF PiecesUnder
<1> QED BY <1>5, <1>6 DEF c

\* after_write_cb: the oldest batch leaves; it has been written, or not.
LEMMA PiecesPop ==
    ASSUME NEW s \in Seq(Msgs), NEW b \in Seq(Seq(Msgs)), NEW q \in Seq(Msgs), b # <<>>,
           PiecesInOrder(s, b, q), NEW s2 \in {s, s \o Head(b)}
    PROVE  /\ PiecesInOrder(s2, Tail(b), q)
           /\ \A n \in Nat : PiecesUnder(s, b, q, n) => PiecesUnder(s2, Tail(b), q, n)
<1> DEFINE c == Tail(b)
           h == Head(b)
<1>1. /\ Len(b) \in Nat \ {0} /\ h = b[1] /\ h \in Seq(Msgs) /\ 1 \in 1..Len(b)
      /\ Len(c) = Len(b) - 1 /\ \A i \in 1..(Len(b) - 1) : c[i] = b[i + 1]
  OBVIOUS
<1>2. s2 = s \/ s2 = s \o h
  OBVIOUS
<1> HIDE DEF c, h
<1>3. \A i \in 1..Len(c) : i + 1 \in 1..Len(b) /\ 1 < i + 1 /\ c[i] = b[i + 1]
  BY <1>1
<1>4. InOrder(h) /\ Older(s, h) /\ Older(h, q) /\ \A i \in 1..Len(c) : Older(h, c[i])
  BY <1>1, <1>3 DEF PiecesInOrder
<1>5. Elems(s2) \subseteq Elems(s) \cup Elems(h)
  <2>1. Elems(s \o h) = Elems(s) \cup Elems(h)
    BY <1>1, ElemsConcat
  <2> QED BY <1>2, <2>1
<1>6. InOrder(s2)
  BY <1>1, <1>2, <1>4, InOrderConcat DEF PiecesInOrder
<1>7. Older(s2, q) /\ \A i \in 1..Len(c) : Older(s2, c[i])
  <2>1. Older(s, q) /\ \A i \in 1..Len(c) : Older(s, c[i])
    BY <1>3 DEF PiecesInOrder
  <2> QED BY <1>4, <1>5, <2>1 DEF Older
<1>8. \A i \in 1..Len(c) : InOrder(c[i]) /\ Older(c[i], q)
  BY <1>3 DEF PiecesInOrder
<1>9. ASSUME NEW i \in 1..Len(c), NEW j \in 1..Len(c), i < j PROVE Older(c[i], c[j])
  <2>1. i + 1 < j + 1
    BY <1>1, <1>9
  <2> QED BY <1>3, <2>1 DEF PiecesInOrder
<1>10. PiecesInOrder(s2, c, q)
  BY <1>6, <1>7, <1>8, <1>9 DEF PiecesInOrder
<1>11. ASSUME NEW n \in Nat, PiecesUnder(s, b, q, n) PROVE PiecesUnder(s2, c, q, n)
  <2>1. \A m \in Elems(s) \cup Elems(h) \cup Elems(q) : m < n
    BY <1>1, <1>11 DEF PiecesUnder
  <2>2. \A i \in 1..Len(c) : \A m \in Elems(c[i]) : m < n
    BY <1>3, <1>11 DEF PiecesUnder
  <2> QED BY <1>5, <2>1, <2>2 DEF PiecesUnder
<1> QED BY <1>10, <1>11 DEF c

LEMMA OrderInit == Init => OrderInv
<1> SUFFICES ASSUME Init PROVE OrderInv
  OBVIOUS
<1>1. Len(<<>>) = 0
  OBVIOUS
<1>2. PiecesInOrder(<<>>, <<>>, <<>>) /\ \A n \in Nat : PiecesUnder(<<>>, <<>>, <<>>, n)
  BY <1>1, EmptyPiece DEF PiecesInOrder, PiecesUnder
<1>3. \A l \in ServerLinks : sent[l] = <<>> /\ link_queue_[l] = <<>> /\ inflight[l] = <<>>
  BY DEF Init, Links
<1>4. \A l \in ServerLinks : PiecesInOrder(sent[l], inflight[l], link_queue_[l]) /\ Under(l, 1)
  BY <1>2, <1>3 DEF Under
<1> QED BY <1>4 DEF Init, OrderInv, FifoPerLink, FinderIsLast

\* A step that keeps the numbers, and after which every link is in order and holds nothing new,
\* but possibly a message the finder of the link pushed.
LEMMA OrderKept ==
    ASSUME OrderInv, LockInv, next' = next, cur' = cur, at' = at,
           cur \in [Senders -> 0..MaxMsgs], next \in 1..(MaxMsgs + 1),
           \A u \in Senders : pc'[u] = "found" => pc[u] = "found",
           \A k \in ServerLinks :
               PiecesInOrder(sent[k], inflight[k], link_queue_[k]) =>
                   PiecesInOrder(sent'[k], inflight'[k], link_queue_'[k]),
           \A k \in ServerLinks : \A n \in Nat :
               (n = next \/ \E u \in Senders : pc'[u] = "found" /\ at[u] = k /\ cur[u] = n)
                   /\ PiecesUnder(sent[k], inflight[k], link_queue_[k], n)
                   => PiecesUnder(sent'[k], inflight'[k], link_queue_'[k], n)
    PROVE  OrderInv'
<1>1. FifoPerLink'
  BY DEF OrderInv, FifoPerLink
<1>2. next \in Nat /\ \A u \in Senders : cur[u] \in Nat
  BY Distinct
<1>3. \A k \in ServerLinks : PiecesUnder(sent'[k], inflight'[k], link_queue_'[k], next')
  BY <1>2 DEF OrderInv, FinderIsLast, Under
<1>4. ASSUME NEW u \in Senders, pc'[u] = "found"
      PROVE  /\ cur'[u] < next'
             /\ at'[u] \in ServerLinks =>
                   PiecesUnder(sent'[at'[u]], inflight'[at'[u]], link_queue_'[at'[u]], cur'[u])
  <2>1. /\ cur[u] < next
        /\ at[u] \in ServerLinks => PiecesUnder(sent[at[u]], inflight[at[u]], link_queue_[at[u]], cur[u])
    BY <1>4 DEF OrderInv, FinderIsLast, Under
  <2> QED BY <1>2, <1>4, <2>1
<1> QED BY <1>1, <1>3, <1>4 DEF OrderInv, FinderIsLast, Under

\* A step of the libuv thread on link l.
LEMMA OrderOfOne ==
    ASSUME OrderInv, LockInv, NEW l \in Links,
           next' = next, pc' = pc, cur' = cur, at' = at,
           cur \in [Senders -> 0..MaxMsgs], next \in 1..(MaxMsgs + 1),
           \A k \in Links : k # l =>
               sent'[k] = sent[k] /\ inflight'[k] = inflight[k] /\ link_queue_'[k] = link_queue_[k],
           PiecesInOrder(sent[l], inflight[l], link_queue_[l]) =>
               /\ PiecesInOrder(sent'[l], inflight'[l], link_queue_'[l])
               /\ \A n \in Nat : PiecesUnder(sent[l], inflight[l], link_queue_[l], n) =>
                                     PiecesUnder(sent'[l], inflight'[l], link_queue_'[l], n)
    PROVE  OrderInv'
<1>1. \A k \in ServerLinks : PiecesInOrder(sent[k], inflight[k], link_queue_[k]) /\ k \in Links
  BY DEF OrderInv, FifoPerLink, Links
<1>2. \A k \in ServerLinks : PiecesInOrder(sent'[k], inflight'[k], link_queue_'[k])
  BY <1>1
<1>3. \A k \in ServerLinks : \A n \in Nat :
         PiecesUnder(sent[k], inflight[k], link_queue_[k], n) =>
             PiecesUnder(sent'[k], inflight'[k], link_queue_'[k], n)
  BY <1>1
<1> QED BY <1>2, <1>3, OrderKept

LEMMA OrderStep == WriteInv /\ OrderInv /\ [Next]_vars => OrderInv'
<1> SUFFICES ASSUME WriteInv, OrderInv, [Next]_vars PROVE OrderInv'
  OBVIOUS
<1>0. /\ TypeOK /\ LockInv
      /\ pc \in [Senders -> {"idle", "found", "pushed"}] /\ cur \in [Senders -> 0..MaxMsgs]
      /\ at \in [Senders -> Links \cup {None}]
      /\ link_queue_ \in [Links -> Seq(Msgs)] /\ inflight \in [Links -> Seq(Seq(Msgs))]
      /\ sent \in [Links -> Seq(Msgs)] /\ next \in 1..(MaxMsgs + 1) /\ next \in Nat
      /\ Msgs \subseteq Nat
  BY Distinct DEF WriteInv, TypeOK, Msgs
<1>1. \A l \in ServerLinks : l \in Links /\ PiecesInOrder(sent[l], inflight[l], link_queue_[l])
  BY DEF OrderInv, FifoPerLink, Links
<1>2. ASSUME NEW t \in Senders, NEW l \in Links, SendData(t, l)
      PROVE  OrderInv'
  <2>1. /\ next' = next + 1 /\ cur' = [cur EXCEPT ![t] = next] /\ at' = [at EXCEPT ![t] = l]
        /\ link_queue_' = link_queue_ /\ inflight' = inflight /\ sent' = sent
        /\ \A u \in Senders : u # t => pc'[u] = pc[u]
    BY <1>0, <1>2 DEF SendData, uvVars
  <2>2. \A k \in ServerLinks : PiecesInOrder(sent'[k], inflight'[k], link_queue_'[k])
    BY <1>1, <2>1
  <2>3. \A k \in ServerLinks : PiecesUnder(sent[k], inflight[k], link_queue_[k], next)
    BY DEF OrderInv, FinderIsLast, Under
  <2>4. \A k \in ServerLinks : PiecesUnder(sent[k], inflight[k], link_queue_[k], next + 1)
    <3> SUFFICES ASSUME NEW k \in ServerLinks
                 PROVE  PiecesUnder(sent[k], inflight[k], link_queue_[k], next + 1)
      OBVIOUS
    <3>1. sent[k] \in Seq(Msgs) /\ link_queue_[k] \in Seq(Msgs) /\ inflight[k] \in Seq(Seq(Msgs))
      BY <1>0, <1>1
    <3>2. \A i \in 1..Len(inflight[k]) : inflight[k][i] \in Seq(Msgs)
      BY <3>1
    <3>3. /\ Elems(sent[k]) \subseteq Nat /\ Elems(link_queue_[k]) \subseteq Nat
          /\ \A i \in 1..Len(inflight[k]) : Elems(inflight[k][i]) \subseteq Nat
      BY <1>0, <3>1, <3>2, ElemsType
    <3>4. \A m \in Nat : m < next => m < next + 1
      BY <1>0
    <3> QED BY <2>3, <3>3, <3>4 DEF PiecesUnder
  <2>5. ASSUME NEW u \in Senders, pc'[u] = "found"
        PROVE  /\ cur'[u] < next'
               /\ at'[u] \in ServerLinks =>
                     PiecesUnder(sent'[at'[u]], inflight'[at'[u]], link_queue_'[at'[u]], cur'[u])
    <3>1. CASE u = t
      <4>1. cur'[u] = next /\ at'[u] = l
        BY <1>0, <2>1, <3>1
      <4> QED BY <1>0, <2>1, <2>3, <4>1
    <3>2. CASE u # t
      <4>1. cur'[u] = cur[u] /\ at'[u] = at[u] /\ pc[u] = "found"
        BY <1>0, <2>1, <2>5, <3>2
      <4>2. /\ cur[u] < next /\ cur[u] \in Nat
            /\ at[u] \in ServerLinks => PiecesUnder(sent[at[u]], inflight[at[u]], link_queue_[at[u]], cur[u])
        BY <1>0, <4>1, Distinct DEF OrderInv, FinderIsLast, Under
      <4> QED BY <1>0, <2>1, <4>1, <4>2
    <3> QED BY <3>1, <3>2
  <2>6. \A k \in ServerLinks : PiecesUnder(sent'[k], inflight'[k], link_queue_'[k], next')
    BY <2>1, <2>4
  <2> QED BY <2>2, <2>5, <2>6 DEF OrderInv, FifoPerLink, FinderIsLast, Under
<1>3. ASSUME NEW t \in Senders, SendMessage(t)
      PROVE  OrderInv'
  <2>1. /\ pc[t] = "found" /\ at[t] \in Links /\ cur[t] \in Msgs /\ cur[t] < next
        /\ inflight' = inflight /\ sent' = sent /\ next' = next /\ cur' = cur /\ at' = at
        /\ pc'[t] # "found" /\ \A u \in Senders : u # t => pc'[u] = pc[u]
    BY <1>0, <1>3 DEF SendMessage, LockInv, uvVars, OrderInv, FinderIsLast
  <2>2. CASE link_queue_' = link_queue_
    BY <1>0, <2>1, <2>2, OrderKept
  <2>3. CASE link_queue_' = [link_queue_ EXCEPT ![at[t]] = Append(@, cur[t])]
    <3>1. /\ link_queue_'[at[t]] = Append(link_queue_[at[t]], cur[t])
          /\ \A k \in Links : k # at[t] => link_queue_'[k] = link_queue_[k]
      BY <1>0, <2>1, <2>3
    <3>2. at[t] \in ServerLinks =>
             PiecesUnder(sent[at[t]], inflight[at[t]], link_queue_[at[t]], cur[t])
      BY <2>1 DEF OrderInv, FinderIsLast, Under
    <3>3. at[t] \in ServerLinks =>
             /\ PiecesInOrder(sent[at[t]], inflight[at[t]], link_queue_'[at[t]])
             /\ \A n \in Nat : cur[t] < n /\ PiecesUnder(sent[at[t]], inflight[at[t]], link_queue_[at[t]], n)
                                  => PiecesUnder(sent[at[t]], inflight[at[t]], link_queue_'[at[t]], n)
      BY <1>0, <1>1, <2>1, <3>1, <3>2, PiecesPush
    <3>4. \A k \in ServerLinks : PiecesInOrder(sent'[k], inflight'[k], link_queue_'[k])
      BY <1>1, <2>1, <3>1, <3>3
    <3>5. ASSUME NEW u \in Senders, pc'[u] = "found", at[u] \in ServerLinks PROVE at[u] # at[t]
      BY <1>0, <2>1, <3>5 DEF LockInv
    <3>6. ASSUME NEW k \in ServerLinks, NEW n \in Nat,
                 n = next \/ \E u \in Senders : pc'[u] = "found" /\ at[u] = k /\ cur[u] = n,
                 PiecesUnder(sent[k], inflight[k], link_queue_[k], n)
          PROVE  PiecesUnder(sent'[k], inflight'[k], link_queue_'[k], n)
      <4>1. CASE k = at[t]
        BY <2>1, <3>3, <3>5, <3>6, <4>1
      <4>2. CASE k # at[t]
        BY <1>1, <2>1, <3>1, <3>6, <4>2
      <4> QED BY <4>1, <4>2
    <3>7. \A u \in Senders : pc'[u] = "found" => pc[u] = "found"
      BY <2>1
    <3> QED BY <1>0, <2>1, <3>4, <3>6, <3>7, OrderKept
  <2> QED BY <1>3, <2>2, <2>3 DEF SendMessage
<1>4. CASE OnAsyncWrite
  <2> DEFINE l == Head(write_temp_)
  <2>1. l \in Links
    BY <1>0, <1>4, HeadLink DEF OnAsyncWrite
  <2>2. /\ link_queue_' = [link_queue_ EXCEPT ![l] = <<>>] /\ uv_write(l, link_queue_[l])
        /\ sent' = sent /\ next' = next /\ pc' = pc /\ cur' = cur /\ at' = at
    BY <1>4 DEF OnAsyncWrite, sendVars
  <2> HIDE DEF l
  <2>3. sent[l] \in Seq(Msgs) /\ inflight[l] \in Seq(Seq(Msgs)) /\ link_queue_[l] \in Seq(Msgs)
    BY <1>0, <2>1
  <2>4. CASE inflight' = inflight
    <3>1. sent'[l] = sent[l] /\ inflight'[l] = inflight[l] /\ link_queue_'[l] = <<>>
      BY <1>0, <2>1, <2>2, <2>4
    <3>2. \A k \in Links : k # l =>
             sent'[k] = sent[k] /\ inflight'[k] = inflight[k] /\ link_queue_'[k] = link_queue_[k]
      BY <1>0, <2>1, <2>2, <2>4
    <3>3. PiecesInOrder(sent[l], inflight[l], link_queue_[l]) =>
             /\ PiecesInOrder(sent'[l], inflight'[l], link_queue_'[l])
             /\ \A n \in Nat : PiecesUnder(sent[l], inflight[l], link_queue_[l], n) =>
                                   PiecesUnder(sent'[l], inflight'[l], link_queue_'[l], n)
      BY <3>1, PiecesDrop
    <3> QED BY <1>0, <2>1, <2>2, <3>2, <3>3, OrderOfOne
  <2>5. CASE inflight' = [inflight EXCEPT ![l] = Append(@, link_queue_[l])]
    <3>1. /\ sent'[l] = sent[l] /\ inflight'[l] = Append(inflight[l], link_queue_[l])
          /\ link_queue_'[l] = <<>>
      BY <1>0, <2>1, <2>2, <2>5
    <3>2. \A k \in Links : k # l =>
             sent'[k] = sent[k] /\ inflight'[k] = inflight[k] /\ link_queue_'[k] = link_queue_[k]
      BY <1>0, <2>1, <2>2, <2>5
    <3>3. PiecesInOrder(sent[l], inflight[l], link_queue_[l]) =>
             /\ PiecesInOrder(sent'[l], inflight'[l], link_queue_'[l])
             /\ \A n \in Nat : PiecesUnder(sent[l], inflight[l], link_queue_[l], n) =>
                                   PiecesUnder(sent'[l], inflight'[l], link_queue_'[l], n)
      BY <2>3, <3>1, PiecesBatch
    <3> QED BY <1>0, <2>1, <2>2, <3>2, <3>3, OrderOfOne
  <2> QED BY <2>2, <2>4, <2>5 DEF uv_write
<1>5. ASSUME NEW l \in Links, OnError(l)
      PROVE  OrderInv'
  <2>1. /\ link_queue_' = [link_queue_ EXCEPT ![l] = <<>>]
        /\ inflight' = inflight /\ sent' = sent /\ next' = next /\ pc' = pc /\ cur' = cur /\ at' = at
    BY <1>5 DEF OnError, StopLink, sendVars, uvVars
  <2>2. sent'[l] = sent[l] /\ inflight'[l] = inflight[l] /\ link_queue_'[l] = <<>>
    BY <1>0, <2>1
  <2>3. \A k \in Links : k # l =>
           sent'[k] = sent[k] /\ inflight'[k] = inflight[k] /\ link_queue_'[k] = link_queue_[k]
    BY <1>0, <2>1
  <2>4. PiecesInOrder(sent[l], inflight[l], link_queue_[l]) =>
           /\ PiecesInOrder(sent'[l], inflight'[l], link_queue_'[l])
           /\ \A n \in Nat : PiecesUnder(sent[l], inflight[l], link_queue_[l], n) =>
                                 PiecesUnder(sent'[l], inflight'[l], link_queue_'[l], n)
    BY <2>2, PiecesDrop
  <2> QED BY <1>0, <2>1, <2>3, <2>4, OrderOfOne
<1>6. ASSUME NEW l \in Links, after_write_ok(l) \/ after_write_failed(l)
      PROVE  OrderInv'
  <2>1. /\ inflight[l] # <<>> /\ inflight' = [inflight EXCEPT ![l] = Tail(@)]
        /\ next' = next /\ pc' = pc /\ cur' = cur /\ at' = at
        /\ sent' = [sent EXCEPT ![l] = @ \o Head(inflight[l])] \/ sent' = sent
        /\ link_queue_' = link_queue_ \/ link_queue_' = [link_queue_ EXCEPT ![l] = <<>>]
    BY <1>6 DEF after_write_ok, after_write_failed, PopBatch, StopLink, sendVars
  <2>2. /\ sent[l] \in Seq(Msgs) /\ inflight[l] \in Seq(Seq(Msgs)) /\ link_queue_[l] \in Seq(Msgs)
        /\ inflight'[l] = Tail(inflight[l])
        /\ sent'[l] \in {sent[l], sent[l] \o Head(inflight[l])}
        /\ link_queue_'[l] = link_queue_[l] \/ link_queue_'[l] = <<>>
    BY <1>0, <2>1
  <2>3. \A k \in Links : k # l =>
           sent'[k] = sent[k] /\ inflight'[k] = inflight[k] /\ link_queue_'[k] = link_queue_[k]
    BY <1>0, <2>1
  <2>4. PiecesInOrder(sent[l], inflight[l], link_queue_[l]) =>
           /\ PiecesInOrder(sent'[l], inflight'[l], link_queue_[l])
           /\ \A n \in Nat : PiecesUnder(sent[l], inflight[l], link_queue_[l], n) =>
                                 PiecesUnder(sent'[l], inflight'[l], link_queue_[l], n)
    <3> SUFFICES ASSUME NEW s, s = sent[l], NEW b, b = inflight[l], NEW q, q = link_queue_[l],
                        NEW s2, s2 = sent'[l], PiecesInOrder(s, b, q)
                 PROVE  /\ PiecesInOrder(s2, Tail(b), q)
                        /\ \A n \in Nat : PiecesUnder(s, b, q, n) => PiecesUnder(s2, Tail(b), q, n)
      BY <2>2
    <3>1. /\ s \in Seq(Msgs) /\ b \in Seq(Seq(Msgs)) /\ q \in Seq(Msgs) /\ b # <<>>
          /\ s2 \in {s, s \o Head(b)}
      BY <2>1, <2>2
    <3> QED BY <3>1, PiecesPop
  <2>5. PiecesInOrder(sent[l], inflight[l], link_queue_[l]) =>
           /\ PiecesInOrder(sent'[l], inflight'[l], link_queue_'[l])
           /\ \A n \in Nat : PiecesUnder(sent[l], inflight[l], link_queue_[l], n) =>
                                 PiecesUnder(sent'[l], inflight'[l], link_queue_'[l], n)
    BY <2>2, <2>4, PiecesDrop
  <2> QED BY <1>0, <2>1, <2>3, <2>5, OrderOfOne
<1>7. ASSUME UNCHANGED <<sent, inflight, link_queue_, next, cur, at>>,
             \A t \in Senders : pc'[t] = "found" => pc[t] = "found"
      PROVE  OrderInv'
  BY <1>0, <1>7, OrderKept
<1>8. ASSUME NEW t \in Senders, LinkWriteWakeup(t)
      PROVE  OrderInv'
  BY <1>0, <1>7, <1>8 DEF LinkWriteWakeup, uvVars
<1>9. \/ UNCHANGED <<sent, inflight, link_queue_, next, cur, at, pc>>
      \/ \E t \in Senders : (\E l \in Links : SendData(t, l)) \/ SendMessage(t) \/ LinkWriteWakeup(t)
      \/ OnAsyncWrite
      \/ \E l \in Links : OnError(l) \/ after_write_ok(l) \/ after_write_failed(l)
  BY DEF Next, Send, Loop, WriteWakeup, async_tcp_write_cb, LinkWriteEvent, OnWrite, sendVars, uvVars, vars
<1> QED BY <1>2, <1>3, <1>4, <1>5, <1>6, <1>7, <1>8, <1>9

-----------------------------------------------------------------------------
(* Theorems.                                                                *)

\* WriteInv holds in every state the write side can reach.
THEOREM WriteInvariant == Spec => []WriteInv
<1>1. WriteInv /\ [Next]_vars => WriteInv'
  BY TypeStep, LockStep, WakeupStep, AliveStep DEF WriteInv
<1> QED BY WriteInit, <1>1, PTL DEF Spec

\* The variables of the write side keep their types.
THEOREM WriteTypeCorrect == Spec => []TypeOK
BY WriteInvariant, PTL DEF WriteInv

\* A link with messages in its write_queue_ always has its key queued in Libuv or about to be,
\* and queued keys always have a signalled async handle or a running callback: LinkWriteWakeup
\* and LinkWriteEvent together lose no wakeup.
THEOREM WriteLosesNoWakeup == Spec => []NoLostWakeup
BY WriteInvariant, PTL DEF WriteInv

\* TcpServer's map_mutex_ keeps the TcpLink a sender has found alive until it is done with it.
THEOREM WriteServerLinksAlive == Spec => []ServerLinksAlive
BY WriteInvariant, PTL DEF WriteInv

\* No message's buffer is freed twice or leaked between SendMessage, the link's queue, uv_write
\* and after_write_cb, and no sender uses a destroyed link of a server, whatever links fail.
THEOREM WriteMemorySafe == Spec => []MemorySafe
<1>1. WriteInv /\ OwnerInv /\ [Next]_vars => OwnerInv'
  BY OwnerStep
<1>2. Spec => []OwnerInv
  BY <1>1, OwnerInit, WriteInvariant, PTL DEF Spec
<1>3. WriteInv /\ OwnerInv => MemorySafe
  BY OwnedOnce DEF WriteInv, MemorySafe
<1> QED BY <1>2, <1>3, WriteInvariant, PTL

\* Per link of a server, the messages written, given to uv_write and queued are in the order in
\* which SendMessage pushed them, whatever threads send, batches fail and links end.
THEOREM WriteKeepsOrder == Spec => []FifoPerLink
<1>1. WriteInv /\ OrderInv /\ [Next]_vars => OrderInv'
  BY OrderStep
<1>2. Spec => []OrderInv
  BY <1>1, OrderInit, WriteInvariant, PTL DEF Spec
<1>3. OrderInv => FifoPerLink
  BY DEF OrderInv
<1> QED BY <1>2, <1>3, PTL
=============================================================================
