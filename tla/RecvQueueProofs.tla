--------------------------- MODULE RecvQueueProofs ---------------------------
(***************************************************************************)
(* What MCRecvQueue composes, but for MsgPack (MsgPackProofs): the receive *)
(* queue, the numbers of objects and links, the table of threads, the end  *)
(* of the libuv thread.                                                    *)
(*                                                                         *)
(* recv_queue_ gives every message out once and in order, and the call     *)
(* that waits for messages brings some, for any number of threads and      *)
(* messages.  The argument: the numbers in recv_queue_ and in what the     *)
(* threads have got are together 1..posted, a batch is numbered above all  *)
(* of them, and a thread that swaps takes the whole queue, whose numbers   *)
(* are above all it has got before.                                        *)
(***************************************************************************)
EXTENDS RecvQueue, LinkKeys, Threads, LoopStop, FiniteSetTheorems, SequenceTheorems, TLAPS

-----------------------------------------------------------------------------
(* Sequences.                                                               *)

\* What is in two sequences put together.
LEMMA SetConcat ==
    ASSUME NEW S, NEW s \in Seq(S), NEW t \in Seq(S)
    PROVE  ToSet(s \o t) = ToSet(s) \cup ToSet(t)
<1> DEFINE u == s \o t
<1>1. /\ u \in Seq(S) /\ Len(u) = Len(s) + Len(t)
      /\ \A i \in 1..(Len(s) + Len(t)) : u[i] = IF i <= Len(s) THEN s[i] ELSE t[i - Len(s)]
  BY ConcatProperties
<1>2. Len(s) \in Nat /\ Len(t) \in Nat
  OBVIOUS
<1>3. DOMAIN s = 1..Len(s) /\ DOMAIN t = 1..Len(t) /\ DOMAIN u = 1..Len(u)
  BY <1>1, LenProperties
<1> HIDE DEF u
<1>4. ASSUME NEW x \in ToSet(u) PROVE x \in ToSet(s) \cup ToSet(t)
  <2>1. PICK i \in 1..(Len(s) + Len(t)) : x = u[i]
    BY <1>1, <1>3 DEF ToSet
  <2>2. CASE i <= Len(s)
    <3>1. i \in 1..Len(s) /\ x = s[i]
      BY <1>1, <1>2, <2>1, <2>2
    <3> QED BY <1>3, <3>1 DEF ToSet
  <2>3. CASE i > Len(s)
    <3>1. i - Len(s) \in 1..Len(t) /\ x = t[i - Len(s)]
      BY <1>1, <1>2, <2>1, <2>3
    <3> QED BY <1>3, <3>1 DEF ToSet
  <2> QED BY <1>2, <2>2, <2>3
<1>5. ASSUME NEW x \in ToSet(s) PROVE x \in ToSet(u)
  <2>1. PICK i \in 1..Len(s) : x = s[i]
    BY <1>3 DEF ToSet
  <2>2. i \in 1..(Len(s) + Len(t)) /\ u[i] = x
    BY <1>1, <1>2, <2>1
  <2> QED BY <1>1, <1>3, <2>2 DEF ToSet
<1>6. ASSUME NEW x \in ToSet(t) PROVE x \in ToSet(u)
  <2>1. PICK i \in 1..Len(t) : x = t[i]
    BY <1>3 DEF ToSet
  <2>2. i + Len(s) \in 1..(Len(s) + Len(t)) /\ ~(i + Len(s) <= Len(s)) /\ (i + Len(s)) - Len(s) = i
    BY <1>2
  <2>3. u[i + Len(s)] = x
    BY <1>1, <2>1, <2>2
  <2> QED BY <1>1, <1>3, <2>2, <2>3 DEF ToSet
<1> QED BY <1>4, <1>5, <1>6 DEF u

\* Two sequences of numbers put together increase if each does and the second is above the first.
LEMMA IncreasingConcat ==
    ASSUME NEW S, S \subseteq Int, NEW s \in Seq(S), NEW t \in Seq(S)
    PROVE  Increasing(s \o t) <=>
             /\ Increasing(s) /\ Increasing(t)
             /\ \A x \in ToSet(s), y \in ToSet(t) : x < y
<1> DEFINE u == s \o t
<1>1. /\ u \in Seq(S) /\ Len(u) = Len(s) + Len(t)
      /\ \A i \in 1..(Len(s) + Len(t)) : u[i] = IF i <= Len(s) THEN s[i] ELSE t[i - Len(s)]
  BY ConcatProperties
<1>2. Len(s) \in Nat /\ Len(t) \in Nat
  OBVIOUS
<1>3. DOMAIN s = 1..Len(s) /\ DOMAIN t = 1..Len(t)
  BY LenProperties
<1> HIDE DEF u
<1>4. \A i \in 1..Len(s) : i \in 1..(Len(s) + Len(t)) /\ u[i] = s[i]
  BY <1>1, <1>2
<1>5. ASSUME NEW i \in 1..Len(t)
      PROVE  i + Len(s) \in 1..(Len(s) + Len(t)) /\ u[i + Len(s)] = t[i]
  <2>1. /\ i + Len(s) \in 1..(Len(s) + Len(t)) /\ ~(i + Len(s) <= Len(s))
        /\ (i + Len(s)) - Len(s) = i
    BY <1>2
  <2> QED BY <1>1, <2>1
<1>6. ASSUME Increasing(u)
      PROVE  /\ Increasing(s) /\ Increasing(t)
             /\ \A x \in ToSet(s), y \in ToSet(t) : x < y
  <2>1. \A i, j \in 1..(Len(s) + Len(t)) : i < j => u[i] < u[j]
    BY <1>1, <1>6 DEF Increasing
  <2>2. Increasing(s)
    BY <1>4, <2>1 DEF Increasing
  <2>3. ASSUME NEW i \in 1..Len(t), NEW j \in 1..Len(t), i < j
        PROVE  t[i] < t[j]
    <3>1. i + Len(s) < j + Len(s)
      BY <1>2, <2>3
    <3> QED BY <1>5, <2>1, <3>1
  <2>4. ASSUME NEW x \in ToSet(s), NEW y \in ToSet(t)
        PROVE  x < y
    <3>1. PICK i \in 1..Len(s) : x = s[i]
      BY <1>3 DEF ToSet
    <3>2. PICK j \in 1..Len(t) : y = t[j]
      BY <1>3 DEF ToSet
    <3>3. i < j + Len(s)
      BY <1>2
    <3> QED BY <1>4, <1>5, <2>1, <3>1, <3>2, <3>3
  <2>5. Increasing(t)
    BY <2>3 DEF Increasing
  <2> QED BY <2>2, <2>4, <2>5
<1>7. ASSUME Increasing(s), Increasing(t),
             \A x \in ToSet(s), y \in ToSet(t) : x < y
      PROVE  Increasing(u)
  <2> SUFFICES ASSUME NEW i \in 1..Len(u), NEW j \in 1..Len(u), i < j
               PROVE  u[i] < u[j]
    BY DEF Increasing
  <2>1. CASE j <= Len(s)
    <3>1. i \in 1..Len(s) /\ j \in 1..Len(s)
      BY <1>1, <1>2, <2>1
    <3> QED BY <1>4, <1>7, <3>1 DEF Increasing
  <2>2. CASE i <= Len(s) /\ j > Len(s)
    <3>1. i \in 1..Len(s) /\ j - Len(s) \in 1..Len(t)
      BY <1>1, <1>2, <2>2
    <3>2. u[i] = s[i] /\ u[j] = t[j - Len(s)]
      BY <1>1, <1>2, <2>2
    <3>3. s[i] \in ToSet(s) /\ t[j - Len(s)] \in ToSet(t)
      BY <1>3, <3>1 DEF ToSet
    <3> QED BY <1>7, <3>2, <3>3
  <2>3. CASE i > Len(s)
    <3>1. i - Len(s) \in 1..Len(t) /\ j - Len(s) \in 1..Len(t) /\ i - Len(s) < j - Len(s)
      BY <1>1, <1>2, <2>3
    <3>2. u[i] = t[i - Len(s)] /\ u[j] = t[j - Len(s)]
      BY <1>1, <1>2, <2>3
    <3> QED BY <1>7, <3>1, <3>2 DEF Increasing
  <2> QED BY <1>1, <1>2, <2>1, <2>2, <2>3
<1> QED BY <1>6, <1>7 DEF u

\* The numbers of a batch of n messages: the next n, in order.
LEMMA Batch ==
    ASSUME NEW p \in Nat, NEW n \in Nat, NEW N \in Nat, p + n <= N
    PROVE  LET b == [i \in 1..n |-> p + i]
           IN  b \in Seq(1..N) /\ ToSet(b) = (p + 1)..(p + n) /\ Increasing(b)
<1> DEFINE b == [i \in 1..n |-> p + i]
<1>1. \A i \in 1..n : p + i \in 1..N
  OBVIOUS
<1>2. b \in Seq(1..N)
  BY <1>1, IsASeq
<1>3. DOMAIN b = 1..n /\ \A i \in 1..n : b[i] = p + i
  OBVIOUS
<1>4. Len(b) = n
  BY <1>2, <1>3, LenProperties
<1> HIDE DEF b
<1>5. Increasing(b)
  BY <1>3, <1>4 DEF Increasing
<1>6. ToSet(b) \subseteq (p + 1)..(p + n)
  BY <1>3 DEF ToSet
<1>7. ASSUME NEW x \in (p + 1)..(p + n)
      PROVE  x \in ToSet(b)
  <2>1. x - p \in 1..n /\ b[x - p] = x
    BY <1>3
  <2> QED BY <1>3, <2>1 DEF ToSet
<1> QED BY <1>2, <1>5, <1>6, <1>7 DEF b

-----------------------------------------------------------------------------
(* The invariant.                                                           *)

\* The types, with the calls' own domain, and the property itself.
RecvInv ==
    /\ TypeOK
    /\ call \in [Fetchers -> {"FetchRecvQueue", "wait", "timed"}]
    /\ FetchedOnceInOrder

LEMMA RecvInit == Init => RecvInv
<1> SUFFICES ASSUME Init PROVE RecvInv
  OBVIOUS
<1>1. MaxMsgs \in Nat /\ Calls \in [Fetchers -> SUBSET {"FetchRecvQueue", "wait", "timed"}]
  BY RecvConstants
<1>2. call \in [Fetchers -> {"FetchRecvQueue", "wait", "timed"}] /\ \A t \in Fetchers : call[t] \in Calls[t]
  BY <1>1 DEF Init
<1>3. <<>> \in Seq(Msgs) /\ Len(<<>>) = 0 /\ <<>> \o <<>> = <<>> /\ ToSet(<<>>) = {}
  BY DEF ToSet
<1>4. TypeOK
  BY <1>1, <1>2, <1>3 DEF Init, TypeOK
<1>5. FetchedOnceInOrder
  <2>1. recv_queue_ = <<>> /\ posted = 0 /\ \A t \in Fetchers : got[t] = <<>>
    BY DEF Init
  <2>2. Increasing(<<>>)
    BY DEF Increasing
  <2>3. 1..0 = {}
    OBVIOUS
  <2>4. UNION {ToSet(got[t]) : t \in Fetchers} = {}
    BY <1>3, <2>1
  <2> QED BY <1>3, <2>1, <2>2, <2>3, <2>4 DEF FetchedOnceInOrder
<1> QED BY <1>2, <1>4, <1>5 DEF RecvInv

\* Nothing that is in the queue or has been fetched is numbered above posted.
LEMMA AllPosted ==
    ASSUME RecvInv
    PROVE  /\ \A t \in Fetchers : ToSet(got[t]) \subseteq 1..posted
           /\ ToSet(recv_queue_) \subseteq 1..posted
<1>1. (UNION {ToSet(got[t]) : t \in Fetchers}) \cup ToSet(recv_queue_) = 1..posted
  BY DEF RecvInv, FetchedOnceInOrder
<1>2. UNION {ToSet(got[t]) : t \in Fetchers} \subseteq 1..posted /\ ToSet(recv_queue_) \subseteq 1..posted
  BY <1>1
<1>3. \A t \in Fetchers : ToSet(got[t]) \subseteq UNION {ToSet(got[v]) : v \in Fetchers}
  OBVIOUS
<1> QED BY <1>2, <1>3

\* Posting n messages keeps the order: they are numbered above all others.
LEMMA PostKeeps ==
    ASSUME RecvInv, NEW n \in Nat, Post(n), got' = got
    PROVE  /\ recv_queue_' \in Seq(Msgs) /\ posted' \in 0..MaxMsgs
           /\ FetchedOnceInOrder'
<1> DEFINE b == [i \in 1..n |-> posted + i]
<1>1. /\ MaxMsgs \in Nat /\ posted \in Nat /\ posted + n <= MaxMsgs
      /\ recv_queue_ \in Seq(Msgs) /\ \A t \in Fetchers : got[t] \in Seq(Msgs)
      /\ recv_queue_' = recv_queue_ \o b /\ posted' = posted + n
  BY RecvConstants DEF RecvInv, TypeOK, Post
<1>2. /\ b \in Seq(Msgs) /\ ToSet(b) = (posted + 1)..(posted + n) /\ Increasing(b)
  BY <1>1, Batch DEF Msgs
<1> HIDE DEF b
<1>3. recv_queue_' \in Seq(Msgs) /\ posted' \in 0..MaxMsgs
  BY <1>1, <1>2, ConcatProperties
<1>4. Msgs \subseteq Int
  BY DEF Msgs
<1>5. ToSet(recv_queue_') = ToSet(recv_queue_) \cup ToSet(b)
  BY <1>1, <1>2, SetConcat
<1>6. ASSUME NEW t \in Fetchers
      PROVE  Increasing(got'[t] \o recv_queue_')
  <2>1. /\ Increasing(got[t]) /\ Increasing(recv_queue_)
        /\ \A x \in ToSet(got[t]), y \in ToSet(recv_queue_) : x < y
    BY <1>1, <1>4, IncreasingConcat DEF RecvInv, FetchedOnceInOrder
  <2>2. ToSet(got[t]) \subseteq 1..posted /\ ToSet(recv_queue_) \subseteq 1..posted
    BY AllPosted
  <2>3. \A x \in 1..posted, y \in ToSet(b) : x < y
    BY <1>1, <1>2
  <2>4. Increasing(recv_queue_')
    BY <1>1, <1>2, <1>4, <2>1, <2>2, <2>3, IncreasingConcat
  <2>5. \A x \in ToSet(got[t]), y \in ToSet(recv_queue_') : x < y
    BY <1>5, <2>1, <2>2, <2>3
  <2> QED BY <1>1, <1>3, <1>4, <2>1, <2>4, <2>5, IncreasingConcat
<1>7. (UNION {ToSet(got'[t]) : t \in Fetchers}) \cup ToSet(recv_queue_') = 1..posted'
  <2>1. 1..(posted + n) = (1..posted) \cup ((posted + 1)..(posted + n))
    BY <1>1
  <2>2. (UNION {ToSet(got[t]) : t \in Fetchers}) \cup ToSet(recv_queue_) = 1..posted
    BY DEF RecvInv, FetchedOnceInOrder
  <2>3. UNION {ToSet(got'[t]) : t \in Fetchers} = UNION {ToSet(got[t]) : t \in Fetchers}
    OBVIOUS
  <2>4. ToSet(recv_queue_') = ToSet(recv_queue_) \cup ((posted + 1)..(posted + n)) /\ posted' = posted + n
    BY <1>1, <1>2, <1>5
  <2> DEFINE Fetched == UNION {ToSet(got[t]) : t \in Fetchers}
             Queued == ToSet(recv_queue_)
             New == (posted + 1)..(posted + n)
  <2>5. Fetched \cup (Queued \cup New) = (Fetched \cup Queued) \cup New
    OBVIOUS
  <2> QED BY <2>1, <2>2, <2>3, <2>4, <2>5
<1>8. \A t, u \in Fetchers : t # u => ToSet(got'[t]) \cap ToSet(got'[u]) = {}
  BY DEF RecvInv, FetchedOnceInOrder
<1> QED BY <1>3, <1>6, <1>7, <1>8 DEF FetchedOnceInOrder

\* A thread that takes the whole queue keeps the order: nobody else has any of it.
LEMMA SwapKeeps ==
    ASSUME RecvInv, NEW t \in Fetchers, Swap(t), posted' = posted
    PROVE  /\ recv_queue_' \in Seq(Msgs) /\ got' \in [Fetchers -> Seq(Msgs)]
           /\ FetchedOnceInOrder'
<1>1. /\ recv_queue_ \in Seq(Msgs) /\ got \in [Fetchers -> Seq(Msgs)]
      /\ \A u \in Fetchers : got[u] \in Seq(Msgs)
      /\ recv_queue_' = <<>> /\ got' = [got EXCEPT ![t] = @ \o recv_queue_]
  BY DEF RecvInv, TypeOK, Swap
<1>2. got'[t] = got[t] \o recv_queue_ /\ \A u \in Fetchers \ {t} : got'[u] = got[u]
  BY <1>1
<1>3. got[t] \o recv_queue_ \in Seq(Msgs)
  BY <1>1, ConcatProperties
<1>4. recv_queue_' \in Seq(Msgs) /\ got' \in [Fetchers -> Seq(Msgs)]
  BY <1>1, <1>3
<1>5. Msgs \subseteq Int
  BY DEF Msgs
<1>6. ToSet(got'[t]) = ToSet(got[t]) \cup ToSet(recv_queue_)
  BY <1>1, <1>2, SetConcat
<1>7. \A u \in Fetchers : /\ Increasing(got[u] \o recv_queue_) /\ Increasing(got[u])
                          /\ \A x \in ToSet(got[u]), y \in ToSet(recv_queue_) : x < y
  BY <1>1, <1>5, IncreasingConcat DEF RecvInv, FetchedOnceInOrder
<1>8. \A u \in Fetchers : Increasing(got'[u] \o recv_queue_')
  <2>1. \A u \in Fetchers : got'[u] \in Seq(Msgs)
    BY <1>4
  <2>2. \A u \in Fetchers : got'[u] \o recv_queue_' = got'[u]
    BY <1>1, <2>1, ConcatEmptySeq
  <2> QED BY <1>2, <1>7, <2>2
<1>9. ASSUME NEW u \in Fetchers, u # t
      PROVE  ToSet(got[u]) \cap (ToSet(got[t]) \cup ToSet(recv_queue_)) = {}
  <2>1. ToSet(got[u]) \cap ToSet(got[t]) = {}
    BY <1>9 DEF RecvInv, FetchedOnceInOrder
  <2>2. \A x \in ToSet(got[u]) : x \in Int
    <3>1. (UNION {ToSet(got[v]) : v \in Fetchers}) \cup ToSet(recv_queue_) = 1..posted
      BY DEF RecvInv, FetchedOnceInOrder
    <3> QED BY <3>1
  <2>3. \A x \in Int : ~(x < x)
    OBVIOUS
  <2> QED BY <1>7, <2>1, <2>2, <2>3
<1>10. \A u, v \in Fetchers : u # v => ToSet(got'[u]) \cap ToSet(got'[v]) = {}
  <2>1. \A u, v \in Fetchers : u # v => ToSet(got[u]) \cap ToSet(got[v]) = {}
    BY DEF RecvInv, FetchedOnceInOrder
  <2> QED BY <1>2, <1>6, <1>9, <2>1
<1>11. (UNION {ToSet(got'[u]) : u \in Fetchers}) \cup ToSet(recv_queue_') = 1..posted'
  <2>1. ToSet(recv_queue_') = {}
    BY <1>1 DEF ToSet
  <2>2. (UNION {ToSet(got[u]) : u \in Fetchers}) \cup ToSet(recv_queue_) = 1..posted
    BY DEF RecvInv, FetchedOnceInOrder
  <2>3. \A u \in Fetchers : ToSet(got[u]) \subseteq ToSet(got'[u])
    BY <1>2, <1>6
  <2>4. (UNION {ToSet(got[u]) : u \in Fetchers}) \cup ToSet(recv_queue_)
          \subseteq UNION {ToSet(got'[u]) : u \in Fetchers}
    <3>1. \A u \in Fetchers : ToSet(got'[u]) \in {ToSet(got'[v]) : v \in Fetchers}
      OBVIOUS
    <3>2. \A u \in Fetchers : ToSet(got'[u]) \subseteq UNION {ToSet(got'[v]) : v \in Fetchers}
      BY <3>1
    <3>3. \A u \in Fetchers : ToSet(got[u]) \subseteq UNION {ToSet(got'[v]) : v \in Fetchers}
      BY <2>3, <3>2
    <3>4. ToSet(recv_queue_) \subseteq UNION {ToSet(got'[v]) : v \in Fetchers}
      BY <1>6, <3>2
    <3>5. UNION {ToSet(got[u]) : u \in Fetchers} \subseteq UNION {ToSet(got'[v]) : v \in Fetchers}
      BY <3>3
    <3> QED BY <3>4, <3>5
  <2>5. \A u \in Fetchers : ToSet(got'[u]) \subseteq ToSet(got[u]) \cup ToSet(recv_queue_)
    BY <1>2, <1>6
  <2>6. UNION {ToSet(got'[u]) : u \in Fetchers}
          \subseteq (UNION {ToSet(got[u]) : u \in Fetchers}) \cup ToSet(recv_queue_)
    <3>1. \A u \in Fetchers : ToSet(got[u]) \subseteq UNION {ToSet(got[v]) : v \in Fetchers}
      OBVIOUS
    <3>2. \A u \in Fetchers : ToSet(got'[u]) \subseteq
            (UNION {ToSet(got[v]) : v \in Fetchers}) \cup ToSet(recv_queue_)
      BY <2>5, <3>1
    <3> QED BY <3>2
  <2> QED BY <2>1, <2>2, <2>4, <2>6
<1> QED BY <1>4, <1>8, <1>10, <1>11 DEF FetchedOnceInOrder

\* A wait changes neither the queue nor what anyone has got.
LEMMA WaitKeeps ==
    ASSUME RecvInv, posted' = posted, recv_queue_' = recv_queue_, got' = got
    PROVE  FetchedOnceInOrder'
BY DEF RecvInv, FetchedOnceInOrder

LEMMA RecvStep == RecvInv /\ [Next]_vars => RecvInv'
<1> SUFFICES ASSUME RecvInv, [Next]_vars PROVE RecvInv'
  OBVIOUS
<1> DEFINE C == {"FetchRecvQueue", "wait", "timed"}
<1>1. /\ MaxMsgs \in Nat /\ MaxBatch \in Nat /\ Calls \in [Fetchers -> SUBSET C]
      /\ TypeOK /\ call \in [Fetchers -> C]
  BY RecvConstants DEF RecvInv
<1>2. ASSUME NEW n \in 0..MaxBatch, PutRecvQueue(n)
      PROVE  RecvInv'
  <2>1. n \in Nat /\ Post(n) /\ UNCHANGED <<pc, call, got>> /\ rm_cond_' \subseteq rm_cond_
    BY <1>1, <1>2 DEF PutRecvQueue, Notify
  <2>2. recv_queue_' \in Seq(Msgs) /\ posted' \in 0..MaxMsgs /\ FetchedOnceInOrder'
    BY <2>1, PostKeeps
  <2> QED BY <1>1, <2>1, <2>2 DEF RecvInv, TypeOK
<1>3. CASE PutMessage
  <2>1. 1 \in Nat /\ Post(1) /\ UNCHANGED <<rm_cond_, pc, call, got>>
    BY <1>3 DEF PutMessage
  <2>2. recv_queue_' \in Seq(Msgs) /\ posted' \in 0..MaxMsgs /\ FetchedOnceInOrder'
    BY <2>1, PostKeeps
  <2> QED BY <1>1, <2>1, <2>2 DEF RecvInv, TypeOK
<1>4. ASSUME NEW t \in Fetchers, Wait(t), UNCHANGED posted, call' \in [Fetchers -> C],
             \A u \in Fetchers : call'[u] \in Calls[u]
      PROVE  RecvInv'
  <2>1. FetchedOnceInOrder'
    BY <1>4, WaitKeeps DEF Wait
  <2>2. pc' = [pc EXCEPT ![t] = "waiting"] /\ rm_cond_' = rm_cond_ \cup {t}
    BY <1>4 DEF Wait
  <2>3. pc' \in [Fetchers -> {"idle", "waiting"}] /\ rm_cond_' \subseteq {u \in Fetchers : pc'[u] = "waiting"}
    BY <1>1, <2>2 DEF TypeOK
  <2> QED BY <1>1, <1>4, <2>1, <2>3 DEF RecvInv, TypeOK, Wait
<1>5. ASSUME NEW t \in Fetchers, t \notin rm_cond_, Swap(t), UNCHANGED posted,
             call' \in [Fetchers -> C], \A u \in Fetchers : call'[u] \in Calls[u]
      PROVE  RecvInv'
  <2>1. recv_queue_' \in Seq(Msgs) /\ got' \in [Fetchers -> Seq(Msgs)] /\ FetchedOnceInOrder'
    BY <1>5, SwapKeeps
  <2>2. pc' = [pc EXCEPT ![t] = "idle"] /\ rm_cond_' = rm_cond_
    BY <1>5 DEF Swap
  <2>3. pc' \in [Fetchers -> {"idle", "waiting"}] /\ rm_cond_' \subseteq {u \in Fetchers : pc'[u] = "waiting"}
    BY <1>1, <1>5, <2>2 DEF TypeOK
  <2> QED BY <1>1, <1>5, <2>1, <2>3 DEF RecvInv, TypeOK
<1>6. ASSUME NEW t \in Fetchers, NEW c \in Calls[t], Fetch(t, c)
      PROVE  RecvInv'
  <2>1. c \in C /\ call' = [call EXCEPT ![t] = c]
    BY <1>1, <1>6 DEF Fetch
  <2>2. call' \in [Fetchers -> C] /\ \A u \in Fetchers : call'[u] \in Calls[u]
    BY <1>1, <2>1 DEF TypeOK
  <2>3. t \notin rm_cond_
    BY <1>1, <1>6 DEF TypeOK, Fetch
  <2>4. (Wait(t) \/ Swap(t)) /\ UNCHANGED posted
    BY <1>6 DEF Fetch
  <2> QED BY <1>4, <1>5, <2>2, <2>3, <2>4
<1>7. ASSUME NEW t \in Fetchers, Return(t)
      PROVE  RecvInv'
  <2>1. call' \in [Fetchers -> C] /\ \A u \in Fetchers : call'[u] \in Calls[u]
    BY <1>1, <1>7 DEF TypeOK, Return
  <2>2. t \notin rm_cond_ /\ (Wait(t) \/ Swap(t)) /\ UNCHANGED posted
    BY <1>7 DEF Return
  <2> QED BY <1>4, <1>5, <2>1, <2>2
<1>8. ASSUME NEW t \in Fetchers, Timeout(t) \/ Spurious(t)
      PROVE  RecvInv'
  <2>1. /\ UNCHANGED <<recv_queue_, posted, pc, call, got>>
        /\ rm_cond_' \subseteq rm_cond_
    BY <1>8 DEF Timeout, Spurious
  <2>2. FetchedOnceInOrder'
    BY <2>1, WaitKeeps
  <2> QED BY <1>1, <2>1, <2>2 DEF RecvInv, TypeOK
<1>9. CASE UNCHANGED vars
  <2>1. FetchedOnceInOrder'
    BY <1>9, WaitKeeps DEF vars
  <2> QED BY <1>1, <1>9, <2>1 DEF RecvInv, TypeOK, vars
<1> QED BY <1>2, <1>3, <1>6, <1>7, <1>8, <1>9 DEF Next, FetchStep

-----------------------------------------------------------------------------
(* The theorems.                                                            *)

LEMMA RecvInvariant == Spec => []RecvInv
BY RecvInit, RecvStep, PTL DEF Spec

\* The variables keep their types, and a thread in rm_cond_'s wait set is waiting.
THEOREM RecvTypes == Spec => []TypeOK
<1>1. RecvInv => TypeOK
  BY DEF RecvInv
<1> QED BY <1>1, RecvInvariant, PTL

\* FetchRecvQueue and FetchRecvQueue1 give every message posted to one thread, once, and in the
\* order in which the libuv thread posted it, however the threads' waits and wakeups interleave.
THEOREM RecvFetchedOnceInOrder == Spec => []FetchedOnceInOrder
<1>1. RecvInv => FetchedOnceInOrder
  BY DEF RecvInv
<1> QED BY <1>1, RecvInvariant, PTL

\* FetchRecvQueue1 with no waittime does not return empty-handed, whatever it is woken by.
LEMMA WaitStep ==
    ASSUME RecvInv, [Next]_vars, NEW t \in Fetchers,
           call'[t] = "wait", pc[t] = "waiting", pc'[t] = "idle"
    PROVE  Len(got'[t]) > Len(got[t])
<1>1. /\ pc \in [Fetchers -> {"idle", "waiting"}] /\ got \in [Fetchers -> Seq(Msgs)]
      /\ recv_queue_ \in Seq(Msgs)
  BY DEF RecvInv, TypeOK
<1>2. ~ UNCHANGED pc
  OBVIOUS
<1>3. PICK u \in Fetchers : Return(u) \/ \E c \in Calls[u] : Fetch(u, c)
  BY <1>2 DEF Next, FetchStep, PutRecvQueue, PutMessage, Timeout, Spurious, vars
<1>4. (Wait(u) \/ Swap(u)) /\ pc[u] \in {"idle", "waiting"}
  BY <1>1, <1>3 DEF Return, Fetch
<1>5. Swap(u) /\ u = t
  BY <1>1, <1>4 DEF Wait, Swap
<1>6. Return(t)
  BY <1>3, <1>5 DEF Fetch
<1>7. recv_queue_ # <<>>
  BY <1>1, <1>6 DEF Return, Wait
<1>8. got'[t] = got[t] \o recv_queue_
  BY <1>1, <1>5 DEF Swap
<1>9. got[t] \in Seq(Msgs) /\ Len(got[t]) \in Nat /\ Len(recv_queue_) \in Nat /\ Len(recv_queue_) > 0
  BY <1>1, <1>7
<1>10. Len(got[t] \o recv_queue_) = Len(got[t]) + Len(recv_queue_)
  BY <1>1, <1>9
<1> QED BY <1>8, <1>9, <1>10

\* "If waittime is 0, wait until a message is received": such a call brings some message.
THEOREM RecvWaitBringsMessages == Spec => WaitBringsMessages
<1>1. RecvInv /\ [Next]_vars =>
        [\A t \in Fetchers :
            (call'[t] = "wait" /\ pc[t] = "waiting" /\ pc'[t] = "idle") => Len(got'[t]) > Len(got[t])]_vars
  BY WaitStep
<1> QED BY <1>1, RecvInvariant, PTL DEF Spec, WaitBringsMessages

-----------------------------------------------------------------------------
(* LinkKeys: objects and links are numbered apart, for any widths of the    *)
(* counters and any number of links below that of the link ids.  The values *)
(* a counter goes through from where it stands are all the values there     *)
(* are, fewer are in use, and the loops of GetNextObjId and GetNextLinkId   *)
(* stop at the first that is not; the sign extension of a negative link id  *)
(* changes the object's half of the key and not the link's, so different    *)
(* ids still give different keys.                                           *)

\* A value below the modulus is its own remainder, and so it is one turn later.
LEMMA OneTurn ==
    ASSUME NEW C \in Nat, C > 0, NEW n \in 0..(C - 1)
    PROVE  n % C = n /\ (n + C) % C = n
<1>1. n % C = n
  OBVIOUS
<1>2. (n + C) % C = n
  OBVIOUS
<1> QED BY <1>1, <1>2

\* A counter reaches every value within one turn.
LEMMA EveryValue ==
    ASSUME NEW C \in Nat, C > 0, NEW at \in 0..(C - 1), NEW n \in 0..(C - 1)
    PROVE  \E k \in 1..C : (at + k) % C = n
<1>1. CASE n > at
  <2>1. n - at \in 1..C /\ at + (n - at) = n
    BY <1>1
  <2>2. n % C = n
    BY OneTurn
  <2> QED BY <2>1, <2>2
<1>2. CASE n <= at
  <2>1. (n + C) - at \in 1..C /\ at + ((n + C) - at) = n + C
    BY <1>2
  <2>2. (n + C) % C = n
    BY OneTurn
  <2> QED BY <2>1, <2>2
<1> QED BY <1>1, <1>2

\* A remainder is a value of the counter.
LEMMA InRange ==
    ASSUME NEW C \in Nat, C > 0, NEW a \in Nat
    PROVE  a % C \in 0..(C - 1)
OBVIOUS

\* A set of numbers has a least one.
LEMMA LeastNumber ==
    ASSUME NEW T, T \subseteq Nat, T # {}
    PROVE  \E k \in T : \A j \in T : ~(j < k)
<1>1. PICK k \in T : \A j \in T : ~(<<j, k>> \in OpToRel(<, Nat))
  BY Zenon, NatLessThanWellFounded, WFMin
<1> QED BY <1>1 DEF OpToRel

\* The loops find a value that is not in use, if one of those they try is not.
LEMMA FirstFreeIsFree ==
    ASSUME NEW N \in Nat, NEW new, DOMAIN new = 1..N, NEW used,
           \E k \in 1..N : new[k] \notin used
    PROVE  FirstFree(new, used) \notin used /\ \E k \in 1..N : FirstFree(new, used) = new[k]
<1> DEFINE Untaken == {k \in 1..N : new[k] \notin used}
<1>1. Untaken \subseteq Nat /\ Untaken # {}
  OBVIOUS
<1> HIDE DEF Untaken
<1>2. PICK k \in Untaken : \A j \in Untaken : ~(j < k)
  BY <1>1, LeastNumber
<1> USE DEF Untaken
<1>4. k \in DOMAIN new /\ new[k] \notin used /\ \A j \in 1..(k - 1) : new[j] \in used
  <2>1. ASSUME NEW j \in 1..(k - 1), new[j] \notin used
        PROVE  FALSE
    <3>1. j \in Untaken /\ j < k
      BY <2>1
    <3> QED BY <1>2, <3>1
  <2> QED BY <2>1
<1> DEFINE First == CHOOSE i \in DOMAIN new : new[i] \notin used /\ \A j \in 1..(i - 1) : new[j] \in used
<1>5. First \in DOMAIN new /\ new[First] \notin used
  BY <1>4
<1> QED BY <1>5 DEF FirstFree

\* The types, the finiteness that counting needs, and the property itself.
KeyInv ==
    /\ obj_idx_indx_ \in 0..(Counters - 1)
    /\ objs \subseteq ObjIds /\ IsFiniteSet(objs)
    /\ added \in Int
    /\ generate_ \in [ObjIds -> 0..(2 * Half - 1)]
    /\ links \in [ObjIds -> Int]
    /\ link_map_ \in [ObjIds -> SUBSET LinkKey]
    /\ \A o \in ObjIds : IsFiniteSet(link_map_[o])
    /\ NumberedApart

LEMMA Bounds == Half \in Nat /\ Half > 1 /\ Counters \in Nat /\ Counters > 1 /\ MaxLinks \in Nat
                /\ MaxLinks < 2 * Half - 1 /\ 2 * Half \in Nat /\ 2 * Half > 0
BY KeyConstants

LEMMA KeyInit == InitKeys => KeyInv
<1> SUFFICES ASSUME InitKeys PROVE KeyInv
  OBVIOUS
<1>1. IsFiniteSet({}) /\ Cardinality({}) = 0
  BY FS_EmptySet
<1>2. 1 \in 0..(2 * Half - 1) /\ 0 \in 0..(Counters - 1)
  BY Bounds
<1> QED BY <1>1, <1>2 DEF InitKeys, KeyInv, NumberedApart

\* A link's new key is not in use: the ids outnumber the links, and different ids have different keys.
LEMMA FreeKey ==
    ASSUME KeyInv, NEW o \in objs, o[1] = "server", links[o] < MaxLinks
    PROVE  LET next(k) == (generate_[o] + k) % (2 * Half)
               new == [k \in 1..(2 * Half) |-> Or(SETLINKKEY(o, 0), next(k))]
           IN  \E k \in 1..(2 * Half) : new[k] \notin link_map_[o]
<1> DEFINE next(k) == (generate_[o] + k) % (2 * Half)
           new == [k \in 1..(2 * Half) |-> Or(SETLINKKEY(o, 0), next(k))]
           ids == 0..(2 * Half - 1)
           f == [id \in ids |-> Or(SETLINKKEY(o, 0), id)]
<1>1. /\ o \in ObjIds /\ generate_[o] \in ids /\ IsFiniteSet(link_map_[o])
      /\ Cardinality(link_map_[o]) = links[o] + 1 /\ links[o] \in Int
  BY DEF KeyInv, NumberedApart
<1>2. Cardinality(ids) = 2 * Half
  <2>1. 0 \in Int /\ 2 * Half - 1 \in Int /\ 0 <= 2 * Half - 1
    BY Bounds
  <2>2. Cardinality(ids) = (2 * Half - 1) - 0 + 1
    BY <2>1, FS_Interval
  <2> QED BY <2>2, Bounds
<1>3. \E id \in ids : f[id] \notin link_map_[o]
  <2> SUFFICES ASSUME \A id \in ids : f[id] \in link_map_[o] PROVE FALSE
    OBVIOUS
  <2>1. f \in [ids -> link_map_[o]]
    OBVIOUS
  <2>2. \A a, b \in ids : f[a] = f[b] => a = b
    BY DEF Or
  <2>3. f \in Injection(ids, link_map_[o])
    BY <2>1, <2>2 DEF Injection, IsInjective
  <2>4. Cardinality(ids) <= Cardinality(link_map_[o])
    BY <1>1, <2>3, FS_Injection
  <2> QED BY <1>1, <1>2, <2>4, Bounds
<1>4. PICK id \in ids : f[id] \notin link_map_[o]
  BY <1>3
<1>5. PICK k \in 1..(2 * Half) : next(k) = id
  BY <1>1, Bounds, EveryValue
<1>6. new[k] = f[id]
  BY <1>5
<1> QED BY <1>4, <1>6

LEMMA AddObjStep ==
    ASSUME KeyInv, NEW type \in Types, AddObj(type)
    PROVE  KeyInv'
<1> DEFINE next(k) == (obj_idx_indx_ + k) % Counters
           new == [k \in 1..Counters |-> <<type, next(k)>>]
           id == FirstFree(new, objs)
<1>1. /\ obj_idx_indx_' = id[2] /\ objs' = objs \cup {id} /\ added' = added + 1
      /\ generate_' = [generate_ EXCEPT ![id] = 1]
      /\ link_map_' = [link_map_ EXCEPT ![id] = IF type = "server" THEN {SETLINKKEY(id, 0)} ELSE {}]
      /\ links' = [links EXCEPT ![id] = 0]
      /\ \E n \in 0..(Counters - 1) : <<type, n>> \notin objs
  BY DEF AddObj
<1>2. \E k \in 1..Counters : new[k] \notin objs
  <2>1. PICK n \in 0..(Counters - 1) : <<type, n>> \notin objs
    BY <1>1
  <2>2. obj_idx_indx_ \in 0..(Counters - 1) /\ Counters \in Nat /\ Counters > 0
    BY Bounds DEF KeyInv
  <2>3. PICK k \in 1..Counters : next(k) = n
    BY <2>2, EveryValue
  <2> QED BY <2>1, <2>3
<1>3. DOMAIN new = 1..Counters /\ Counters \in Nat
  BY Bounds
<1>4. id \notin objs /\ \E k \in 1..Counters : id = new[k]
  <2> HIDE DEF new
  <2> QED BY <1>2, <1>3, FirstFreeIsFree
<1>5. PICK k \in 1..Counters : id = <<type, next(k)>>
  BY <1>4
<1>6. next(k) \in 0..(Counters - 1)
  <2>1. obj_idx_indx_ + k \in Nat
    BY Bounds DEF KeyInv
  <2> QED BY <2>1, Bounds, InRange
<1>7. id \in ObjIds /\ id[1] = type /\ id[2] \in 0..(Counters - 1)
  BY <1>5, <1>6 DEF ObjIds
<1> HIDE DEF id
<1>8. /\ objs \subseteq ObjIds /\ IsFiniteSet(objs) /\ Cardinality(objs) = added /\ added \in Int
      /\ generate_ \in [ObjIds -> 0..(2 * Half - 1)] /\ links \in [ObjIds -> Int]
      /\ link_map_ \in [ObjIds -> SUBSET LinkKey]
  BY DEF KeyInv, NumberedApart
<1>9. IsFiniteSet(objs') /\ Cardinality(objs') = added'
  BY <1>1, <1>4, <1>8, FS_AddElement
<1>10. SETLINKKEY(id, 0) \in LinkKey
  BY <1>7, Bounds DEF SETLINKKEY, LinkKey
<1> DEFINE new_map == IF type = "server" THEN {SETLINKKEY(id, 0)} ELSE {}
<1>11. new_map \subseteq LinkKey /\ IsFiniteSet(new_map)
  BY <1>10, FS_EmptySet, FS_Singleton
<1>12. /\ link_map_'[id] = new_map /\ links'[id] = 0
       /\ \A o \in ObjIds : o # id => link_map_'[o] = link_map_[o] /\ links'[o] = links[o]
  BY <1>1, <1>7, <1>8
<1>13. 1 \in 0..(2 * Half - 1)
  BY Bounds
<1>14. \A o \in ObjIds : IsFiniteSet(link_map_'[o])
  BY <1>11, <1>12 DEF KeyInv
<1>15. \A o \in objs' : o[1] = "server" =>
          SETLINKKEY(o, 0) \in link_map_'[o] /\ Cardinality(link_map_'[o]) = links'[o] + 1
  <2>1. type = "server" => SETLINKKEY(id, 0) \in new_map /\ Cardinality(new_map) = 0 + 1
    <3>1. \A x : Cardinality({x}) = 1
      BY FS_Singleton
    <3>2. type = "server" => new_map = {SETLINKKEY(id, 0)}
      OBVIOUS
    <3>3. 0 + 1 = 1
      OBVIOUS
    <3> HIDE DEF new_map
    <3> QED BY <3>1, <3>2, <3>3
  <2>2. \A o \in objs : o[1] = "server" =>
          SETLINKKEY(o, 0) \in link_map_[o] /\ Cardinality(link_map_[o]) = links[o] + 1
    BY DEF KeyInv, NumberedApart
  <2> HIDE DEF new_map
  <2> QED BY <1>1, <1>4, <1>7, <1>8, <1>12, <2>1, <2>2
<1>16. generate_' \in [ObjIds -> 0..(2 * Half - 1)] /\ links' \in [ObjIds -> Int]
  <2>1. generate_' = [generate_ EXCEPT ![id] = 1] /\ links' = [links EXCEPT ![id] = 0]
    BY <1>1
  <2>2. generate_' \in [ObjIds -> 0..(2 * Half - 1)]
    <3> DEFINE ids == 0..(2 * Half - 1)
    <3>1. 1 \in ids /\ generate_ \in [ObjIds -> ids]
      BY <1>8, <1>13
    <3> HIDE DEF ids
    <3>2. generate_' \in [ObjIds -> ids]
      BY <2>1, <3>1
    <3> QED BY <3>2 DEF ids
  <2>3. links' \in [ObjIds -> Int]
    <3>1. links \in [ObjIds -> Int] /\ links' = [links EXCEPT ![id] = 0] /\ 0 \in Int
      BY <1>8, <2>1
    <3>2. \A o \in ObjIds : links'[o] \in Int
      BY <1>7, <3>1
    <3>3. links' = [o \in ObjIds |-> links'[o]]
      BY <3>1
    <3> QED BY <3>2, <3>3
  <2> QED BY <2>2, <2>3
<1>17. link_map_' \in [ObjIds -> SUBSET LinkKey]
  <2>1. link_map_' = [link_map_ EXCEPT ![id] = new_map]
    BY <1>1
  <2> HIDE DEF new_map
  <2> QED BY <1>8, <1>11, <2>1
<1>18. obj_idx_indx_' \in 0..(Counters - 1) /\ objs' \subseteq ObjIds /\ added' \in Int
  BY <1>1, <1>7, <1>8
<1>19. NumberedApart'
  BY <1>9, <1>15 DEF NumberedApart
<1> QED BY <1>9, <1>14, <1>16, <1>17, <1>18, <1>19 DEF KeyInv

LEMMA RemoveObjStep ==
    ASSUME KeyInv, NEW o \in objs, RemoveObj(o)
    PROVE  KeyInv'
<1>1. /\ objs' = objs \ {o} /\ added' = added - 1
      /\ link_map_' = [link_map_ EXCEPT ![o] = {}] /\ links' = [links EXCEPT ![o] = 0]
      /\ UNCHANGED <<obj_idx_indx_, generate_>>
  BY DEF RemoveObj
<1>2. /\ objs \subseteq ObjIds /\ IsFiniteSet(objs) /\ Cardinality(objs) = added /\ added \in Int
      /\ links \in [ObjIds -> Int] /\ link_map_ \in [ObjIds -> SUBSET LinkKey]
  BY DEF KeyInv, NumberedApart
<1>3. IsFiniteSet(objs') /\ Cardinality(objs') = added'
  BY <1>1, <1>2, FS_RemoveElement
<1>4. \A p \in ObjIds : p # o => link_map_'[p] = link_map_[p] /\ links'[p] = links[p]
  BY <1>1, <1>2
<1>5. \A p \in ObjIds : IsFiniteSet(link_map_'[p])
  <2>1. link_map_'[o] = {}
    BY <1>1, <1>2
  <2> QED BY <1>4, <2>1, FS_EmptySet DEF KeyInv
<1>6. \A p \in objs' : p[1] = "server" =>
          SETLINKKEY(p, 0) \in link_map_'[p] /\ Cardinality(link_map_'[p]) = links'[p] + 1
  BY <1>1, <1>2, <1>4 DEF KeyInv, NumberedApart
<1>7. links' \in [ObjIds -> Int] /\ link_map_' \in [ObjIds -> SUBSET LinkKey]
  BY <1>1, <1>2
<1> QED BY <1>1, <1>2, <1>3, <1>5, <1>6, <1>7 DEF KeyInv, NumberedApart

\* One server's map and number of links change together.
LEMMA MapStep ==
    ASSUME KeyInv, NEW o \in objs, o[1] = "server", NEW M \in SUBSET LinkKey, NEW n \in Int,
           NEW g \in [ObjIds -> 0..(2 * Half - 1)],
           IsFiniteSet(M), Cardinality(M) = n + 1, SETLINKKEY(o, 0) \in M,
           link_map_' = [link_map_ EXCEPT ![o] = M], links' = [links EXCEPT ![o] = n],
           generate_' = g, UNCHANGED <<obj_idx_indx_, objs, added>>
    PROVE  KeyInv'
<1>1. /\ objs \subseteq ObjIds /\ links \in [ObjIds -> Int] /\ link_map_ \in [ObjIds -> SUBSET LinkKey]
  BY DEF KeyInv
<1>2. /\ link_map_'[o] = M /\ links'[o] = n
      /\ \A p \in ObjIds : p # o => link_map_'[p] = link_map_[p] /\ links'[p] = links[p]
  BY <1>1
<1>3. \A p \in ObjIds : IsFiniteSet(link_map_'[p])
  BY <1>2 DEF KeyInv
<1>4. \A p \in objs : p[1] = "server" =>
          SETLINKKEY(p, 0) \in link_map_'[p] /\ Cardinality(link_map_'[p]) = links'[p] + 1
  BY <1>1, <1>2 DEF KeyInv, NumberedApart
<1>5. links' \in [ObjIds -> Int] /\ link_map_' \in [ObjIds -> SUBSET LinkKey]
  BY <1>1
<1> QED BY <1>3, <1>4, <1>5 DEF KeyInv, NumberedApart

LEMMA OnAcceptStep ==
    ASSUME KeyInv, NEW o \in objs, OnAccept(o)
    PROVE  KeyInv'
<1> DEFINE next(k) == (generate_[o] + k) % (2 * Half)
           new == [k \in 1..(2 * Half) |-> Or(SETLINKKEY(o, 0), next(k))]
           key == FirstFree(new, link_map_[o])
<1>1. /\ o[1] = "server" /\ links[o] < MaxLinks
      /\ generate_' = [generate_ EXCEPT ![o] = key[2]]
      /\ link_map_' = [link_map_ EXCEPT ![o] = @ \cup {key}]
      /\ links' = [links EXCEPT ![o] = @ + 1]
      /\ UNCHANGED <<obj_idx_indx_, objs, added>>
  BY DEF OnAccept
<1>2. \E k \in 1..(2 * Half) : new[k] \notin link_map_[o]
  BY <1>1, FreeKey
<1>3. DOMAIN new = 1..(2 * Half) /\ 2 * Half \in Nat
  BY Bounds
<1>4. key \notin link_map_[o] /\ \E k \in 1..(2 * Half) : key = new[k]
  <2> HIDE DEF new
  <2> QED BY <1>2, <1>3, FirstFreeIsFree
<1>5. PICK k \in 1..(2 * Half) : key = Or(SETLINKKEY(o, 0), next(k))
  BY <1>4
<1>6. /\ o \in ObjIds /\ generate_ \in [ObjIds -> 0..(2 * Half - 1)] /\ links \in [ObjIds -> Int]
      /\ link_map_ \in [ObjIds -> SUBSET LinkKey]
      /\ IsFiniteSet(link_map_[o]) /\ SETLINKKEY(o, 0) \in link_map_[o]
      /\ Cardinality(link_map_[o]) = links[o] + 1
  BY <1>1 DEF KeyInv, NumberedApart
<1>7. next(k) \in 0..(2 * Half - 1)
  <2>1. generate_[o] + k \in Nat
    BY <1>3, <1>6
  <2> QED BY <2>1, Bounds, InRange
<1>8. key \in LinkKey /\ key[2] \in 0..(2 * Half - 1)
  BY <1>5, <1>6, <1>7 DEF Or, SETLINKKEY, LinkKey
<1> HIDE DEF key
<1>9. generate_' \in [ObjIds -> 0..(2 * Half - 1)]
  BY <1>1, <1>6, <1>8
<1>10. /\ IsFiniteSet(link_map_[o] \cup {key})
       /\ Cardinality(link_map_[o] \cup {key}) = (links[o] + 1) + 1
  BY <1>4, <1>6, FS_AddElement
<1>11. /\ link_map_[o] \cup {key} \in SUBSET LinkKey /\ links[o] + 1 \in Int
       /\ SETLINKKEY(o, 0) \in link_map_[o] \cup {key}
  BY <1>6, <1>8
<1> QED BY <1>1, <1>9, <1>10, <1>11, MapStep

LEMMA OnStopLinkStep ==
    ASSUME KeyInv, NEW o \in objs, NEW key \in link_map_[o], OnStopLink(o, key)
    PROVE  KeyInv'
<1>1. /\ key # SETLINKKEY(o, 0)
      /\ link_map_' = [link_map_ EXCEPT ![o] = @ \ {key}] /\ links' = [links EXCEPT ![o] = @ - 1]
      /\ UNCHANGED <<obj_idx_indx_, objs, added, generate_>>
  BY DEF OnStopLink
<1>2. /\ o \in ObjIds /\ generate_ \in [ObjIds -> 0..(2 * Half - 1)] /\ links \in [ObjIds -> Int]
      /\ objs \subseteq ObjIds
      /\ link_map_ \in [ObjIds -> SUBSET LinkKey] /\ IsFiniteSet(link_map_[o])
  BY DEF KeyInv
<1>3. IsFiniteSet(link_map_[o] \ {key}) /\ Cardinality(link_map_[o] \ {key}) = Cardinality(link_map_[o]) - 1
  BY <1>2, FS_RemoveElement
<1>4. link_map_[o] \ {key} \in SUBSET LinkKey /\ links[o] - 1 \in Int /\ links[o] \in Int
  BY <1>2
<1>5. CASE o[1] = "server"
  <2>1. SETLINKKEY(o, 0) \in link_map_[o] \ {key} /\ Cardinality(link_map_[o]) = links[o] + 1
    BY <1>1, <1>5 DEF KeyInv, NumberedApart
  <2>2. Cardinality(link_map_[o] \ {key}) = (links[o] - 1) + 1
    BY <1>3, <1>4, <2>1
  <2> QED BY <1>1, <1>2, <1>3, <1>4, <1>5, <2>1, <2>2, MapStep
<1>6. CASE o[1] # "server"
  <2>1. \A p \in ObjIds : p # o => link_map_'[p] = link_map_[p] /\ links'[p] = links[p]
    BY <1>1, <1>2
  <2>2. link_map_'[o] = link_map_[o] \ {key}
    BY <1>1, <1>2
  <2>3. \A p \in ObjIds : IsFiniteSet(link_map_'[p])
    BY <1>3, <2>1, <2>2 DEF KeyInv
  <2>4. \A p \in objs : p[1] = "server" =>
          SETLINKKEY(p, 0) \in link_map_'[p] /\ Cardinality(link_map_'[p]) = links'[p] + 1
    BY <1>2, <1>6, <2>1 DEF KeyInv, NumberedApart
  <2>5. links' \in [ObjIds -> Int] /\ link_map_' \in [ObjIds -> SUBSET LinkKey]
    BY <1>1, <1>2, <1>4
  <2> QED BY <1>1, <2>3, <2>4, <2>5 DEF KeyInv, NumberedApart
<1> QED BY <1>5, <1>6

LEMMA KeyStep == KeyInv /\ [NextKeys]_keyVars => KeyInv'
<1> SUFFICES ASSUME KeyInv, [NextKeys]_keyVars PROVE KeyInv'
  OBVIOUS
<1>1. CASE UNCHANGED keyVars
  BY <1>1 DEF keyVars, KeyInv, NumberedApart
<1>2. ASSUME NEW type \in Types, AddObj(type) PROVE KeyInv'
  BY <1>2, AddObjStep
<1>3. ASSUME NEW o \in objs, RemoveObj(o) PROVE KeyInv'
  BY <1>3, RemoveObjStep
<1>4. ASSUME NEW o \in objs, OnAccept(o) PROVE KeyInv'
  BY <1>4, OnAcceptStep
<1>5. ASSUME NEW o \in objs, NEW key \in link_map_[o], OnStopLink(o, key) PROVE KeyInv'
  BY <1>5, OnStopLinkStep
<1> QED BY <1>1, <1>2, <1>3, <1>4, <1>5 DEF NextKeys

\* However often obj_idx_indx_ and generate_ wrap around, GetNextObjId and GetNextLinkId never
\* give a live object's or link's number again, whatever links a negative id has made permanent.
THEOREM KeysNumberedApart == SpecKeys => []NumberedApart
<1>1. KeyInv => NumberedApart
  BY DEF KeyInv
<1> QED BY <1>1, KeyInit, KeyStep, PTL DEF SpecKeys
-----------------------------------------------------------------------------
(* LoopStop: a handle of open Libuv is signalled as long as its queue is    *)
(* not empty, so a scan leaves nothing in the queues it has passed but what *)
(* came since; on_stop_ is the last handle, so all queues are passed when   *)
(* its callback closes the handles.  The thread ends when nothing is left   *)
(* in the loop, and only then does Stop go on to close it.                  *)

\* Nothing but what came since is left in the queues the scan has passed.
PassedEmpty == loop = "scan" => \A h \in Queues : PlaceOf(h) < place => queue[h] \subseteq passed

LoopInv ==
    /\ open = Names \/ open = {}
    /\ queue \in [Queues -> SUBSET Requests]
    /\ place \in 1..5
    /\ open = Names => (\A h \in Queues : queue[h] # {} => h \in pending) /\ PassedEmpty
    /\ NothingLeftBehind
    /\ loop = "ended" => open = {} /\ sockets = 0 /\ ~closing
    /\ stopper = "close" => loop = "ended"
    /\ LoopIsEmpty

LEMMA HandlePlaces ==
    /\ Len(Handles) = 5
    /\ Handles[1] = "evt_regist_" /\ Handles[2] = "obj_async_" /\ Handles[3] = "link_write_"
    /\ Handles[4] = "link_close_" /\ Handles[5] = "on_stop_"
    /\ PlaceOf("obj_async_") = 2 /\ PlaceOf("link_write_") = 3 /\ PlaceOf("link_close_") = 4
    /\ Queues \subseteq Names /\ "on_stop_" \in Names /\ Names # {}
<1>1. /\ Len(Handles) = 5
      /\ Handles[1] = "evt_regist_" /\ Handles[2] = "obj_async_" /\ Handles[3] = "link_write_"
      /\ Handles[4] = "link_close_" /\ Handles[5] = "on_stop_"
  BY DEF Handles
<1>2. 1..Len(Handles) = {1, 2, 3, 4, 5}
  BY <1>1
<1>3. /\ \A i \in 1..Len(Handles) : Handles[i] = "obj_async_" <=> i = 2
      /\ \A i \in 1..Len(Handles) : Handles[i] = "link_write_" <=> i = 3
      /\ \A i \in 1..Len(Handles) : Handles[i] = "link_close_" <=> i = 4
  BY <1>1, <1>2
<1>4. PlaceOf("obj_async_") = 2 /\ PlaceOf("link_write_") = 3 /\ PlaceOf("link_close_") = 4
  BY <1>2, <1>3 DEF PlaceOf
<1>5. Names = {"evt_regist_", "obj_async_", "link_write_", "link_close_", "on_stop_"}
  BY <1>1, <1>2 DEF Names
<1> QED BY <1>1, <1>4, <1>5 DEF Queues

LEMMA LoopInit == InitLoop => LoopInv
BY HandlePlaces DEF InitLoop, LoopInv, PassedEmpty, NothingLeftBehind, LoopIsEmpty

\* A key is queued: its handle is signalled, or it is counted among those that came too late.
LEMMA WakeupKeeps ==
    ASSUME LoopInv, NEW h \in Queues, NEW k \in Requests, Wakeup(h, k)
    PROVE  LoopInv'
<1>1. /\ queue' \in [Queues -> SUBSET Requests] /\ queue'[h] = queue[h] \cup {k}
      /\ \A g \in Queues : g # h => queue'[g] = queue[g]
      /\ UNCHANGED <<open, sockets, closing, loop, place, stopper, loop_close>>
      /\ pending \subseteq pending' /\ passed \subseteq passed'
  BY DEF LoopInv, Wakeup, Signalled
<1>2. CASE open = Names
  <2>1. h \in pending'
    BY <1>2, HandlePlaces DEF Wakeup, Signalled
  <2>2. loop = "scan" /\ PlaceOf(h) < place => k \in passed'
    BY DEF Wakeup
  <2>3. PassedEmpty'
    BY <1>1, <1>2, <2>2 DEF LoopInv, PassedEmpty
  <2>4. NothingLeftBehind'
    BY <1>1, <1>2, HandlePlaces DEF NothingLeftBehind
  <2> QED BY <1>1, <1>2, <2>1, <2>3, <2>4, HandlePlaces DEF LoopInv, LoopIsEmpty
<1>3. CASE open = {}
  <2>1. k \in passed'
    BY <1>3 DEF Wakeup
  <2>2. NothingLeftBehind'
    BY <1>1, <1>3, <2>1 DEF LoopInv, NothingLeftBehind
  <2> QED BY <1>1, <1>3, <2>2, HandlePlaces DEF LoopInv, LoopIsEmpty
<1> QED BY <1>2, <1>3 DEF LoopInv

\* The scan goes on to the next handle.
LEMMA VisitKeeps ==
    ASSUME LoopInv, Visit
    PROVE  LoopInv'
<1> DEFINE h == Handles[place]
<1>1. place \in 1..5 /\ loop = "scan" /\ UNCHANGED <<stopper, loop_close, passed>>
  BY DEF LoopInv, Visit
<1>2. /\ place < 5 => place' = place + 1 /\ loop' = "scan"
      /\ place = 5 => place' = 1 /\ loop' = "poll"
  BY <1>1, HandlePlaces DEF Visit
<1>3. place' \in 1..5 /\ loop' # "ended" /\ stopper # "close" /\ LoopIsEmpty'
  BY <1>1, <1>2 DEF LoopInv, LoopIsEmpty
<1>4. CASE h \notin pending \cap open
  <2>1. UNCHANGED <<open, queue>> /\ pending' = pending \cap open
    BY <1>4 DEF Visit
  <2>2. NothingLeftBehind'
    BY <1>1, <2>1 DEF LoopInv, NothingLeftBehind
  <2>3. ASSUME open = Names
        PROVE  (\A g \in Queues : queue'[g] # {} => g \in pending') /\ PassedEmpty'
    <3>1. \A g \in Queues : queue'[g] # {} => g \in pending'
      BY <2>1, <2>3, HandlePlaces DEF LoopInv
    <3>2. h \in Queues => queue[h] = {}
      BY <1>4, <2>3, HandlePlaces DEF LoopInv
    <3>3. ASSUME loop' = "scan", NEW g \in Queues, PlaceOf(g) < place' PROVE queue'[g] \subseteq passed'
      <4>1. place < 5 /\ place' = place + 1
        BY <1>1, <1>2, <3>3
      <4>2. PlaceOf(g) < place \/ g = h
        BY <1>1, <3>3, <4>1, HandlePlaces DEF Queues
      <4> QED BY <1>1, <2>1, <2>3, <3>2, <3>3, <4>2 DEF LoopInv, PassedEmpty
    <3> QED BY <3>1, <3>3 DEF PassedEmpty
  <2> QED BY <1>1, <1>3, <2>1, <2>2, <2>3 DEF LoopInv
<1>5. CASE h \in pending \cap open
  <2>1. Callback(h) /\ pending' = pending \ {h} /\ open = Names
    BY <1>5 DEF Visit, LoopInv
  <2>2. CASE h \in Queues /\ queue' = [queue EXCEPT ![h] = {}] /\ UNCHANGED open
    <3>1. /\ queue' \in [Queues -> SUBSET Requests] /\ queue'[h] = {}
          /\ \A g \in Queues : g # h => queue'[g] = queue[g]
      BY <2>2 DEF LoopInv
    <3>2. \A g \in Queues : queue'[g] # {} => g \in pending'
      BY <2>1, <3>1 DEF LoopInv
    <3>3. NothingLeftBehind'
      BY <2>1, <2>2, HandlePlaces DEF NothingLeftBehind
    <3>4. ASSUME loop' = "scan", NEW g \in Queues, PlaceOf(g) < place' PROVE queue'[g] \subseteq passed'
      <4>1. place < 5 /\ place' = place + 1
        BY <1>1, <1>2, <3>4
      <4>2. PlaceOf(g) < place \/ g = h
        BY <1>1, <3>4, <4>1, HandlePlaces DEF Queues
      <4> QED BY <1>1, <2>1, <3>1, <3>4, <4>2 DEF LoopInv, PassedEmpty
    <3>5. PassedEmpty'
      BY <3>4 DEF PassedEmpty
    <3> QED BY <1>1, <1>3, <2>1, <2>2, <3>1, <3>2, <3>3, <3>5 DEF LoopInv
  <2>3. CASE h = "on_stop_" /\ OnStop /\ UNCHANGED queue
    <3>1. place = 5 /\ loop' = "poll"
      BY <1>1, <1>2, <2>3, HandlePlaces
    <3>2. \A g \in Queues : queue[g] \subseteq passed
      BY <1>1, <2>1, <3>1, HandlePlaces DEF LoopInv, PassedEmpty, Queues
    <3>3. NothingLeftBehind' /\ open' = {}
      BY <1>1, <2>3, <3>2 DEF NothingLeftBehind, OnStop
    <3> QED BY <1>1, <1>3, <2>3, <3>3, HandlePlaces DEF LoopInv
  <2> QED BY <2>1, <2>2, <2>3 DEF Callback
<1> QED BY <1>4, <1>5

LEMMA LoopKeeps == LoopInv /\ [NextLoop]_stopVars => LoopInv'
<1> SUFFICES ASSUME LoopInv, [NextLoop]_stopVars PROVE LoopInv'
  OBVIOUS
<1>1. CASE NetStart
  BY <1>1 DEF NetStart, LoopInv, PassedEmpty, NothingLeftBehind, LoopIsEmpty
<1>2. CASE NetStop
  BY <1>2 DEF NetStop, Signalled, LoopInv, PassedEmpty, NothingLeftBehind, LoopIsEmpty
<1>3. CASE JoinLoop
  BY <1>3 DEF JoinLoop, LoopInv, PassedEmpty, NothingLeftBehind, LoopIsEmpty
<1>4. CASE uv_loop_close
  BY <1>4 DEF uv_loop_close, LoopInv, PassedEmpty, NothingLeftBehind, LoopIsEmpty
<1>5. ASSUME NEW h \in Queues, NEW k \in Requests, Wakeup(h, k) PROVE LoopInv'
  BY <1>5, WakeupKeeps
<1>6. CASE uv_run_temp
  BY <1>6 DEF uv_run_temp, LoopInv, PassedEmpty, NothingLeftBehind, LoopIsEmpty
<1>7. CASE Woken
  <2>1. UNCHANGED <<open, pending, queue, sockets, closing, stopper, loop_close>>
        /\ loop' = "scan" /\ place' = 1 /\ 1 \in 1..5 /\ loop = "poll"
    BY <1>7 DEF Woken
  <2>2. NothingLeftBehind'
    BY <1>7, <2>1 DEF Woken, LoopInv, NothingLeftBehind
  <2>3. PassedEmpty'
    BY <2>1, HandlePlaces DEF PassedEmpty, Queues
  <2> QED BY <2>1, <2>2, <2>3 DEF LoopInv, LoopIsEmpty
<1>8. CASE Visit
  BY <1>8, VisitKeeps
<1>9. CASE EndIteration
  BY <1>9 DEF EndIteration, LoopInv, PassedEmpty, NothingLeftBehind, LoopIsEmpty
<1>10. CASE SocketEvent
  BY <1>10 DEF SocketEvent, LoopInv, PassedEmpty, NothingLeftBehind, LoopIsEmpty
<1>11. CASE UNCHANGED stopVars
  BY <1>11 DEF stopVars, LoopInv, PassedEmpty, NothingLeftBehind, LoopIsEmpty
<1> QED BY <1>1, <1>2, <1>3, <1>4, <1>5, <1>6, <1>7, <1>8, <1>9, <1>10, <1>11
        DEF NextLoop, StopStep, LoopStep

\* What other threads queue before the scan that stops the loop is served (Libuv::Libuv makes
\* on_stop_ the last handle), and uv_loop_close finds the loop empty, for any keys and sockets.
THEOREM LoopServesBeforeStop == SpecLoop => []LoopServed
<1>1. LoopInv => LoopServed
  BY DEF LoopInv, LoopServed
<1> QED BY <1>1, LoopInit, LoopKeeps, PTL DEF SpecLoop
-----------------------------------------------------------------------------
(* Threads: each object has one thread at a time, whose slot holds its id   *)
(* until ClearThreadInfo gives it back; a slot that holds an id belongs to  *)
(* a thread that runs or was just joined, so the scan for a new id takes    *)
(* a free one.  With a single caller no id is used again between Joined and *)
(* ClearThreadInfo, which is what two callers would allow.                  *)

Alive(t) == thr[t].pc # "none"

ThreadTypes ==
    /\ queue_ \in [Slots -> Tids \cup {Free}]
    /\ thr \in [Tids -> [obj : Objects \cup {NULL}, pc : {"none", "created", "running", "over"},
                         slot : Slots \cup {NULL}]]
    /\ caller \in [Callers -> [pc : {"idle", "join", "clear"}, obj : Objects \cup {NULL},
                               tid : Tids \cup {NULL, Free}]]

\* An object's thread: one at a time, and there is a Join for it, to come or under way.
OneThread ==
    \A t \in Tids : Alive(t) =>
        /\ thr[t].obj \in Objects
        /\ \A u \in Tids : Alive(u) /\ thr[u].obj = thr[t].obj => u = t
        /\ \/ ~obj[thr[t].obj].is_joined_
           \/ \E c \in Callers : caller[c].pc = "join" /\ caller[c].obj = thr[t].obj

\* The slot of a thread that runs, in the table and in its object.
OwnSlot ==
    \A t \in Tids :
        /\ thr[t].pc = "created" => obj[thr[t].obj].thread_ptr_ = NULL
        /\ Running(t) =>
             thr[t].slot \in Slots /\ queue_[thr[t].slot] = t /\ obj[thr[t].obj].thread_ptr_ = thr[t].slot

\* An object with a slot has a thread that runs, or was just joined.
PointerInUse ==
    \A o \in Objects : obj[o].thread_ptr_ # NULL =>
        \/ \E t \in Tids : Running(t) /\ thr[t].obj = o
        \/ \E c \in Callers : caller[c].pc = "clear" /\ caller[c].obj = o

\* So has a slot that is taken.
SlotInUse ==
    \A s \in Slots : queue_[s] # Free =>
        \/ Running(queue_[s]) /\ thr[queue_[s]].slot = s
        \/ \E c \in Callers : /\ caller[c].pc = "clear" /\ caller[c].tid = queue_[s]
                              /\ obj[caller[c].obj].thread_ptr_ = s

\* What a caller knows: the thread it waits for, and the slot it will give back.
CallerKnows ==
    \A c \in Callers :
        /\ caller[c].pc = "join" =>
             /\ caller[c].tid \in Tids /\ Running(caller[c].tid)
             /\ thr[caller[c].tid].obj = caller[c].obj /\ obj[caller[c].obj].is_joined_
        /\ caller[c].pc = "clear" =>
             /\ caller[c].tid \in Tids /\ ~Alive(caller[c].tid)
             /\ caller[c].obj \in Objects /\ obj[caller[c].obj].is_joined_
             /\ obj[caller[c].obj].thread_ptr_ \in Slots
             /\ queue_[obj[caller[c].obj].thread_ptr_] = caller[c].tid

SlotInv == ThreadTypes /\ OneThread /\ OwnSlot /\ PointerInUse /\ SlotInUse /\ CallerKnows

ObjTypes == obj \in [Objects -> [is_joined_ : BOOLEAN, thread_ptr_ : Slots \cup {NULL}, twice : BOOLEAN]]

ThreadInv == ObjTypes /\ (StartedOnce => SlotInv)

OneCaller == \A c, d \in Callers : c = d

\* The scan ends at a free slot, or at none.
LEMMA ScanFindsFree ==
    ASSUME NEW i
    PROVE  Scan(i) \in Slots => queue_[Scan(i)] = Free
<1> DEFINE at(k) == (i + k) % (QUEUEU_MASK + 1)
           stops == {k \in 0..QUEUEU_MASK : at(k) \notin Slots \/ queue_[at(k)] = Free}
           K == CHOOSE k \in stops : \A l \in stops : k <= l
<1>1. Scan(i) = IF stops = {} THEN NULL ELSE IF at(K) \in Slots THEN at(K) ELSE QUEUUE_SIZE
  BY Zenon DEF Scan
<1>2. NULL \notin Slots /\ QUEUUE_SIZE \notin Slots /\ QUEUEU_MASK \in Nat
  BY ThreadConstants DEF Slots
<1>3. ASSUME stops # {} PROVE K \in stops
  <2>1. stops \subseteq Nat
    BY <1>2
  <2> HIDE DEF stops
  <2>2. PICK k \in stops : \A j \in stops : ~(j < k)
    BY <1>3, <2>1, LeastNumber
  <2>3. \A j \in stops : k <= j
    BY <2>1, <2>2
  <2> QED BY <2>3
<1>4. ASSUME NEW k \in stops, at(k) \in Slots PROVE queue_[at(k)] = Free
  BY <1>4
<1> HIDE DEF at, stops, K
<1> QED BY <1>1, <1>2, <1>3, <1>4

LEMMA ThreadsInit == InitThreads => ThreadInv
<1> SUFFICES ASSUME InitThreads PROVE ThreadInv
  OBVIOUS
<1>1. ObjTypes /\ \A o \in Objects : obj[o].thread_ptr_ = NULL
  BY DEF InitThreads, ObjTypes
<1>2. /\ \A t \in Tids : thr[t].pc = "none"
      /\ \A c \in Callers : caller[c].pc = "idle"
      /\ \A s \in Slots : queue_[s] = Free
  BY DEF InitThreads, None
<1>3. ThreadTypes
  BY DEF InitThreads, ThreadTypes, None
<1>4. OneThread /\ OwnSlot /\ PointerInUse /\ SlotInUse /\ CallerKnows
  BY <1>1, <1>2 DEF OneThread, OwnSlot, PointerInUse, SlotInUse, CallerKnows, Alive, Running
<1> QED BY <1>1, <1>3, <1>4 DEF ThreadInv, SlotInv

\* An object is not started twice again.
LEMMA StaysOnce ==
    ASSUME ObjTypes, NextThreads, StartedOnce'
    PROVE  StartedOnce
<1>1. failed = "no"
  BY DEF NextThreads
<1>2. ASSUME NEW o \in Objects, obj[o].twice PROVE obj'[o].twice
  <2>1. \A c \in Callers, p \in Objects : Start(c, p) => obj'[o].twice
    BY <1>2 DEF Start, ObjTypes
  <2>2. \A c \in Callers, p \in Objects : Join(c, p) => obj'[o].twice
    BY <1>2 DEF Join, ObjTypes
  <2>3. \A c \in Callers : Joined(c) => obj'[o].twice
    BY <1>2 DEF Joined
  <2>4. \A c \in Callers : ClearThreadInfo(c) => obj'[o].twice
    BY <1>2 DEF ClearThreadInfo, ObjTypes
  <2>5. \A t \in Tids : thread_start(t) => obj'[o].twice
    <3> SUFFICES ASSUME NEW t \in Tids, thread_start(t) PROVE obj'[o].twice
      OBVIOUS
    <3> DEFINE p == thr[t].obj
               s == InitCurrentThreadInfo(t)
    <3>1. obj' = obj \/ obj' = [obj EXCEPT ![p].thread_ptr_ = s]
      BY Zenon DEF thread_start
    <3> HIDE DEF p, s
    <3> QED BY <1>2, <3>1 DEF ObjTypes
  <2>6. \A t \in Tids : Over(t) => obj'[o].twice
    BY <1>2 DEF Over
  <2> QED BY <2>1, <2>2, <2>3, <2>4, <2>5, <2>6 DEF NextThreads
<1> QED BY <1>1, <1>2 DEF StartedOnce
LEMMA ThreadNames == NULL \notin Objects /\ NULL \notin Tids /\ NULL \notin Slots /\ Free \notin Tids
BY ThreadConstants DEF Slots, Free

\* A thread starts for an object that has none.
LEMMA StartKeeps ==
    ASSUME ObjTypes, SlotInv, OneCaller, StartedOnce', NEW c \in Callers, NEW o \in Objects, Start(c, o)
    PROVE  SlotInv'
<1>1. PICK t \in Tids :
        /\ thr[t].pc = "none"
        /\ thr' = [thr EXCEPT ![t] = [obj |-> o, pc |-> "created", slot |-> NULL]]
  BY DEF Start
<1>2. /\ caller[c].pc = "idle" /\ UNCHANGED <<queue_, caller>>
      /\ obj' = [obj EXCEPT ![o].is_joined_ = FALSE, ![o].twice = @ \/ ~obj[o].is_joined_]
  BY DEF Start
<1>3. ThreadTypes'
  BY <1>1, <1>2 DEF SlotInv, ThreadTypes
<1>4. /\ obj'[o].is_joined_ = FALSE /\ obj'[o].thread_ptr_ = obj[o].thread_ptr_
      /\ obj'[o].twice = (obj[o].twice \/ ~obj[o].is_joined_)
      /\ \A p \in Objects : p # o => obj'[p] = obj[p]
  BY <1>2 DEF ObjTypes
<1>5. obj[o].is_joined_
  BY <1>4 DEF StartedOnce
<1>6. \A d \in Callers : caller[d].pc = "idle"
  BY <1>2 DEF OneCaller
<1>7. \A u \in Tids : Alive(u) => thr[u].obj # o
  BY <1>5, <1>6 DEF SlotInv, OneThread
<1>8. /\ thr'[t].obj = o /\ thr'[t].pc = "created"
      /\ \A u \in Tids : u # t => thr'[u] = thr[u]
      /\ ~Alive(t) /\ Alive(t)' /\ ~Running(t) /\ ~Running(t)'
      /\ \A u \in Tids : u # t => (Alive(u)' <=> Alive(u)) /\ (Running(u)' <=> Running(u))
  BY <1>1 DEF SlotInv, ThreadTypes, Alive, Running
<1>9. \A u \in Tids : Running(u) => Alive(u)
  BY DEF Alive, Running
<1>10. obj[o].thread_ptr_ = NULL
  BY <1>6, <1>7, <1>9 DEF SlotInv, PointerInUse
<1>a. ASSUME NEW u \in Tids, Alive(u)
      PROVE  /\ u # t /\ thr[u].obj \in Objects /\ obj'[thr[u].obj] = obj[thr[u].obj]
             /\ ~obj[thr[u].obj].is_joined_
             /\ \A v \in Tids : Alive(v) /\ thr[v].obj = thr[u].obj => v = u
  <2>1. thr[u].obj # o /\ u # t /\ thr[u].obj \in Objects
    BY <1>a, <1>7, <1>8 DEF SlotInv, OneThread
  <2> QED BY <2>1, <1>a, <1>4, <1>6 DEF SlotInv, OneThread
<1>11. OneThread'
  <2> SUFFICES ASSUME NEW u \in Tids, Alive(u)'
               PROVE  /\ thr'[u].obj \in Objects /\ ~obj'[thr'[u].obj].is_joined_
                      /\ \A v \in Tids : Alive(v)' /\ thr'[v].obj = thr'[u].obj => v = u
    BY <1>2 DEF OneThread
  <2>1. CASE u = t
    <3>1. ASSUME NEW v \in Tids, Alive(v)', thr'[v].obj = thr'[u].obj PROVE v = u
      BY <2>1, <3>1, <1>7, <1>8
    <3> QED BY <2>1, <3>1, <1>4, <1>8
  <2>2. CASE u # t
    <3>1. Alive(u) /\ thr'[u] = thr[u]
      BY <2>2, <1>8
    <3>2. ASSUME NEW v \in Tids, Alive(v)', thr'[v].obj = thr'[u].obj PROVE v = u
      BY <3>1, <3>2, <1>7, <1>8, <1>a
    <3> QED BY <3>1, <3>2, <1>a
  <2> QED BY <2>1, <2>2
<1>12. OwnSlot'
  <2> SUFFICES ASSUME NEW u \in Tids
               PROVE  /\ thr'[u].pc = "created" => obj'[thr'[u].obj].thread_ptr_ = NULL
                      /\ Running(u)' => /\ thr'[u].slot \in Slots /\ queue_[thr'[u].slot] = u
                                        /\ obj'[thr'[u].obj].thread_ptr_ = thr'[u].slot
    BY <1>2 DEF OwnSlot
  <2>1. CASE u = t
    BY <2>1, <1>4, <1>8, <1>10
  <2>2. CASE u # t
    <3>1. thr'[u] = thr[u] /\ (Running(u)' <=> Running(u))
      BY <2>2, <1>8
    <3> QED BY <3>1, <1>9, <1>a DEF SlotInv, OwnSlot, Alive
  <2> QED BY <2>1, <2>2
<1>13. PointerInUse'
  <2> SUFFICES ASSUME NEW p \in Objects, obj'[p].thread_ptr_ # NULL
               PROVE  \E u \in Tids : Running(u)' /\ thr'[u].obj = p
    BY DEF PointerInUse
  <2>1. obj[p].thread_ptr_ # NULL
    BY <1>4, <1>10
  <2>2. PICK u \in Tids : Running(u) /\ thr[u].obj = p
    BY <2>1, <1>6 DEF SlotInv, PointerInUse
  <2> QED BY <2>2, <1>8
<1>14. SlotInUse'
  <2>1. \A s \in Slots : queue_[s] # Free => Running(queue_[s]) /\ thr[queue_[s]].slot = s
    BY <1>6 DEF SlotInv, SlotInUse
  <2>2. \A s \in Slots : queue_[s] # Free => queue_[s] \in Tids
    BY DEF SlotInv, ThreadTypes
  <2> QED BY <2>1, <2>2, <1>2, <1>8 DEF SlotInUse
<1>15. CallerKnows'
  BY <1>2, <1>6 DEF CallerKnows
<1> QED BY <1>3, <1>11, <1>12, <1>13, <1>14, <1>15 DEF SlotInv

\* A new thread takes a free slot.
LEMMA ThreadStartKeeps ==
    ASSUME ObjTypes, SlotInv, StartedOnce', NEW t \in Tids, thread_start(t)
    PROVE  SlotInv'
<1>0. PICK o, s : o = thr[t].obj /\ s = InitCurrentThreadInfo(t)
  OBVIOUS
<1>1. /\ thr[t].pc = "created" /\ s \in Slots
      /\ queue_' = [queue_ EXCEPT ![s] = t]
      /\ obj' = [obj EXCEPT ![o].thread_ptr_ = s]
      /\ thr' = [thr EXCEPT ![t].pc = "running", ![t].slot = s]
      /\ UNCHANGED caller
  BY <1>0, Zenon DEF thread_start, StartedOnce
<1>2. Alive(t) /\ ~Running(t) /\ o \in Objects /\ thr[t].obj = o
  BY <1>0, <1>1 DEF SlotInv, OneThread, Alive, Running
<1>3. \A r \in Slots : queue_[r] # t
  <2> SUFFICES ASSUME NEW r \in Slots, queue_[r] = t PROVE FALSE
    OBVIOUS
  <2>1. t # Free
    BY ThreadNames
  <2>2. PICK c \in Callers : caller[c].pc = "clear" /\ caller[c].tid = t
    BY <1>2, <2>1 DEF SlotInv, SlotInUse
  <2> QED BY <1>2, <2>2 DEF SlotInv, CallerKnows
<1>4. queue_[s] = Free
  <2>1. {r \in Slots : queue_[r] = t} = {}
    BY <1>3
  <2>2. s = Scan(idx_)
    BY <1>0, <2>1 DEF InitCurrentThreadInfo
  <2> QED BY <1>1, <2>2, ScanFindsFree
<1>5. /\ queue_'[s] = t /\ \A r \in Slots : r # s => queue_'[r] = queue_[r]
      /\ queue_' \in [Slots -> Tids \cup {Free}]
  BY <1>1 DEF SlotInv, ThreadTypes
<1>6. /\ obj'[o].thread_ptr_ = s
      /\ \A p \in Objects : obj'[p].is_joined_ = obj[p].is_joined_
      /\ \A p \in Objects : p # o => obj'[p] = obj[p]
  BY <1>1, <1>2 DEF ObjTypes
<1>7. /\ thr'[t].obj = o /\ thr'[t].pc = "running" /\ thr'[t].slot = s
      /\ \A u \in Tids : u # t => thr'[u] = thr[u]
      /\ \A u \in Tids : thr'[u].obj = thr[u].obj
  BY <1>1, <1>2 DEF SlotInv, ThreadTypes
<1>8. /\ Alive(t)' /\ Running(t)'
      /\ \A u \in Tids : Alive(u)' <=> Alive(u)
      /\ \A u \in Tids : u # t => (Running(u)' <=> Running(u))
  BY <1>2, <1>7 DEF Alive, Running
<1>9. ThreadTypes'
  <2> DEFINE R == [obj : Objects \cup {NULL}, pc : {"none", "created", "running", "over"},
                   slot : Slots \cup {NULL}]
             x == [thr[t] EXCEPT !.pc = "running", !.slot = s]
  <2>1. thr \in [Tids -> R]
    BY DEF SlotInv, ThreadTypes
  <2>2. x \in R
    BY <2>1, <1>1
  <2>3. thr' = [thr EXCEPT ![t] = x]
    BY <1>1
  <2> HIDE DEF R, x
  <2>4. thr' \in [Tids -> R]
    BY <2>1, <2>2, <2>3
  <2> QED BY <2>4, <1>1, <1>5 DEF SlotInv, ThreadTypes, R
<1>a. ASSUME NEW u \in Tids, Alive(u), u # t
      PROVE  thr[u].obj \in Objects /\ thr[u].obj # o /\ obj'[thr[u].obj] = obj[thr[u].obj]
  <2>1. thr[u].obj \in Objects /\ thr[u].obj # o
    BY <1>2, <1>a DEF SlotInv, OneThread
  <2> QED BY <2>1, <1>6
<1>10. OneThread'
  <2> SUFFICES ASSUME NEW u \in Tids, Alive(u)
               PROVE  /\ thr'[u].obj \in Objects
                      /\ \A v \in Tids : Alive(v) /\ thr'[v].obj = thr'[u].obj => v = u
                      /\ \/ ~obj'[thr'[u].obj].is_joined_
                         \/ \E c \in Callers : caller[c].pc = "join" /\ caller[c].obj = thr'[u].obj
    BY <1>1, <1>8 DEF OneThread
  <2>1. thr[u].obj \in Objects /\ obj'[thr[u].obj].is_joined_ = obj[thr[u].obj].is_joined_
    BY <1>6 DEF SlotInv, OneThread
  <2> QED BY <2>1, <1>7 DEF SlotInv, OneThread
<1>11. OwnSlot'
  <2> SUFFICES ASSUME NEW u \in Tids
               PROVE  /\ thr'[u].pc = "created" => obj'[thr'[u].obj].thread_ptr_ = NULL
                      /\ Running(u)' => /\ thr'[u].slot \in Slots /\ queue_'[thr'[u].slot] = u
                                        /\ obj'[thr'[u].obj].thread_ptr_ = thr'[u].slot
    BY DEF OwnSlot
  <2>1. CASE u = t
    BY <2>1, <1>1, <1>5, <1>6, <1>7
  <2>2. CASE u # t
    <3>1. thr'[u] = thr[u] /\ (Running(u)' <=> Running(u))
      BY <2>2, <1>7, <1>8
    <3>2. CASE thr[u].pc = "created"
      BY <2>2, <3>1, <3>2, <1>a DEF SlotInv, OwnSlot, Alive, Running
    <3>3. CASE Running(u)
      <4>1. Alive(u) /\ thr[u].pc # "created"
        BY <3>3 DEF Alive, Running
      <4>2. thr[u].slot \in Slots /\ queue_[thr[u].slot] = u /\ obj[thr[u].obj].thread_ptr_ = thr[u].slot
        BY <3>3 DEF SlotInv, OwnSlot
      <4>3. thr[u].slot # s
        BY <4>2, <1>4, ThreadNames
      <4> QED BY <2>2, <3>1, <4>1, <4>2, <4>3, <1>5, <1>a
    <3> QED BY <3>1, <3>2, <3>3
  <2> QED BY <2>1, <2>2
<1>12. PointerInUse'
  <2> SUFFICES ASSUME NEW p \in Objects, obj'[p].thread_ptr_ # NULL
               PROVE  \/ \E u \in Tids : Running(u)' /\ thr'[u].obj = p
                      \/ \E c \in Callers : caller[c].pc = "clear" /\ caller[c].obj = p
    BY <1>1 DEF PointerInUse
  <2>1. CASE p = o
    BY <2>1, <1>7, <1>8
  <2>2. CASE p # o
    <3>1. obj[p].thread_ptr_ # NULL
      BY <2>2, <1>6
    <3>2. \/ \E u \in Tids : Running(u) /\ thr[u].obj = p
          \/ \E c \in Callers : caller[c].pc = "clear" /\ caller[c].obj = p
      BY <3>1 DEF SlotInv, PointerInUse
    <3> QED BY <3>2, <1>2, <1>7, <1>8
  <2> QED BY <2>1, <2>2
<1>13. ASSUME NEW c \in Callers, caller[c].pc = "clear" PROVE obj'[caller[c].obj] = obj[caller[c].obj]
  <2>1. caller[c].obj \in Objects /\ obj[caller[c].obj].thread_ptr_ \in Slots
    BY <1>13 DEF SlotInv, CallerKnows
  <2>2. obj[o].thread_ptr_ = NULL
    BY <1>1, <1>2 DEF SlotInv, OwnSlot
  <2> QED BY <2>1, <2>2, <1>6, ThreadNames
<1>14. SlotInUse'
  <2> SUFFICES ASSUME NEW r \in Slots, queue_'[r] # Free
               PROVE  \/ Running(queue_[r])' /\ thr'[queue_'[r]].slot = r
                      \/ \E c \in Callers : /\ caller'[c].pc = "clear" /\ caller'[c].tid = queue_'[r]
                                            /\ obj'[caller'[c].obj].thread_ptr_ = r
    BY Zenon DEF SlotInUse
  <2>1. CASE r = s
    BY <2>1, <1>5, <1>7, <1>8
  <2>2. CASE r # s
    <3>1. PICK u \in Tids : u = queue_[r] /\ u # t /\ queue_'[r] = u /\ u # Free
      BY <2>2, <1>3, <1>5 DEF SlotInv, ThreadTypes
    <3>2. \/ Running(u) /\ thr[u].slot = r
          \/ \E c \in Callers : caller[c].pc = "clear" /\ caller[c].tid = u /\ obj[caller[c].obj].thread_ptr_ = r
      BY <3>1 DEF SlotInv, SlotInUse
    <3>3. CASE Running(u) /\ thr[u].slot = r
      BY <3>1, <3>3, <1>7, <1>8 DEF Running
    <3>4. CASE \E c \in Callers : caller[c].pc = "clear" /\ caller[c].tid = u /\ obj[caller[c].obj].thread_ptr_ = r
      BY <3>1, <3>4, <1>1, <1>13
    <3> QED BY <3>2, <3>3, <3>4
  <2> QED BY <2>1, <2>2
<1>15. CallerKnows'
  <2> SUFFICES ASSUME NEW c \in Callers
        PROVE  /\ caller[c].pc = "join" =>
                    /\ caller[c].tid \in Tids /\ Running(caller[c].tid)'
                    /\ thr'[caller[c].tid].obj = caller[c].obj /\ obj'[caller[c].obj].is_joined_
               /\ caller[c].pc = "clear" =>
                    /\ caller[c].tid \in Tids /\ ~Alive(caller[c].tid)'
                    /\ caller[c].obj \in Objects /\ obj'[caller[c].obj].is_joined_
                    /\ obj'[caller[c].obj].thread_ptr_ \in Slots
                    /\ queue_'[obj'[caller[c].obj].thread_ptr_] = caller[c].tid
    BY <1>1 DEF CallerKnows
  <2>1. CASE caller[c].pc = "join"
    <3>1. PICK u \in Tids : u = caller[c].tid
      BY <2>1 DEF SlotInv, CallerKnows
    <3>2. Running(u) /\ thr[u].obj = caller[c].obj /\ obj[caller[c].obj].is_joined_
      BY <2>1, <3>1 DEF SlotInv, CallerKnows
    <3>3. caller[c].obj \in Objects /\ u # t
      BY <3>2, <1>2 DEF SlotInv, OneThread, Alive, Running
    <3>4. Running(u)' /\ thr'[u].obj = caller[c].obj /\ obj'[caller[c].obj].is_joined_
      BY <3>2, <3>3, <1>6, <1>7, <1>8
    <3> QED BY <2>1, <3>1, <3>4, <1>1
  <2>2. CASE caller[c].pc = "clear"
    <3>1. /\ caller[c].tid \in Tids /\ ~Alive(caller[c].tid)
          /\ caller[c].obj \in Objects /\ obj[caller[c].obj].is_joined_
          /\ obj[caller[c].obj].thread_ptr_ \in Slots
          /\ queue_[obj[caller[c].obj].thread_ptr_] = caller[c].tid
      BY <2>2 DEF SlotInv, CallerKnows
    <3>2. obj[caller[c].obj].thread_ptr_ # s
      BY <1>4, <3>1, ThreadNames
    <3>3. ~Alive(caller[c].tid)'
      BY <3>1, <1>1, <1>8
    <3> QED BY <2>2, <3>1, <3>2, <3>3, <1>5, <1>13
  <2> QED BY <2>1, <2>2
<1> QED BY <1>9, <1>10, <1>11, <1>12, <1>14, <1>15 DEF SlotInv

\* A thread's function returns.
LEMMA OverKeeps ==
    ASSUME SlotInv, NEW t \in Tids, Over(t)
    PROVE  SlotInv'
<1>1. UNCHANGED <<queue_, obj, caller>> /\ thr[t].pc = "running" /\ thr' = [thr EXCEPT ![t].pc = "over"]
  BY DEF Over
<1>2. /\ thr'[t].pc = "over"
      /\ \A u \in Tids : thr'[u].obj = thr[u].obj /\ thr'[u].slot = thr[u].slot
      /\ \A u \in Tids : u # t => thr'[u] = thr[u]
  BY <1>1 DEF SlotInv, ThreadTypes
<1>3. \A u \in Tids : (Alive(u)' <=> Alive(u)) /\ (Running(u)' <=> Running(u))
                      /\ (thr'[u].pc = "created" <=> thr[u].pc = "created")
  BY <1>1, <1>2 DEF Alive, Running
<1>4. ThreadTypes'
  BY <1>1 DEF SlotInv, ThreadTypes
<1>5. OneThread' /\ OwnSlot' /\ PointerInUse'
  BY <1>1, <1>2, <1>3 DEF SlotInv, OneThread, OwnSlot, PointerInUse
<1>6. SlotInUse'
  BY <1>1, <1>2, <1>3 DEF SlotInv, ThreadTypes, SlotInUse
<1>7. CallerKnows'
  BY <1>1, <1>2, <1>3 DEF SlotInv, CallerKnows
<1> QED BY <1>4, <1>5, <1>6, <1>7 DEF SlotInv
\* Join finds the thread of the object, and waits for it.
LEMMA JoinKeeps ==
    ASSUME ObjTypes, SlotInv, OneCaller, StartedOnce', NEW c \in Callers, NEW o \in Objects, Join(c, o)
    PROVE  SlotInv'
<1>1. /\ caller[c].pc = "idle" /\ obj[o].thread_ptr_ # NULL
      /\ obj' = [obj EXCEPT ![o].is_joined_ = TRUE]
      /\ caller' = [caller EXCEPT ![c] = [pc |-> "join", obj |-> o, tid |-> queue_[obj[o].thread_ptr_]]]
      /\ UNCHANGED <<queue_, thr>>
  BY DEF Join, StartedOnce
<1>2. \A d \in Callers : d = c /\ caller[d].pc = "idle"
  BY <1>1 DEF OneCaller
<1>3. PICK t \in Tids : Running(t) /\ thr[t].obj = o
  BY <1>1, <1>2 DEF SlotInv, PointerInUse
<1>4. /\ thr[t].slot \in Slots /\ queue_[thr[t].slot] = t /\ obj[o].thread_ptr_ = thr[t].slot
  BY <1>3 DEF SlotInv, OwnSlot
<1>5. caller'[c] = [pc |-> "join", obj |-> o, tid |-> t] /\ caller' \in [Callers -> [pc : {"idle", "join", "clear"},
          obj : Objects \cup {NULL}, tid : Tids \cup {NULL, Free}]]
  BY <1>1, <1>4 DEF SlotInv, ThreadTypes
<1>6. /\ \A p \in Objects : obj'[p].thread_ptr_ = obj[p].thread_ptr_
      /\ obj'[o].is_joined_ = TRUE
      /\ \A p \in Objects : p # o => obj'[p] = obj[p]
  BY <1>1 DEF ObjTypes
<1>7. \A u \in Tids : /\ Alive(u) => thr[u].obj \in Objects
                      /\ Running(u) => Alive(u)
                      /\ thr[u].pc = "created" => Alive(u)
                      /\ Alive(u)' <=> Alive(u)
                      /\ Running(u)' <=> Running(u)
  BY <1>1 DEF SlotInv, OneThread, Alive, Running
<1>8. ThreadTypes'
  BY <1>1, <1>5 DEF SlotInv, ThreadTypes
<1>9. OneThread'
  <2> SUFFICES ASSUME NEW u \in Tids, Alive(u)
               PROVE  /\ thr[u].obj \in Objects
                      /\ \A v \in Tids : Alive(v) /\ thr[v].obj = thr[u].obj => v = u
                      /\ \/ ~obj'[thr[u].obj].is_joined_
                         \/ caller'[c].pc = "join" /\ caller'[c].obj = thr[u].obj
    BY <1>1, <1>7 DEF OneThread
  <2>1. thr[u].obj \in Objects /\ \A v \in Tids : Alive(v) /\ thr[v].obj = thr[u].obj => v = u
    BY DEF SlotInv, OneThread
  <2>2. ~obj[thr[u].obj].is_joined_
    BY <1>2 DEF SlotInv, OneThread
  <2> QED BY <2>1, <2>2, <1>5, <1>6
<1>10. OwnSlot'
  BY <1>1, <1>6, <1>7 DEF SlotInv, OwnSlot
<1>11. PointerInUse'
  <2> SUFFICES ASSUME NEW p \in Objects, obj'[p].thread_ptr_ # NULL
               PROVE  \E u \in Tids : Running(u)' /\ thr'[u].obj = p
    BY DEF PointerInUse
  <2>1. \E u \in Tids : Running(u) /\ thr[u].obj = p
    BY <1>2, <1>6 DEF SlotInv, PointerInUse
  <2> QED BY <2>1, <1>1, <1>7
<1>12. SlotInUse'
  <2> SUFFICES ASSUME NEW r \in Slots, queue_'[r] # Free
               PROVE  Running(queue_[r])' /\ thr'[queue_'[r]].slot = r
    BY Zenon DEF SlotInUse
  <2>1. Running(queue_[r]) /\ thr[queue_[r]].slot = r
    BY <1>1, <1>2 DEF SlotInv, SlotInUse
  <2> QED BY <2>1, <1>1 DEF Running
<1>13. CallerKnows'
  <2>1. caller'[c].pc = "join" /\ caller'[c].tid = t /\ caller'[c].obj = o
    BY <1>5
  <2>2. Running(caller[c].tid)' /\ thr'[t].obj = o
    BY <2>1, <1>1, <1>3 DEF Running
  <2>3. \A d \in Callers : d = c
    BY <1>2
  <2> QED BY <2>1, <2>2, <2>3, <1>6 DEF CallerKnows
<1> QED BY <1>8, <1>9, <1>10, <1>11, <1>12, <1>13 DEF SlotInv

\* The thread waited for is over: its id may be used again, its slot is still to be given back.
LEMMA JoinedKeeps ==
    ASSUME ObjTypes, SlotInv, OneCaller, StartedOnce', NEW c \in Callers, Joined(c)
    PROVE  SlotInv'
<1>1. PICK t, o : t = caller[c].tid /\ o = caller[c].obj
  OBVIOUS
<1>2. /\ caller[c].pc = "join"
      /\ t \in Tids /\ Running(t) /\ thr[t].obj = o /\ obj[o].is_joined_
  BY <1>1 DEF Joined, SlotInv, CallerKnows
<1>3. /\ thr' = [thr EXCEPT ![t] = None] /\ caller' = [caller EXCEPT ![c].pc = "clear"]
      /\ UNCHANGED <<queue_, obj>>
  BY <1>1, <1>2, ThreadNames DEF Joined, StartedOnce
<1>4. \A d \in Callers : d = c
  BY DEF OneCaller
<1>5. caller'[c].pc = "clear" /\ caller'[c].tid = t /\ caller'[c].obj = o
  BY <1>1, <1>3 DEF SlotInv, ThreadTypes
<1>6. /\ ~Alive(t)' /\ ~Running(t)' /\ \A u \in Tids : u # t => thr'[u] = thr[u]
      /\ \A u \in Tids : u # t => (Alive(u)' <=> Alive(u)) /\ (Running(u)' <=> Running(u))
      /\ \A u \in Tids : thr'[u].pc = "created" => u # t
  BY <1>2, <1>3 DEF SlotInv, ThreadTypes, Alive, Running, None
<1>7. \A u \in Tids : Running(u) => Alive(u)
  BY DEF Alive, Running
<1>8. /\ thr[t].slot \in Slots /\ queue_[thr[t].slot] = t /\ obj[o].thread_ptr_ = thr[t].slot
      /\ o \in Objects /\ \A u \in Tids : Alive(u) /\ thr[u].obj = o => u = t
  BY <1>2, <1>7 DEF SlotInv, OwnSlot, OneThread
<1>9. ThreadTypes'
  <2>1. thr' \in [Tids -> [obj : Objects \cup {NULL}, pc : {"none", "created", "running", "over"},
                           slot : Slots \cup {NULL}]]
    BY <1>3 DEF SlotInv, ThreadTypes, None
  <2>2. caller' \in [Callers -> [pc : {"idle", "join", "clear"}, obj : Objects \cup {NULL},
                                 tid : Tids \cup {NULL, Free}]]
    BY <1>3 DEF SlotInv, ThreadTypes
  <2> QED BY <1>3, <2>1, <2>2 DEF SlotInv, ThreadTypes
<1>10. OneThread'
  <2> SUFFICES ASSUME NEW u \in Tids, Alive(u)'
               PROVE  /\ thr'[u].obj \in Objects
                      /\ \A v \in Tids : Alive(v)' /\ thr'[v].obj = thr'[u].obj => v = u
                      /\ ~obj[thr'[u].obj].is_joined_
    BY <1>3 DEF OneThread
  <2>1. u # t /\ thr'[u] = thr[u] /\ Alive(u)
    BY <1>6
  <2>2. /\ thr[u].obj \in Objects
        /\ \A v \in Tids : Alive(v) /\ thr[v].obj = thr[u].obj => v = u
        /\ thr[u].obj # o
    BY <2>1, <1>8 DEF SlotInv, OneThread
  <2>3. ~obj[thr[u].obj].is_joined_
    BY <2>1, <2>2, <1>1, <1>4 DEF SlotInv, OneThread
  <2> QED BY <2>1, <2>2, <2>3, <1>6
<1>11. OwnSlot'
  <2> SUFFICES ASSUME NEW u \in Tids, u # t
               PROVE  /\ thr'[u].pc = "created" => obj'[thr'[u].obj].thread_ptr_ = NULL
                      /\ Running(u)' => /\ thr'[u].slot \in Slots /\ queue_'[thr'[u].slot] = u
                                        /\ obj'[thr'[u].obj].thread_ptr_ = thr'[u].slot
    BY <1>6 DEF OwnSlot
  <2> QED BY <1>3, <1>6 DEF SlotInv, OwnSlot
<1>12. PointerInUse'
  <2> SUFFICES ASSUME NEW p \in Objects, obj[p].thread_ptr_ # NULL
               PROVE  \/ \E u \in Tids : Running(u)' /\ thr'[u].obj = p
                      \/ caller'[c].pc = "clear" /\ caller'[c].obj = p
    BY <1>3 DEF PointerInUse
  <2>1. PICK u \in Tids : Running(u) /\ thr[u].obj = p
    BY <1>2, <1>4 DEF SlotInv, PointerInUse
  <2> QED BY <2>1, <1>2, <1>5, <1>6
<1>13. SlotInUse'
  <2> SUFFICES ASSUME NEW r \in Slots, queue_'[r] # Free
               PROVE  \/ Running(queue_[r])' /\ thr'[queue_'[r]].slot = r
                      \/ \E d \in Callers : /\ caller'[d].pc = "clear" /\ caller'[d].tid = queue_'[r]
                                            /\ obj'[caller'[d].obj].thread_ptr_ = r
    BY Zenon DEF SlotInUse
  <2>1. PICK u \in Tids : u = queue_[r] /\ u # Free /\ queue_'[r] = u
    BY <1>3 DEF SlotInv, ThreadTypes
  <2>2. Running(u) /\ thr[u].slot = r
    BY <2>1, <1>2, <1>4 DEF SlotInv, SlotInUse
  <2>3. CASE u = t
    BY <2>1, <2>2, <2>3, <1>3, <1>5, <1>8
  <2>4. CASE u # t
    BY <2>1, <2>2, <2>4, <1>6 DEF Running
  <2> QED BY <2>3, <2>4
<1>14. CallerKnows'
  <2> SUFFICES ASSUME NEW d \in Callers
        PROVE  /\ caller'[d].pc = "clear"
               /\ caller'[d].tid \in Tids /\ ~Alive(caller[d].tid)'
               /\ caller'[d].obj \in Objects /\ obj'[caller'[d].obj].is_joined_
               /\ obj'[caller'[d].obj].thread_ptr_ \in Slots
               /\ queue_'[obj'[caller'[d].obj].thread_ptr_] = caller'[d].tid
    BY DEF CallerKnows
  <2>1. d = c
    BY <1>4
  <2>2. ~Alive(caller[d].tid)'
    BY <2>1, <1>5, <1>6
  <2> QED BY <2>1, <2>2, <1>2, <1>3, <1>5, <1>8
<1> QED BY <1>9, <1>10, <1>11, <1>12, <1>13, <1>14 DEF SlotInv

\* The slot is given back.
LEMMA ClearKeeps ==
    ASSUME ObjTypes, SlotInv, OneCaller, StartedOnce', NEW c \in Callers, ClearThreadInfo(c)
    PROVE  SlotInv'
<1>1. PICK t, o, s : t = caller[c].tid /\ o = caller[c].obj /\ s = obj[o].thread_ptr_
  OBVIOUS
<1>2. /\ caller[c].pc = "clear" /\ t \in Tids /\ ~Alive(t) /\ o \in Objects /\ s \in Slots
      /\ queue_[s] = t /\ obj[o].is_joined_
  BY <1>1 DEF ClearThreadInfo, SlotInv, CallerKnows
<1>3. /\ queue_' = [queue_ EXCEPT ![s] = Free] /\ obj' = [obj EXCEPT ![o].thread_ptr_ = NULL]
      /\ caller' = [caller EXCEPT ![c] = [pc |-> "idle", obj |-> NULL, tid |-> NULL]]
      /\ UNCHANGED thr
  BY <1>1, <1>2, Zenon DEF ClearThreadInfo, StartedOnce
<1>4. \A d \in Callers : d = c
  BY DEF OneCaller
<1>5. caller'[c].pc = "idle"
  BY <1>3 DEF SlotInv, ThreadTypes
<1>6. /\ queue_'[s] = Free /\ \A r \in Slots : r # s => queue_'[r] = queue_[r]
      /\ \A p \in Objects : obj'[p].is_joined_ = obj[p].is_joined_
      /\ \A p \in Objects : p # o => obj'[p] = obj[p]
      /\ obj'[o].thread_ptr_ = NULL
  BY <1>2, <1>3 DEF SlotInv, ThreadTypes, ObjTypes
<1>7. \A u \in Tids : /\ Running(u) => Alive(u)
                      /\ thr[u].pc = "created" => Alive(u)
                      /\ Alive(u)' <=> Alive(u)
                      /\ Running(u)' <=> Running(u)
  BY <1>3 DEF Alive, Running
<1>8. ASSUME NEW u \in Tids, Alive(u)
      PROVE  /\ thr[u].obj \in Objects /\ thr[u].obj # o /\ ~obj[thr[u].obj].is_joined_
             /\ \A v \in Tids : Alive(v) /\ thr[v].obj = thr[u].obj => v = u
  BY <1>2, <1>4, <1>8 DEF SlotInv, OneThread
<1>9. ThreadTypes'
  BY <1>3 DEF SlotInv, ThreadTypes
<1>10. OneThread'
  BY <1>3, <1>6, <1>7, <1>8 DEF OneThread
<1>11. OwnSlot'
  <2> SUFFICES ASSUME NEW u \in Tids
               PROVE  /\ thr[u].pc = "created" => obj'[thr[u].obj].thread_ptr_ = NULL
                      /\ Running(u) => /\ thr[u].slot \in Slots /\ queue_'[thr[u].slot] = u
                                       /\ obj'[thr[u].obj].thread_ptr_ = thr[u].slot
    BY <1>3, <1>7 DEF OwnSlot
  <2>1. Alive(u) => obj'[thr[u].obj] = obj[thr[u].obj]
    BY <1>6, <1>8
  <2>2. Running(u) => u # t
    BY <1>2, <1>7
  <2> QED BY <2>1, <2>2, <1>2, <1>6, <1>7 DEF SlotInv, OwnSlot
<1>12. PointerInUse'
  <2> SUFFICES ASSUME NEW p \in Objects, obj'[p].thread_ptr_ # NULL
               PROVE  \E u \in Tids : Running(u)' /\ thr'[u].obj = p
    BY DEF PointerInUse
  <2>1. p # o /\ obj[p].thread_ptr_ # NULL
    BY <1>6
  <2>2. \E u \in Tids : Running(u) /\ thr[u].obj = p
    BY <2>1, <1>1, <1>4 DEF SlotInv, PointerInUse
  <2> QED BY <2>2, <1>3, <1>7
<1>13. SlotInUse'
  <2> SUFFICES ASSUME NEW r \in Slots, queue_'[r] # Free
               PROVE  Running(queue_[r])' /\ thr'[queue_'[r]].slot = r
    BY Zenon DEF SlotInUse
  <2>1. r # s /\ queue_'[r] = queue_[r] /\ queue_[r] # Free
    BY <1>6
  <2>2. Running(queue_[r]) /\ thr[queue_[r]].slot = r
    BY <2>1, <1>1, <1>4 DEF SlotInv, SlotInUse
  <2> QED BY <2>1, <2>2, <1>3 DEF Running
<1>14. CallerKnows'
  BY <1>4, <1>5 DEF CallerKnows
<1> QED BY <1>9, <1>10, <1>11, <1>12, <1>13, <1>14 DEF SlotInv

LEMMA ThreadsStep == OneCaller /\ ThreadInv /\ [NextThreads]_threadVars => ThreadInv'
<1> SUFFICES ASSUME OneCaller, ThreadInv, [NextThreads]_threadVars PROVE ThreadInv'
  OBVIOUS
<1>1. CASE UNCHANGED threadVars
  BY <1>1 DEF threadVars, ThreadInv, ObjTypes, StartedOnce, SlotInv, ThreadTypes, OneThread, OwnSlot,
         PointerInUse, SlotInUse, CallerKnows, Alive, Running
<1>2. CASE NextThreads
  <2>1. ObjTypes'
    <3>1. ASSUME NEW c \in Callers, NEW o \in Objects, Start(c, o) \/ Join(c, o) PROVE ObjTypes'
      <4> DEFINE R == [is_joined_ : BOOLEAN, thread_ptr_ : Slots \cup {NULL}, twice : BOOLEAN]
                 w == obj[o].twice \/ ~obj[o].is_joined_
                 x == [obj[o] EXCEPT !.is_joined_ = FALSE, !.twice = w]
                 y == [obj[o] EXCEPT !.is_joined_ = TRUE]
      <4>1. obj \in [Objects -> R]
        BY DEF ThreadInv, ObjTypes
      <4>2. w \in BOOLEAN
        OBVIOUS
      <4>3. Start(c, o) => obj' = [obj EXCEPT ![o] = x]
        BY DEF Start
      <4>4. Join(c, o) => obj' = [obj EXCEPT ![o] = y]
        BY DEF Join
      <4> HIDE DEF w
      <4>5. x \in R /\ y \in R
        BY <4>1, <4>2
      <4> HIDE DEF R, x, y
      <4>6. obj' \in [Objects -> R]
        BY <3>1, <4>1, <4>3, <4>4, <4>5
      <4> QED BY <4>6 DEF ObjTypes, R
    <3>2. ASSUME NEW c \in Callers, Joined(c) \/ ClearThreadInfo(c) PROVE ObjTypes'
      BY <3>2 DEF ThreadInv, ObjTypes, Joined, ClearThreadInfo
    <3>3. ASSUME NEW t \in Tids, thread_start(t) PROVE ObjTypes'
      <4>1. PICK p, s : p = thr[t].obj /\ s = InitCurrentThreadInfo(t)
        OBVIOUS
      <4>2. obj' = obj \/ (s \in Slots /\ obj' = [obj EXCEPT ![p].thread_ptr_ = s])
        BY <3>3, <4>1, Zenon DEF thread_start
      <4> QED BY <4>2 DEF ThreadInv, ObjTypes
    <3>4. ASSUME NEW t \in Tids, Over(t) PROVE ObjTypes'
      BY <3>4 DEF ThreadInv, ObjTypes, Over
    <3> QED BY <1>2, <3>1, <3>2, <3>3, <3>4 DEF NextThreads
  <2>2. ASSUME StartedOnce' PROVE SlotInv'
    <3>1. ObjTypes /\ SlotInv
      BY <1>2, <2>2, StaysOnce DEF ThreadInv
    <3> QED BY <1>2, <2>2, <3>1, StartKeeps, JoinKeeps, JoinedKeeps, ClearKeeps, ThreadStartKeeps, OverKeeps
            DEF NextThreads
  <2> QED BY <2>1, <2>2 DEF ThreadInv
<1> QED BY <1>1, <1>2

LEMMA SlotsFollow == ThreadInv => SlotsFollowThreads
<1> SUFFICES ASSUME ThreadInv, StartedOnce
             PROVE  /\ \A t \in Tids : Running(t) => queue_[thr[t].slot] = t
                    /\ \A t \in Tids : thr[t].pc = "running" =>
                         ~obj[thr[t].obj].is_joined_ \/ \E c \in Callers : caller[c].obj = thr[t].obj
                    /\ \A s \in Slots : queue_[s] # Free =>
                         Running(queue_[s]) \/ \E c \in Callers : caller[c].pc = "clear" /\ caller[c].tid = queue_[s]
  BY DEF SlotsFollowThreads, SlotIsOwn, JoinedIsOver
<1>1. OneThread /\ OwnSlot /\ SlotInUse
  BY DEF ThreadInv, SlotInv
<1> QED BY <1>1 DEF OneThread, OwnSlot, SlotInUse, Alive

\* For any objects, ids and slots: with one thread that starts and joins (the application starts
\* and stops its threads from its own), a slot is its thread's own until Join has returned.
THEOREM ThreadsKeepSlots == OneCaller /\ SpecThreads => []SlotsFollowThreads
<1> SUFFICES ASSUME OneCaller PROVE SpecThreads => []SlotsFollowThreads
  OBVIOUS
<1>1. ThreadInv /\ [NextThreads]_threadVars => ThreadInv'
  BY ThreadsStep
<1> QED BY <1>1, ThreadsInit, SlotsFollow, PTL DEF SpecThreads
=============================================================================
