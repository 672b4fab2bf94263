---------------------------- MODULE LibraryProofs ----------------------------
(***************************************************************************)
(* What the library promises its callers, for any sizes and any calls:     *)
(* rings, handles' ids, log levels, commands on the wire, blocks of a      *)
(* frame, the pools of nodes, and the cache.                               *)
(***************************************************************************)
EXTENDS LoopList, SqlHandle, Logger, MsgTrans, FrameAlloc, MemPool, Lookaside, Redis, WellFoundedInduction, FiniteSetTheorems, SequenceTheorems, TLAPS

LEMMA LeastNat ==
    ASSUME NEW T, T \subseteq Nat, T # {}
    PROVE  \E k \in T : \A j \in T : ~(j < k)
<1>1. PICK k \in T : \A j \in T : ~(<<j, k>> \in OpToRel(<, Nat))
  BY NatLessThanWellFounded, WFMin
<1> QED BY <1>1 DEF OpToRel

-----------------------------------------------------------------------------
(* LoopList.                                                                *)

\* Coming round: the index of a slot is never two rounds ahead.
Wrap(v, cap) == IF v < cap THEN v ELSE v - cap

LEMMA Round ==
    ASSUME NEW cap \in Nat \ {0}, NEW v \in 0..2 * cap - 1
    PROVE  v % cap = Wrap(v, cap) /\ v % cap \in 0..cap - 1
<1> DEFINE q == v \div cap
           r == v % cap
<1>1. q \in Int /\ r \in 0..cap - 1 /\ v = cap * q + r
  OBVIOUS
<1> HIDE DEF q, r
<1>2. CASE q = 0
  BY <1>1, <1>2 DEF r, Wrap
<1>3. CASE q = 1
  BY <1>1, <1>3 DEF r, Wrap
<1>4. CASE q >= 2
  <2>1. cap * q >= cap * 2
    BY <1>1, <1>4
  <2> QED BY <1>1, <2>1
<1>5. CASE q <= -1
  <2>1. cap * q <= cap * (-1)
    BY <1>1, <1>5
  <2> QED BY <1>1, <2>1
<1> QED BY <1>1, <1>2, <1>3, <1>4, <1>5

\* What a ring's slots may hold.
Slot == Items \cup {<<>>}

\* A ring with s elements from the h-th slot on.
Ring(cap, h, s, m) ==
    [m_head |-> h, m_tail |-> (h + s) % cap, m_size |-> s, m_capacity |-> cap, pBuf |-> m]

IsRing(q, cap) ==
    \E h \in 0..cap - 1, s \in 0..cap, m \in [0..cap - 1 -> Slot] : q = Ring(cap, h, s, m)

RingIs(q, cap, h, s, m) ==
    /\ q.m_head = h /\ q.m_size = s /\ q.m_capacity = cap /\ q.pBuf = m /\ q.m_tail = (h + s) % cap
    /\ Content(q) \in Seq(Slot) /\ Len(Content(q)) = s
    /\ \A i \in 1..s : (h + i - 1) % cap \in 0..cap - 1 /\ Content(q)[i] = m[(h + i - 1) % cap]

LEMMA RingParts ==
    ASSUME NEW cap \in Nat \ {0}, NEW h \in 0..cap - 1, NEW s \in 0..cap, NEW m \in [0..cap - 1 -> Slot],
           NEW q, q = Ring(cap, h, s, m)
    PROVE  RingIs(q, cap, h, s, m)
<1>1. q.m_head = h /\ q.m_size = s /\ q.m_capacity = cap /\ q.pBuf = m /\ q.m_tail = (h + s) % cap
  BY DEF Ring
<1>2. Content(q) = [i \in 1..s |-> m[(h + i - 1) % cap]]
  BY <1>1, Zenon DEF Content
<1>3. \A i \in 1..s : (h + i - 1) % cap \in 0..cap - 1
  <2> SUFFICES ASSUME NEW i \in 1..s PROVE (h + i - 1) % cap \in 0..cap - 1
    OBVIOUS
  <2>1. h + i - 1 \in 0..2 * cap - 1
    OBVIOUS
  <2> QED BY <2>1, Round
<1>4. \A i \in 1..s : m[(h + i - 1) % cap] \in Slot
  BY <1>3
<1>5. s \in Nat
  OBVIOUS
<1>6. Content(q) \in Seq(Slot) /\ Len(Content(q)) = s
  BY <1>2, <1>4, <1>5
<1>7. \A i \in 1..s : Content(q)[i] = m[(h + i - 1) % cap]
  BY <1>2
<1> QED BY <1>1, <1>3, <1>6, <1>7, Zenon DEF RingIs

LEMMA NewIsRing ==
    ASSUME NEW cap \in Nat \ {0}
    PROVE  IsRing(NewList(cap), cap) /\ Content(NewList(cap)) = <<>>
<1> DEFINE m == [i \in 0..cap - 1 |-> <<>>]
<1>1. 0 \in 0..cap - 1 /\ 0 \in 0..cap /\ 0 + 0 = 0 /\ m \in [0..cap - 1 -> Slot]
  BY DEF Slot
<1>2. 0 % cap = 0
  BY <1>1, Round
<1> HIDE DEF m
<1>3. NewList(cap) = Ring(cap, 0, 0, m)
  BY <1>1, <1>2, Zenon DEF NewList, Ring, m
<1>4. Content(NewList(cap)) \in Seq(Slot) /\ Len(Content(NewList(cap))) = 0
  BY <1>1, <1>3, RingParts DEF RingIs
<1> QED BY <1>1, <1>3, <1>4, Zenon, EmptySeq DEF IsRing

\* An element is put behind the others, unless the ring is full.
LEMMA PushIsAppend ==
    ASSUME NEW cap \in Nat \ {0}, NEW q, IsRing(q, cap), NEW x \in Slot
    PROVE  /\ IsRing(push_back(q, x), cap)
           /\ Content(push_back(q, x)) =
                IF Len(Content(q)) < cap THEN Append(Content(q), x) ELSE Content(q)
           /\ IsFull(q) <=> Len(Content(q)) >= cap
<1>1. PICK h \in 0..cap - 1, s \in 0..cap, m \in [0..cap - 1 -> Slot] : q = Ring(cap, h, s, m)
  BY DEF IsRing
<1> DEFINE c == Content(q)
<1>2. /\ q.m_head = h /\ q.m_size = s /\ q.m_capacity = cap /\ q.pBuf = m /\ q.m_tail = (h + s) % cap
      /\ c \in Seq(Slot) /\ Len(c) = s
      /\ \A i \in 1..s : (h + i - 1) % cap \in 0..cap - 1 /\ c[i] = m[(h + i - 1) % cap]
  <2>1. RingIs(q, cap, h, s, m)
    BY <1>1, RingParts
  <2> QED BY <2>1, Zenon DEF RingIs
<1>3. IsFull(q) <=> s >= cap
  BY <1>2 DEF IsFull
<1>4. CASE s >= cap
  BY <1>2, <1>3, <1>4 DEF push_back
<1>5. CASE s < cap
  <2> DEFINE t == (h + s) % cap
             n == [m EXCEPT ![t] = x]
             p == push_back(q, x)
  <2>1. t \in 0..cap - 1 /\ t = Wrap(h + s, cap)
    <3>1. h + s \in 0..2 * cap - 1
      BY <1>5
    <3> QED BY <3>1, Round
  <2>2. s + 1 \in 0..cap /\ n \in [0..cap - 1 -> Slot]
    <3> HIDE DEF t
    <3> QED BY <1>5, <2>1
  <2>3. (t + 1) % cap = (h + (s + 1)) % cap
    <3>1. t + 1 \in 0..2 * cap - 1 /\ h + (s + 1) \in 0..2 * cap - 1
      BY <1>5, <2>1
    <3>2. /\ (t + 1) % cap = Wrap(t + 1, cap)
          /\ (h + (s + 1)) % cap = Wrap(h + (s + 1), cap)
      BY <3>1, Round
    <3> HIDE DEF t
    <3>3. Wrap(t + 1, cap) = Wrap(h + (s + 1), cap)
      BY <1>5, <2>1 DEF Wrap
    <3> QED BY <3>2, <3>3, Zenon
  <2>4. p = Ring(cap, h, s + 1, n)
    <3>1. p = [q EXCEPT !.pBuf = n, !.m_tail = (@ + 1) % cap, !.m_size = @ + 1]
      BY <1>2, <1>3, <1>5 DEF push_back
    <3> HIDE DEF t, n, p
    <3>2. p = [m_head |-> h, m_tail |-> (t + 1) % cap, m_size |-> s + 1, m_capacity |-> cap, pBuf |-> n]
      BY <1>1, <3>1 DEF Ring, t
    <3> QED BY <2>3, <3>2, Zenon DEF Ring
  <2> HIDE DEF p
  <2>5. /\ Content(p) \in Seq(Slot) /\ Len(Content(p)) = s + 1
        /\ \A i \in 1..s + 1 : Content(p)[i] = n[(h + i - 1) % cap]
    <3>1. RingIs(p, cap, h, s + 1, n)
      BY <2>2, <2>4, RingParts
    <3> QED BY <3>1, Zenon DEF RingIs
  <2>6. ASSUME NEW i \in 1..s PROVE Content(p)[i] = c[i]
    <3>1. h + i - 1 \in 0..2 * cap - 1
      OBVIOUS
    <3>2. (h + i - 1) % cap = Wrap(h + i - 1, cap)
      BY <3>1, Round
    <3> HIDE DEF t
    <3>3. (h + i - 1) % cap # t
      <4>1. Wrap(h + i - 1, cap) # t
        BY <1>5, <2>1 DEF Wrap
      <4> QED BY <3>2, <4>1, Zenon
    <3>4. i \in 1..s + 1 /\ (h + i - 1) % cap \in 0..cap - 1
      BY <1>2
    <3>5. n[(h + i - 1) % cap] = m[(h + i - 1) % cap]
      BY <3>3, <3>4
    <3> QED BY <1>2, <2>5, <3>4, <3>5
  <2>7. Content(p)[s + 1] = x
    <3>1. s + 1 \in 1..s + 1 /\ h + (s + 1) - 1 = h + s
      OBVIOUS
    <3>2. Content(p)[s + 1] = n[t]
      BY <2>5, <3>1
    <3> HIDE DEF t
    <3> QED BY <2>1, <3>2
  <2>8. Content(p) = Append(c, x)
    <3>1. Append(c, x) \in Seq(Slot) /\ Len(Append(c, x)) = s + 1
          /\ (\A i \in 1..s : Append(c, x)[i] = c[i]) /\ Append(c, x)[s + 1] = x
      BY <1>2
    <3> DEFINE d == Append(c, x)
               e == Content(p)
    <3>2. /\ d \in Seq(Slot) /\ Len(d) = s + 1 /\ e \in Seq(Slot) /\ Len(e) = s + 1
          /\ \A i \in 1..s + 1 : d[i] = e[i]
      BY <2>5, <2>6, <2>7, <3>1
    <3> HIDE DEF d, e
    <3>3. d = e
      BY <3>2
    <3> QED BY <3>3 DEF d, e
  <2>9. IsRing(p, cap)
    BY <2>2, <2>4, Zenon DEF IsRing
  <2> QED BY <1>2, <1>3, <1>5, <2>8, <2>9 DEF p
<1> QED BY <1>4, <1>5

\* The first element is taken off, and stays in its slot.
LEMMA PopIsTail ==
    ASSUME NEW cap \in Nat \ {0}, NEW q, IsRing(q, cap)
    PROVE  /\ Content(q) \in Seq(Slot) /\ Len(Content(q)) \in 0..cap
           /\ IsEmpty(q) <=> Content(q) = <<>>
           /\ ~IsEmpty(q) =>
                /\ IsRing(pop_front(q), cap)
                /\ Content(pop_front(q)) = Tail(Content(q))
                /\ q.pBuf[q.m_head] = Head(Content(q))
                /\ pop_front(q).pBuf = q.pBuf
<1>1. PICK h \in 0..cap - 1, s \in 0..cap, m \in [0..cap - 1 -> Slot] : q = Ring(cap, h, s, m)
  BY DEF IsRing
<1> DEFINE c == Content(q)
<1>2. /\ q.m_head = h /\ q.m_size = s /\ q.m_capacity = cap /\ q.pBuf = m /\ q.m_tail = (h + s) % cap
      /\ c \in Seq(Slot) /\ Len(c) = s
      /\ \A i \in 1..s : (h + i - 1) % cap \in 0..cap - 1 /\ c[i] = m[(h + i - 1) % cap]
  <2>1. RingIs(q, cap, h, s, m)
    BY <1>1, RingParts
  <2> QED BY <2>1, Zenon DEF RingIs
<1>3. IsEmpty(q) <=> s = 0
  BY <1>2 DEF IsEmpty
<1>4. c = <<>> <=> s = 0
  <2> HIDE DEF c
  <2> QED BY <1>2
<1>5. ASSUME s # 0
      PROVE  /\ IsRing(pop_front(q), cap) /\ Content(pop_front(q)) = Tail(c)
             /\ q.pBuf[q.m_head] = Head(c) /\ pop_front(q).pBuf = q.pBuf
  <2> DEFINE k == (h + 1) % cap
             p == pop_front(q)
  <2>1. k \in 0..cap - 1 /\ k = Wrap(h + 1, cap)
    <3>1. h + 1 \in 0..2 * cap - 1
      OBVIOUS
    <3> QED BY <3>1, Round
  <2>2. s - 1 \in 0..cap
    BY <1>5
  <2>3. (k + (s - 1)) % cap = (h + s) % cap
    <3>1. k + (s - 1) \in 0..2 * cap - 1 /\ h + s \in 0..2 * cap - 1
      BY <1>5, <2>1
    <3>2. /\ (k + (s - 1)) % cap = Wrap(k + (s - 1), cap)
          /\ (h + s) % cap = Wrap(h + s, cap)
      BY <3>1, Round
    <3> HIDE DEF k
    <3>3. Wrap(k + (s - 1), cap) = Wrap(h + s, cap)
      BY <1>5, <2>1 DEF Wrap
    <3> QED BY <3>2, <3>3, Zenon
  <2>4. p = Ring(cap, k, s - 1, m)
    <3>1. p = [q EXCEPT !.m_head = (@ + 1) % cap, !.m_size = @ - 1]
      BY <1>2 DEF pop_front
    <3> HIDE DEF p
    <3>2. p = [m_head |-> (h + 1) % cap, m_tail |-> (h + s) % cap, m_size |-> s - 1, m_capacity |-> cap,
               pBuf |-> m]
      BY <1>1, <3>1 DEF Ring
    <3> HIDE DEF k
    <3> QED BY <2>3, <3>2, Zenon DEF Ring, k
  <2> HIDE DEF k, p
  <2>5. /\ Content(p) \in Seq(Slot) /\ Len(Content(p)) = s - 1 /\ p.pBuf = m
        /\ \A i \in 1..s - 1 : Content(p)[i] = m[(k + i - 1) % cap]
    <3>1. RingIs(p, cap, k, s - 1, m)
      BY <2>1, <2>2, <2>4, RingParts
    <3> QED BY <3>1, Zenon DEF RingIs
  <2>6. ASSUME NEW i \in 1..s - 1 PROVE Content(p)[i] = c[i + 1]
    <3>1. k + i - 1 \in 0..2 * cap - 1 /\ h + (i + 1) - 1 \in 0..2 * cap - 1 /\ i + 1 \in 1..s
      BY <2>1
    <3>2. /\ (k + i - 1) % cap = Wrap(k + i - 1, cap)
          /\ (h + (i + 1) - 1) % cap = Wrap(h + (i + 1) - 1, cap)
      BY <3>1, Round
    <3>3. (k + i - 1) % cap = (h + (i + 1) - 1) % cap
      <4>1. Wrap(k + i - 1, cap) = Wrap(h + (i + 1) - 1, cap)
        BY <2>1 DEF Wrap
      <4> QED BY <3>2, <4>1, Zenon
    <3> QED BY <1>2, <2>5, <3>1, <3>3
  <2>7. Content(p) = Tail(c)
    <3> DEFINE e == Content(p)
    <3>1. /\ c \in Seq(Slot) /\ Len(c) = s /\ e \in Seq(Slot) /\ Len(e) = s - 1
          /\ \A i \in 1..s - 1 : e[i] = c[i + 1]
      BY <1>2, <2>5, <2>6
    <3> HIDE DEF c, e
    <3>2. c # <<>> /\ Len(Tail(c)) = s - 1 /\ Tail(c) \in Seq(Slot) /\ \A i \in 1..s - 1 : Tail(c)[i] = c[i + 1]
      BY <1>5, <3>1
    <3>3. e = Tail(c)
      BY <3>1, <3>2
    <3> QED BY <3>3 DEF e
  <2>8. m[h] = Head(c)
    <3>1. 1 \in 1..s /\ h + 1 - 1 = h /\ h \in 0..2 * cap - 1 /\ h < cap
      BY <1>5
    <3>2. h % cap = h
      <4>1. h % cap = Wrap(h, cap)
        BY <3>1, Round
      <4> QED BY <3>1, <4>1 DEF Wrap
    <3>3. c[1] = m[h]
      BY <1>2, <3>1, <3>2
    <3> HIDE DEF c
    <3>4. c \in Seq(Slot) /\ c # <<>>
      BY <1>2, <1>5
    <3>5. Head(c) = c[1]
      BY <3>4
    <3> QED BY <3>3, <3>5, Zenon
  <2>9. IsRing(p, cap)
    BY <2>1, <2>2, <2>4, Zenon DEF IsRing
  <2> QED BY <1>2, <2>5, <2>7, <2>8, <2>9 DEF p
<1> QED BY <1>2, <1>3, <1>4, <1>5

\* One element moves, unless the ring is full or the other is empty.
MergeStep(p) ==
    IF IsFull(p[2]) \/ IsEmpty(p[1]) THEN <<p[1], p[2]>>
    ELSE <<pop_front(p[1]), push_back(p[2], p[1].pBuf[p[1].m_head])>>

Steps(from, to, n, f) == f = [k \in 0..n |-> IF k = 0 THEN <<from, to>> ELSE MergeStep(f[k - 1])]

\* The recursive definition of merge has a solution.
LEMMA StepsExist ==
    ASSUME NEW from, NEW to, NEW n \in Nat
    PROVE  \E f : Steps(from, to, n, f)
<1> DEFINE Bad == {m \in Nat : ~\E f : Steps(from, to, m, f)}
<1>1. SUFFICES ASSUME Bad # {} PROVE FALSE
  OBVIOUS
<1>2. PICK m \in Bad : \A j \in Bad : ~(j < m)
  <2> HIDE DEF Steps
  <2>1. Bad \subseteq Nat
    OBVIOUS
  <2> HIDE DEF Bad
  <2> QED BY <1>1, <2>1, LeastNat
<1>3. CASE m = 0
  <2> DEFINE f == [k \in 0..0 |-> <<from, to>>]
  <2>1. f = [k \in 0..0 |-> IF k = 0 THEN <<from, to>> ELSE MergeStep(f[k - 1])]
    OBVIOUS
  <2> QED BY <1>2, <1>3, <2>1 DEF Steps
<1>4. CASE m # 0
  <2>1. m - 1 \in Nat /\ m - 1 < m /\ m \in Nat
    BY <1>4
  <2>2. PICK f : Steps(from, to, m - 1, f)
    BY <1>2, <2>1
  <2>3. \A k \in 0..m - 1 : f[k] = IF k = 0 THEN <<from, to>> ELSE MergeStep(f[k - 1])
    BY <2>2, Zenon DEF Steps
  <2> DEFINE g == [k \in 0..m |-> IF k = m THEN MergeStep(f[m - 1]) ELSE f[k]]
  <2>4. ASSUME NEW k \in 0..m
        PROVE  g[k] = IF k = 0 THEN <<from, to>> ELSE MergeStep(g[k - 1])
    <3>1. CASE k = m
      <4>1. g[k] = MergeStep(f[m - 1]) /\ k # 0 /\ k - 1 = m - 1 /\ m - 1 \in 0..m /\ m - 1 # m
        BY <2>1, <1>4, <3>1
      <4>2. g[m - 1] = f[m - 1]
        BY <4>1
      <4> HIDE DEF g
      <4> QED BY <4>1, <4>2, Zenon
    <3>2. CASE k # m /\ k = 0
      <4>1. g[k] = f[k] /\ k \in 0..m - 1
        BY <2>1, <3>2
      <4> HIDE DEF g
      <4> QED BY <2>3, <3>2, <4>1, Zenon
    <3>3. CASE k # m /\ k # 0
      <4>1. k \in 0..m - 1 /\ k - 1 \in 0..m /\ k - 1 # m
        BY <2>1, <3>3
      <4>2. g[k] = f[k] /\ g[k - 1] = f[k - 1]
        BY <3>3, <4>1
      <4> HIDE DEF g
      <4> QED BY <2>3, <3>3, <4>1, <4>2, Zenon
    <3> QED BY <3>1, <3>2, <3>3
  <2>5. Steps(from, to, m, g)
    <3>1. g = [k \in 0..m |-> g[k]]
      OBVIOUS
    <3> HIDE DEF g
    <3>2. [k \in 0..m |-> g[k]] = [k \in 0..m |-> IF k = 0 THEN <<from, to>> ELSE MergeStep(g[k - 1])]
      BY <2>4, Zenon
    <3> QED BY <3>1, <3>2, Zenon DEF Steps
  <2> QED BY <1>2, <2>1, <2>5, Zenon
<1> QED BY <1>3, <1>4

\* What merge computes.
LEMMA MergedIs ==
    ASSUME NEW from, NEW to, from.m_size \in Nat
    PROVE  \E f : Steps(from, to, from.m_size, f) /\ Merged(from, to) = f[from.m_size]
<1> DEFINE N == from.m_size
           step == CHOOSE f : f = [n \in 0..N |->
                      IF n = 0 THEN <<from, to>>
                      ELSE IF IsFull(f[n - 1][2]) \/ IsEmpty(f[n - 1][1]) THEN <<f[n - 1][1], f[n - 1][2]>>
                      ELSE <<pop_front(f[n - 1][1]), push_back(f[n - 1][2], f[n - 1][1].pBuf[f[n - 1][1].m_head])>>]
<1>1. Merged(from, to) = step[N]
  BY Zenon DEF Merged
<1>2. step = CHOOSE f : Steps(from, to, N, f)
  BY Zenon DEF Steps, MergeStep
<1>3. \E f : Steps(from, to, N, f)
  BY StepsExist
<1> HIDE DEF step
<1>4. Steps(from, to, N, step)
  BY <1>2, <1>3, Zenon
<1> QED BY <1>1, <1>4, Zenon

\* How many elements merge moves: what there is, or what there is room for.
Moves(c, d, cap) == IF Len(c) < cap - Len(d) THEN Len(c) ELSE cap - Len(d)

\* The rings after n steps, the content having been c and d: k elements have moved.
After(p, n, c, d, capA, capB) ==
    /\ IsRing(p[1], capA) /\ IsRing(p[2], capB)
    /\ \E k \in 0..Moves(c, d, capB) :
          /\ k = n \/ (k < n /\ k = Moves(c, d, capB))
          /\ Content(p[1]) = SubSeq(c, k + 1, Len(c))
          /\ Content(p[2]) = d \o SubSeq(c, 1, k)

LEMMA AppendBehind ==
    ASSUME NEW s \in Seq(Slot), NEW u \in Seq(Slot), NEW e \in Slot
    PROVE  Append(s \o u, e) = s \o Append(u, e)
OBVIOUS

\* The sequences when one more element has moved.
LEMMA OneMore ==
    ASSUME NEW c \in Seq(Slot), NEW d \in Seq(Slot), NEW k \in Nat, k < Len(c)
    PROVE  /\ SubSeq(c, k + 1, Len(c)) # <<>>
           /\ Head(SubSeq(c, k + 1, Len(c))) = c[k + 1]
           /\ Tail(SubSeq(c, k + 1, Len(c))) = SubSeq(c, k + 2, Len(c))
           /\ Append(d \o SubSeq(c, 1, k), c[k + 1]) = d \o SubSeq(c, 1, k + 1)
           /\ c[k + 1] \in Slot
<1>1. Len(c) \in Nat /\ k + 1 \in 1..Len(c) /\ Len(c) \in k + 1..Len(c) /\ (k + 1) + 1 = k + 2
  OBVIOUS
<1>2. /\ Head(SubSeq(c, k + 1, Len(c))) = c[k + 1]
      /\ Tail(SubSeq(c, k + 1, Len(c))) = SubSeq(c, (k + 1) + 1, Len(c))
  BY <1>1, HeadTailOfSubSeq
<1>3. Len(SubSeq(c, k + 1, Len(c))) = Len(c) - k /\ \A i \in k + 1..Len(c) : c[i] \in Slot
  <2>1. \A i \in k + 1..Len(c) : c[i] \in Slot
    BY <1>1
  <2>2. Len(SubSeq(c, k + 1, Len(c))) = IF k + 1 <= Len(c) THEN Len(c) - (k + 1) + 1 ELSE 0
    BY <1>1, <2>1, SubSeqProperties
  <2> QED BY <1>1, <2>1, <2>2
<1>4. SubSeq(c, k + 1, Len(c)) # <<>>
  <2>1. Len(SubSeq(c, k + 1, Len(c))) # 0
    <3> DEFINE l == Len(SubSeq(c, k + 1, Len(c)))
               lc == Len(c)
    <3>1. l = lc - k /\ lc \in Nat /\ k < lc
      BY <1>1, <1>3
    <3> HIDE DEF l, lc
    <3>2. l # 0
      BY <3>1
    <3> QED BY <3>2 DEF l
  <2> QED BY <2>1, EmptySeq, Zenon
<1>5. c[k + 1] \in Slot
  BY <1>1, <1>3
<1>6. Append(d \o SubSeq(c, 1, k), c[k + 1]) = d \o SubSeq(c, 1, k + 1)
  <2> DEFINE u == SubSeq(c, 1, k)
             v == SubSeq(c, 1, k + 1)
  <2>1. /\ u \in Seq(Slot) /\ Len(u) = k /\ (\A i \in 1..k : u[i] = c[i])
        /\ v \in Seq(Slot) /\ Len(v) = k + 1 /\ (\A i \in 1..k + 1 : v[i] = c[i])
    <3>1. ASSUME NEW j \in 0..Len(c)
          PROVE  /\ SubSeq(c, 1, j) \in Seq(Slot) /\ Len(SubSeq(c, 1, j)) = j
                 /\ \A i \in 1..j : SubSeq(c, 1, j)[i] = c[i]
      <4>1. \A i \in 1..j : c[i] \in Slot
        BY <1>1
      <4>2. 1 \in Int /\ j \in Int
        BY <1>1
      <4>3. /\ SubSeq(c, 1, j) \in Seq(Slot)
            /\ Len(SubSeq(c, 1, j)) = IF 1 <= j THEN j - 1 + 1 ELSE 0
            /\ \A i \in 1..j - 1 + 1 : SubSeq(c, 1, j)[i] = c[1 + i - 1]
        BY <4>1, <4>2, SubSeqProperties
      <4>4. j - 1 + 1 = j /\ (~(1 <= j) => j = 0) /\ \A i \in 1..j : 1 + i - 1 = i
        BY <1>1
      <4> QED BY <4>3, <4>4
    <3>2. k \in 0..Len(c) /\ k + 1 \in 0..Len(c)
      BY <1>1
    <3> QED BY <3>1, <3>2
  <2> DEFINE e == c[k + 1]
  <2>2. e \in Slot /\ v[k + 1] = e /\ \A i \in 1..k : v[i] = u[i]
    BY <1>1, <1>5, <2>1
  <2> HIDE DEF u, v, e
  <2>3. v = Append(u, e)
    BY <2>1, <2>2
  <2>4. Append(d \o u, e) = d \o Append(u, e)
    <3>1. d \in Seq(Slot) /\ u \in Seq(Slot) /\ e \in Slot
      BY <2>1, <2>2
    <3> QED BY <3>1, AppendBehind
  <2> QED BY <2>3, <2>4, Zenon DEF u, v, e
<1> QED BY <1>1, <1>2, <1>4, <1>5, <1>6

LEMMA MergeStepKeeps ==
    ASSUME NEW capA \in Nat \ {0}, NEW capB \in Nat \ {0}, NEW c \in Seq(Slot), NEW d \in Seq(Slot),
           Len(d) <= capB, NEW n \in Nat, NEW p, After(p, n, c, d, capA, capB)
    PROVE  After(MergeStep(p), n + 1, c, d, capA, capB)
<1> DEFINE M == Moves(c, d, capB)
           x == p[1].pBuf[p[1].m_head]
<1>1. IsRing(p[1], capA) /\ IsRing(p[2], capB)
  BY DEF After
<1>2. PICK k \in 0..M : /\ k = n \/ (k < n /\ k = M)
                        /\ Content(p[1]) = SubSeq(c, k + 1, Len(c))
                        /\ Content(p[2]) = d \o SubSeq(c, 1, k)
  BY DEF After
<1>3. Len(c) \in Nat /\ Len(d) \in Nat /\ M \in Nat /\ M <= Len(c) /\ M <= capB - Len(d)
      /\ (M = Len(c) \/ M = capB - Len(d))
  BY DEF Moves
<1> HIDE DEF M
<1>4. Len(Content(p[2])) = Len(d) + k
  <2>1. SubSeq(c, 1, k) \in Seq(Slot) /\ Len(SubSeq(c, 1, k)) = k
    BY <1>3
  <2>2. Len(d \o SubSeq(c, 1, k)) = Len(d) + k
    BY <2>1
  <2> QED BY <1>2, <2>2
<1>5. IsFull(p[2]) <=> Len(d) + k >= capB
  <2>1. <<>> \in Slot
    BY DEF Slot
  <2>2. IsFull(p[2]) <=> Len(Content(p[2])) >= capB
    BY <1>1, <2>1, PushIsAppend
  <2> QED BY <1>4, <2>2
<1>6. IsEmpty(p[1]) <=> k = Len(c)
  <2>1. IsEmpty(p[1]) <=> Content(p[1]) = <<>>
    BY <1>1, PopIsTail
  <2>2. k < Len(c) => SubSeq(c, k + 1, Len(c)) # <<>>
    BY <1>3, OneMore
  <2>3. k = Len(c) => SubSeq(c, k + 1, Len(c)) = <<>>
    BY <1>3, SubSeqEmpty
  <2>4. k \in Nat /\ k <= Len(c)
    BY <1>3
  <2>5. CASE k = Len(c)
    BY <1>2, <2>1, <2>3, <2>5, Zenon
  <2>6. CASE k # Len(c)
    <3>1. k < Len(c)
      BY <1>3, <2>4, <2>6
    <3> QED BY <1>2, <2>1, <2>2, <2>6, <3>1, Zenon
  <2> QED BY <2>5, <2>6
<1>7. CASE k = M
  <2>1. IsFull(p[2]) \/ IsEmpty(p[1])
    BY <1>3, <1>5, <1>6, <1>7
  <2>2. MergeStep(p) = <<p[1], p[2]>>
    BY <2>1, Zenon DEF MergeStep
  <2>3. k < n + 1 /\ MergeStep(p)[1] = p[1] /\ MergeStep(p)[2] = p[2]
    BY <1>2, <2>2
  <2> QED BY <1>1, <1>2, <1>7, <2>3 DEF After, M
<1>8. CASE k # M
  <2>1. k < Len(c) /\ k = n /\ k + 1 \in 0..M /\ ~(Len(d) + k >= capB) /\ k \in Nat /\ k # Len(c)
    <3> DEFINE lc == Len(c)
               ld == Len(d)
    <3>1. /\ lc \in Nat /\ ld \in Nat /\ M \in Nat /\ M <= lc /\ M <= capB - ld
          /\ k \in 0..M /\ (k = n \/ (k < n /\ k = M)) /\ k # M
      BY <1>2, <1>3, <1>8
    <3> HIDE DEF lc, ld
    <3>2. k < lc /\ k = n /\ k + 1 \in 0..M /\ ~(ld + k >= capB) /\ k \in Nat /\ k # lc
      BY <3>1
    <3> QED BY <3>2 DEF lc, ld
  <2>2. MergeStep(p) = <<pop_front(p[1]), push_back(p[2], x)>>
    BY <1>5, <1>6, <2>1, Zenon DEF MergeStep
  <2>3. /\ IsRing(pop_front(p[1]), capA) /\ Content(pop_front(p[1])) = Tail(Content(p[1]))
        /\ x = Head(Content(p[1]))
    BY <1>1, <1>6, <2>1, PopIsTail
  <2>4. x = c[k + 1] /\ x \in Slot /\ Content(pop_front(p[1])) = SubSeq(c, k + 2, Len(c))
        /\ Append(d \o SubSeq(c, 1, k), x) = d \o SubSeq(c, 1, k + 1)
    <3>1. /\ Head(SubSeq(c, k + 1, Len(c))) = c[k + 1]
          /\ Tail(SubSeq(c, k + 1, Len(c))) = SubSeq(c, k + 2, Len(c))
          /\ Append(d \o SubSeq(c, 1, k), c[k + 1]) = d \o SubSeq(c, 1, k + 1)
          /\ c[k + 1] \in Slot
      BY <2>1, OneMore
    <3> HIDE DEF x
    <3> QED BY <1>2, <2>3, <3>1, Zenon
  <2> HIDE DEF x
  <2>5. IsRing(push_back(p[2], x), capB) /\ Content(push_back(p[2], x)) = Append(Content(p[2]), x)
    <3>1. /\ IsRing(push_back(p[2], x), capB)
          /\ Content(push_back(p[2], x)) =
                IF Len(Content(p[2])) < capB THEN Append(Content(p[2]), x) ELSE Content(p[2])
      BY <1>1, <2>4, PushIsAppend
    <3>2. Len(Content(p[2])) < capB
      BY <1>3, <1>4, <2>1
    <3> QED BY <3>1, <3>2, Zenon
  <2>6. MergeStep(p)[1] = pop_front(p[1]) /\ MergeStep(p)[2] = push_back(p[2], x)
    BY <2>2
  <2>7. (k + 1) + 1 = k + 2 /\ k + 1 = n + 1
    BY <2>1
  <2>8. Content(MergeStep(p)[1]) = SubSeq(c, (k + 1) + 1, Len(c))
        /\ Content(MergeStep(p)[2]) = d \o SubSeq(c, 1, k + 1)
    BY <1>2, <2>4, <2>5, <2>6, <2>7, Zenon
  <2>9. IsRing(MergeStep(p)[1], capA) /\ IsRing(MergeStep(p)[2], capB)
    BY <2>3, <2>5, <2>6, Zenon
  <2> QED BY <2>1, <2>7, <2>8, <2>9, Zenon DEF After, M
<1> QED BY <1>7, <1>8

\* Rings r between which merge has moved all it could, their content having been c and d.
MergeDone(r, c, d, capA, capB) ==
    /\ IsRing(r[1], capA) /\ IsRing(r[2], capB)
    /\ Content(r[1]) = SubSeq(c, Moves(c, d, capB) + 1, Len(c))
    /\ Content(r[2]) = d \o SubSeq(c, 1, Moves(c, d, capB))

\* merge moves the first elements, as many as there are or as there is room for.
LEMMA MergeIsConcat ==
    ASSUME NEW capA \in Nat \ {0}, NEW capB \in Nat \ {0}, NEW from, NEW to,
           IsRing(from, capA), IsRing(to, capB)
    PROVE  MergeDone(Merged(from, to), Content(from), Content(to), capA, capB)
<1> DEFINE c == Content(from)
           d == Content(to)
           N == from.m_size
           M == Moves(c, d, capB)
<1>1. c \in Seq(Slot) /\ d \in Seq(Slot) /\ Len(c) \in 0..capA /\ Len(d) \in 0..capB
  BY PopIsTail
<1>2. N = Len(c)
  BY DEF IsRing, Ring, Content
<1>3. N \in Nat /\ M \in Nat /\ M <= N
  BY <1>1, <1>2 DEF Moves
<1>4. PICK f : Steps(from, to, N, f) /\ Merged(from, to) = f[N]
  BY <1>3, MergedIs
<1>5. \A k \in 0..N : f[k] = IF k = 0 THEN <<from, to>> ELSE MergeStep(f[k - 1])
  BY <1>4, Zenon DEF Steps
<1> HIDE DEF N, M
<1> DEFINE Good(k) == After(f[k], k, c, d, capA, capB)
           Bad == {k \in 0..N : ~Good(k)}
<1>6. Good(0)
  <2>1. f[0] = <<from, to>>
    BY <1>3, <1>5
  <2>2. f[0][1] = from /\ f[0][2] = to
    BY <2>1
  <2>3. SubSeq(c, 0 + 1, Len(c)) = c /\ SubSeq(c, 1, 0) = <<>> /\ d \o <<>> = d
    <3> HIDE DEF c, d
    <3> QED BY <1>1, SubSeqFull, SubSeqEmpty, ConcatEmptySeq
  <2>4. 0 \in 0..Moves(c, d, capB)
    BY <1>3 DEF M
  <2> QED BY <2>2, <2>3, <2>4, Zenon DEF After
<1>7. ASSUME Bad # {} PROVE FALSE
  <2>1. Bad \subseteq Nat
    BY <1>3
  <2> HIDE DEF Good
  <2>2. PICK k \in Bad : \A j \in Bad : ~(j < k)
    <3> HIDE DEF Bad
    <3> QED BY <1>7, <2>1, LeastNat
  <2>3. k \in 0..N /\ ~Good(k) /\ k # 0
    BY <1>6, <2>2
  <2>4. k - 1 \in 0..N /\ k - 1 < k /\ k - 1 \in Nat /\ (k - 1) + 1 = k
    BY <1>3, <2>3
  <2>5. Good(k - 1)
    BY <2>2, <2>4
  <2>6. f[k] = MergeStep(f[k - 1])
    BY <1>5, <2>3, Zenon
  <2>7. After(MergeStep(f[k - 1]), (k - 1) + 1, c, d, capA, capB)
    <3>1. Len(d) <= capB
      BY <1>1
    <3> HIDE DEF c, d
    <3>2. After(f[k - 1], k - 1, c, d, capA, capB)
      BY <2>5 DEF Good
    <3> QED BY <1>1, <2>4, <3>1, <3>2, MergeStepKeeps
  <2> QED BY <2>3, <2>4, <2>6, <2>7, Zenon DEF Good
<1>8. Good(N)
  BY <1>3, <1>7
<1>9. PICK k \in 0..M : /\ k = N \/ (k < N /\ k = M)
                        /\ Content(f[N][1]) = SubSeq(c, k + 1, Len(c))
                        /\ Content(f[N][2]) = d \o SubSeq(c, 1, k)
  BY <1>8 DEF After, M
<1>10. k = M
  BY <1>3, <1>9
<1> QED BY <1>4, <1>8, <1>9, <1>10 DEF After, M, MergeDone

\* The inductive invariant: a ring holds its elements from the head on, as many as its size.
RingsInv == IsRing(a, FirstCapacity) /\ IsRing(z, SecondCapacity)

LEMMA RingsShape == RingsInv => RingShape
<1> SUFFICES ASSUME RingsInv PROVE RingShape
  OBVIOUS
<1>1. ASSUME NEW cap \in Nat \ {0}, NEW q, IsRing(q, cap)
      PROVE  /\ q.m_head \in 0..q.m_capacity - 1 /\ q.m_tail \in 0..q.m_capacity - 1
             /\ q.m_size \in 0..q.m_capacity
             /\ q.m_tail = (q.m_head + q.m_size) % q.m_capacity
  <2>1. PICK h \in 0..cap - 1, s \in 0..cap, m \in [0..cap - 1 -> Slot] : q = Ring(cap, h, s, m)
    BY <1>1 DEF IsRing
  <2>2. q.m_head = h /\ q.m_size = s /\ q.m_capacity = cap /\ q.m_tail = (h + s) % cap
    BY <2>1 DEF Ring
  <2>3. (h + s) % cap \in 0..cap - 1
    <3>1. h + s \in 0..2 * cap - 1
      OBVIOUS
    <3> QED BY <3>1, Round
  <2> QED BY <2>2, <2>3, Zenon
<1> QED BY <1>1, ListConstants DEF RingShape, RingsInv

\* The initial rings are the empty sequences.
LEMMA RingsInit == InitList => RingsInv /\ Lists!AbsInit
<1> SUFFICES ASSUME InitList PROVE RingsInv /\ Lists!AbsInit
  OBVIOUS
<1>1. a = NewList(FirstCapacity) /\ z = NewList(SecondCapacity) /\ inUse = {}
  BY DEF InitList
<1>2. /\ IsRing(a, FirstCapacity) /\ Content(a) = <<>>
      /\ IsRing(z, SecondCapacity) /\ Content(z) = <<>>
  BY <1>1, NewIsRing, ListConstants
<1>3. {z.pBuf[i] : i \in inUse} = {}
  BY <1>1
<1> QED BY <1>2, <1>3 DEF RingsInv, Lists!AbsInit

absVars == <<Content(a), Content(z), {z.pBuf[i] : i \in inUse}>>

\* Every step of the rings is one of the sequences.
LEMMA RingsStep == RingsInv /\ [NextList]_listVars => RingsInv' /\ [Lists!AbsNext]_absVars
<1> SUFFICES ASSUME RingsInv, [NextList]_listVars PROVE RingsInv' /\ [Lists!AbsNext]_absVars
  OBVIOUS
<1> DEFINE c == Content(a)
           d == Content(z)
           held == {z.pBuf[i] : i \in inUse}
<1>1. /\ FirstCapacity \in Nat \ {0} /\ SecondCapacity \in Nat \ {0}
      /\ IsRing(a, FirstCapacity) /\ IsRing(z, SecondCapacity)
  BY ListConstants DEF RingsInv
<1>2. ASSUME NEW x \in Items, PushBack(x) PROVE RingsInv' /\ Lists!Push(x)
  <2>1. a' = push_back(a, x) /\ z' = z /\ inUse' = inUse
    BY <1>2 DEF PushBack
  <2>2. /\ IsRing(push_back(a, x), FirstCapacity)
        /\ Content(push_back(a, x)) = IF Len(c) < FirstCapacity THEN Append(c, x) ELSE c
    <3>1. x \in Slot
      BY DEF Slot
    <3> QED BY <1>1, <3>1, PushIsAppend
  <2>3. Content(a)' = (IF Len(c) < FirstCapacity THEN Append(c, x) ELSE c)
    BY <2>1, <2>2 DEF Content
  <2>4. Content(z)' = d /\ held' = held
    BY <2>1 DEF Content
  <2>5. RingsInv'
    BY <1>1, <2>1, <2>2 DEF RingsInv, IsRing
  <2> QED BY <2>3, <2>4, <2>5 DEF Lists!Push
<1>3. CASE Merge
  <2> DEFINE k == Moves(c, d, SecondCapacity)
             m == Merged(a, z)
  <2>1. a' = m[1] /\ z' = m[2] /\ inUse = {} /\ inUse' = {}
    BY <1>3 DEF Merge
  <2>2. /\ IsRing(m[1], FirstCapacity) /\ IsRing(m[2], SecondCapacity)
        /\ Content(m[1]) = SubSeq(c, k + 1, Len(c)) /\ Content(m[2]) = d \o SubSeq(c, 1, k)
    <3>1. MergeDone(Merged(a, z), Content(a), Content(z), FirstCapacity, SecondCapacity)
      BY <1>1, MergeIsConcat
    <3> QED BY <3>1, Zenon DEF MergeDone
  <2> HIDE DEF m
  <2>3. Content(a)' = Content(m[1]) /\ Content(z)' = Content(m[2])
    BY <2>1 DEF Content
  <2>4. held = {} /\ held' = {}
    BY <2>1
  <2>5. RingsInv'
    BY <2>1, <2>2 DEF RingsInv, IsRing
  <2>6. Lists!Merge
    BY <2>2, <2>3, <2>4, Zenon DEF Lists!Merge, Moves
  <2> QED BY <2>5, <2>6, Zenon DEF Lists!AbsNext
<1>4. CASE PopFront
  <2>1. ~IsEmpty(z) /\ inUse' = {z.m_head} /\ z' = pop_front(z) /\ a' = a
    BY <1>4 DEF PopFront
  <2>2. /\ d # <<>> /\ IsRing(pop_front(z), SecondCapacity) /\ Content(pop_front(z)) = Tail(d)
        /\ z.pBuf[z.m_head] = Head(d) /\ pop_front(z).pBuf = z.pBuf
    BY <1>1, <2>1, PopIsTail
  <2>3. Content(z)' = Tail(d) /\ Content(a)' = c
    BY <2>1, <2>2 DEF Content
  <2>4. held' = {Head(d)}
    BY <2>1, <2>2
  <2>5. RingsInv'
    BY <1>1, <2>1, <2>2 DEF RingsInv, IsRing
  <2> QED BY <2>2, <2>3, <2>4, <2>5 DEF Lists!Pop, Lists!AbsNext
<1>5. CASE Done
  <2>1. a' = a /\ z' = z /\ inUse' = {}
    BY <1>5 DEF Done
  <2>2. Content(a)' = c /\ Content(z)' = d /\ held' = {} /\ RingsInv'
    BY <1>1, <2>1 DEF Content, RingsInv, IsRing
  <2> QED BY <2>2 DEF Lists!Release, Lists!AbsNext
<1>6. CASE UNCHANGED listVars
  <2>1. a' = a /\ z' = z /\ inUse' = inUse
    BY <1>6 DEF listVars
  <2>2. Content(a)' = c /\ Content(z)' = d /\ held' = held /\ RingsInv'
    BY <1>1, <2>1 DEF Content, RingsInv, IsRing
  <2> QED BY <2>2 DEF absVars
<1> QED BY <1>2, <1>3, <1>4, <1>5, <1>6, Zenon DEF NextList, Lists!AbsNext

\* Two rings are the bounded sequences their users take them for, however often they come round,
\* for any capacities and elements; their heads, tails and sizes agree, and an element that was
\* popped is not overwritten while it is in use (push_back, pop_front, merge).
THEOREM RingsImplementLists == SpecList => RingsKept
<1>1. RingsInv => RingShape
  BY RingsShape
<1>2. InitList => RingsInv /\ Lists!AbsInit
  BY RingsInit
<1>3. RingsInv /\ [NextList]_listVars => RingsInv'
  BY RingsStep
<1>4. RingsInv /\ [NextList]_listVars => [Lists!AbsNext]_absVars
  BY RingsStep
<1> QED BY <1>1, <1>2, <1>3, <1>4, PTL DEF SpecList, RingsKept, RingsAreLists, Lists!AbsSpec, absVars

-----------------------------------------------------------------------------
(* SqlHandle.                                                               *)

\* The session of the connection has inserted the row the handle has inserted last, or none.
IdInv ==
    /\ generated \in Nat /\ identity \in Nat
    /\ identity > 0 => identity = inserted
    /\ IdIsOfLast

LEMMA ExecKeepsId ==
    ASSUME IdInv, NEW t, NEW n, NEW id \in Nat \cup {NoId}, id > 0 \/ id = NoId, execSql(t, n, id)
    PROVE  IdInv'
<1>1. CASE /\ generated' = IF id = NoId THEN generated ELSE id
           /\ identity' = IF id = NoId THEN identity ELSE id
           /\ inserted' = IF id = NoId THEN inserted ELSE id
           /\ Told(n)
  BY <1>1 DEF IdInv, IdIsOfLast, Told, NoId
<1>2. ASSUME NEW run \in {0, 1}, Fails(run), Told(-1),
             generated' = IF run = 1 /\ id # NoId THEN id ELSE generated,
             inserted' = IF run = 1 /\ id # NoId THEN id ELSE inserted
      PROVE  IdInv'
  <2>1. identity' = 0 \/ (run = 0 /\ identity' = identity)
    BY <1>2 DEF Fails
  <2> QED BY <1>2, <2>1 DEF IdInv, IdIsOfLast, Told, NoId
<1> QED BY <1>1, <1>2 DEF execSql

LEMMA RefusedKeepsId ==
    ASSUME IdInv, Refused PROVE IdInv'
BY DEF IdInv, IdIsOfLast, Refused, Told

LEMMA NextKeepsId ==
    ASSUME IdInv, [NextHandle]_handleVars PROVE IdInv'
<1>1. CASE UNCHANGED handleVars
  BY <1>1 DEF handleVars, IdInv, IdIsOfLast
<1>2. ASSUME NEW column \in WriteColumns, NEW st \in Structs, NEW ne \in BOOLEAN, execInsert(column, st, ne)
      PROVE  IdInv'
  <2> DEFINE row == RowOf([id |-> generated + 1, k |-> 0, v |-> 0], column, st)
  <2>1. row.id = generated + 1 /\ generated + 1 \in Nat /\ generated + 1 > 0
    BY DEF RowOf, IdInv
  <2> HIDE DEF row
  <2>2. Refused \/ execSql(table, 0, NoId) \/ execSql(Append(table, row), 1, row.id)
    BY <1>2 DEF execInsert, row
  <2>3. CASE Refused
    BY <2>3, RefusedKeepsId
  <2>4. CASE execSql(table, 0, NoId)
    BY <2>4, ExecKeepsId
  <2>5. CASE execSql(Append(table, row), 1, row.id)
    BY <2>5, <2>1, ExecKeepsId
  <2> QED BY <2>2, <2>3, <2>4, <2>5
<1>3. ASSUME NEW column \in WriteColumns, NEW st \in Structs, NEW key \in Values, execUpdate(column, st, key)
      PROVE  IdInv'
  <2>1. PICK t, n : execSql(t, n, NoId)
    BY <1>3 DEF execUpdate
  <2> QED BY <2>1, ExecKeepsId
<1>4. ASSUME NEW key \in Values, execDelete(key) PROVE IdInv'
  <2>1. PICK t, n : execSql(t, n, NoId)
    BY <1>4 DEF execDelete
  <2> QED BY <2>1, ExecKeepsId
<1>5. ASSUME NEW column \in ReadColumns, NEW names \in Selects, execSelectSql(column, names) PROVE IdInv'
  <2>1. /\ m_bocangetqinid' = FALSE /\ generated' = generated /\ inserted' = inserted
        /\ identity' = identity \/ identity' = 0
    BY <1>5 DEF execSelectSql, Fails
  <2> QED BY <2>1 DEF IdInv, IdIsOfLast
<1>6. ASSUME getinsertid PROVE IdInv'
  <2>1. CASE /\ m_bocangetqinid' = (identity > 0)
             /\ m_qinid' = IF identity > 0 THEN identity ELSE NoId
             /\ UNCHANGED identity
    <3>1. UNCHANGED <<generated, inserted>> /\ (m_bocangetqinid' => identity > 0)
      BY <1>6, <2>1 DEF getinsertid
    <3>2. CASE identity > 0
      BY <2>1, <3>1, <3>2 DEF IdInv, IdIsOfLast, NoId
    <3>3. CASE ~(identity > 0)
      BY <2>1, <3>1, <3>3 DEF IdInv, IdIsOfLast
    <3> QED BY <3>2, <3>3
  <2>2. CASE Fails(0) /\ m_bocangetqinid' = FALSE
    BY <1>6, <2>2 DEF getinsertid, Fails, IdInv, IdIsOfLast
  <2> QED BY <1>6, <2>1, <2>2 DEF getinsertid
<1> QED BY <1>1, <1>2, <1>3, <1>4, <1>5, <1>6 DEF NextHandle

\* An id that can be had without asking the server is that of the row inserted last: every statement
\* takes the id fetched before from its callers, and the connection that a failure leaves has
\* inserted nothing (execSql, getinsertid).
THEOREM HandleHasIdOfLast == SpecHandle => []IdIsOfLast
<1>1. InitHandle => IdInv
  BY DEF InitHandle, IdInv, IdIsOfLast
<1>2. IdInv /\ [NextHandle]_handleVars => IdInv'
  BY NextKeepsId
<1>3. IdInv => IdIsOfLast
  BY DEF IdInv
<1> QED BY <1>1, <1>2, <1>3, PTL DEF SpecHandle

-----------------------------------------------------------------------------
(* Logger.                                                                  *)

Levels == {eLoggerLevel[n] : n \in DOMAIN eLoggerLevel} \cup {zOFF}
Given == {strlevltoint[n] : n \in Settings} \cup Numbers \cup {-1, 2}

CallRecord ==
    [pc : {"idle", "logbylevel", "show", "write", "returned"}, api : Apis, level : Levels,
     shown : BOOLEAN, written : BOOLEAN, said : BOOLEAN, seen : SUBSET (Given \X Given)]

\* What a call has said and done so far agrees with settings it may have met.
SeenLets(c) == \E p \in c.seen : Lets(c, p[1], p[2])
ShownRightly(c) ==
    /\ c.shown => \E p \in c.seen : ShowNeeds(c) <= p[2]
    /\ (\A p \in c.seen : ShowNeeds(c) <= p[2]) => c.shown
WrittenRightly(c) ==
    /\ c.written => \E p \in c.seen : WriteNeeds(c) <= p[1]
    /\ (\A p \in c.seen : WriteNeeds(c) <= p[1]) => c.written
SaidRightly(c) == c.said # (c.shown \/ c.written) => c.said /\ \E p, q \in c.seen : p # q

CallRight(c) ==
    /\ c.pc \in {"logbylevel", "show", "write"} => c.said /\ SeenLets(c)
    /\ c.pc \in {"logbylevel", "show"} => ~c.shown /\ ~c.written
    /\ c.pc \in {"write", "returned"} => ShownRightly(c)
    /\ c.pc = "returned" => WrittenRightly(c) /\ SaidRightly(c)

\* Every call under way has seen the levels as they are.
Meets(c, w, s) == c.pc # "idle" => <<w, s>> \in c.seen

LogInv ==
    /\ m_nWriteLvl \in Given /\ m_nShowLvl \in Given /\ setting \in Given \cup {NoLevel}
    /\ calls \in [Threads -> CallRecord]
    /\ \A t \in Threads : CallRight(calls[t]) /\ Meets(calls[t], m_nWriteLvl, m_nShowLvl)

LEMMA NoteKeeps ==
    ASSUME NEW c \in CallRecord, CallRight(c), NEW w \in Given, NEW s \in Given,
           NEW d, d = [c EXCEPT !.seen = @ \cup {<<w, s>>}]
    PROVE  d \in CallRecord /\ CallRight(d) /\ Meets(d, w, s)
<1>1. /\ d.pc = c.pc /\ d.api = c.api /\ d.level = c.level /\ d.shown = c.shown
      /\ d.written = c.written /\ d.said = c.said /\ d.seen = c.seen \cup {<<w, s>>}
  BY DEF CallRecord
<1>2. d \in CallRecord
  <2>1. c.seen \cup {<<w, s>>} \in SUBSET (Given \X Given)
    BY DEF CallRecord
  <2> QED BY <2>1 DEF CallRecord
<1>3. ShowNeeds(d) = ShowNeeds(c) /\ WriteNeeds(d) = WriteNeeds(c)
  BY <1>1 DEF ShowNeeds, WriteNeeds
<1>4. SeenLets(c) => SeenLets(d)
  BY <1>1, <1>3 DEF SeenLets, Lets
<1>5. ShownRightly(c) => ShownRightly(d)
  BY <1>1, <1>3 DEF ShownRightly
<1>6. WrittenRightly(c) => WrittenRightly(d)
  BY <1>1, <1>3 DEF WrittenRightly
<1>7. SaidRightly(c) => SaidRightly(d)
  BY <1>1 DEF SaidRightly
<1>8. CallRight(d)
  BY <1>1, <1>4, <1>5, <1>6, <1>7 DEF CallRight
<1> QED BY <1>1, <1>2, <1>8 DEF Meets

LEMMA NotedByAll ==
    ASSUME LogInv, NEW w \in Given, NEW s \in Given, calls' = Note(w, s)
    PROVE  /\ calls' \in [Threads -> CallRecord]
           /\ \A t \in Threads : CallRight(calls'[t]) /\ Meets(calls'[t], w, s)
<1>1. calls' = [t \in Threads |-> calls'[t]]
  BY DEF Note
<1>2. ASSUME NEW t \in Threads
      PROVE  calls'[t] \in CallRecord /\ CallRight(calls'[t]) /\ Meets(calls'[t], w, s)
  <2>1. calls'[t] = [calls[t] EXCEPT !.seen = @ \cup {<<w, s>>}]
    BY DEF Note
  <2>2. calls[t] \in CallRecord /\ CallRight(calls[t])
    BY DEF LogInv
  <2> HIDE DEF LogInv
  <2> QED BY <2>1, <2>2, NoteKeeps
<1> QED BY <1>1, <1>2

\* One thread's step: the others' calls and the levels stay.
LEMMA CallStepKeeps ==
    ASSUME LogInv, NEW t \in Threads, NEW c, calls' = [calls EXCEPT ![t] = c],
           UNCHANGED <<m_nWriteLvl, m_nShowLvl, setting>>,
           c \in CallRecord, CallRight(c), Meets(c, m_nWriteLvl, m_nShowLvl)
    PROVE  LogInv'
BY DEF LogInv

LEMMA LevelsAreGiven ==
    /\ 2 \in Given /\ -1 \in Given
    /\ \A n \in Settings : strlevltoint[n] \in Given
    /\ Numbers \subseteq Given
BY DEF Given

LEMMA IdleIsRight ==
    Idle \in CallRecord /\ Idle.pc = "idle"
<1>1. 0 \in Levels
  BY DEF Levels, eLoggerLevel
<1> QED BY <1>1 DEF Idle, CallRecord, Apis

LEMMA LogInitRight == InitLog => LogInv
<1> SUFFICES ASSUME InitLog PROVE LogInv
  OBVIOUS
<1>1. Idle \in CallRecord /\ Idle.pc = "idle"
  BY IdleIsRight
<1>2. CallRight(Idle) /\ Meets(Idle, m_nWriteLvl, m_nShowLvl)
  BY <1>1 DEF CallRight, Meets
<1>3. \A t \in Threads : calls[t] = Idle
  BY DEF InitLog
<1>4. /\ m_nWriteLvl \in Given /\ m_nShowLvl \in Given /\ setting = NoLevel
      /\ calls = [t \in Threads |-> Idle]
  BY LevelsAreGiven DEF InitLog
<1> QED BY <1>1, <1>2, <1>3, <1>4 DEF LogInv

LEMMA CallKeeps ==
    ASSUME LogInv, NEW t \in Threads, Call(t) PROVE LogInv'
<1>1. PICK api \in Apis, level \in Levels :
         LET c == [Idle EXCEPT !.api = api, !.level = level, !.seen = {<<m_nWriteLvl, m_nShowLvl>>}]
         IN calls' = [calls EXCEPT ![t] =
               IF api = "error_out" => level = eLoggerLevel.ERROR
               THEN [c EXCEPT !.pc = CASE ~Lets(c, m_nWriteLvl, m_nShowLvl) -> "returned"
                                       [] Lets(c, m_nWriteLvl, m_nShowLvl)
                                            /\ api \in {"log", "error_out"} -> "logbylevel"
                                       [] OTHER -> "show",
                              !.said = Lets(c, m_nWriteLvl, m_nShowLvl)]
               ELSE calls[t]]
  BY DEF Call, Levels
<1> DEFINE c == [Idle EXCEPT !.api = api, !.level = level, !.seen = {<<m_nWriteLvl, m_nShowLvl>>}]
           lets == Lets(c, m_nWriteLvl, m_nShowLvl)
           at == CASE ~lets -> "returned"
                   [] lets /\ api \in {"log", "error_out"} -> "logbylevel"
                   [] OTHER -> "show"
           d == [c EXCEPT !.pc = at, !.said = lets]
<1>2. UNCHANGED <<m_nWriteLvl, m_nShowLvl, setting>>
  BY DEF Call
<1>3. m_nWriteLvl \in Given /\ m_nShowLvl \in Given
  BY DEF LogInv
<1>4. lets \in BOOLEAN
  BY DEF Lets
<1>5. at \in {"returned", "logbylevel", "show"} /\ (at = "returned" <=> ~lets)
  BY <1>4
<1> HIDE DEF lets, at
<1>6. /\ d \in CallRecord /\ d.pc = at /\ d.api = c.api /\ d.level = c.level /\ d.shown = FALSE
      /\ d.written = FALSE /\ d.said = lets /\ d.seen = {<<m_nWriteLvl, m_nShowLvl>>}
  <2>1. Idle \in CallRecord /\ Idle.shown = FALSE /\ Idle.written = FALSE
    BY IdleIsRight DEF Idle
  <2>2. {<<m_nWriteLvl, m_nShowLvl>>} \in SUBSET (Given \X Given)
    BY <1>3
  <2>3. /\ c \in CallRecord /\ c.shown = FALSE /\ c.written = FALSE
        /\ c.seen = {<<m_nWriteLvl, m_nShowLvl>>}
    BY <2>1, <2>2 DEF CallRecord
  <2> HIDE DEF c
  <2>4. at \in {"idle", "logbylevel", "show", "write", "returned"}
    BY <1>5
  <2> QED BY <1>4, <2>3, <2>4 DEF CallRecord
<1>7. lets <=> ShowNeeds(d) <= m_nShowLvl \/ WriteNeeds(d) <= m_nWriteLvl
  <2>1. ShowNeeds(d) = ShowNeeds(c) /\ WriteNeeds(d) = WriteNeeds(c)
    BY <1>6 DEF ShowNeeds, WriteNeeds
  <2> QED BY <2>1 DEF lets, Lets
<1> HIDE DEF c
<1>8. CASE ~(api = "error_out" => level = eLoggerLevel.ERROR)
  <2>1. calls' = calls
    BY <1>1, <1>8 DEF LogInv
  <2> QED BY <2>1, <1>2 DEF LogInv
<1>9. CASE api = "error_out" => level = eLoggerLevel.ERROR
  <2>1. calls' = [calls EXCEPT ![t] = d]
    BY <1>1, <1>9, Zenon DEF at, lets, c
  <2> HIDE DEF d
  <2>2. d \in CallRecord
    BY <1>6
  <2>3. /\ d.seen = {<<m_nWriteLvl, m_nShowLvl>>} /\ d.pc = at /\ d.shown = FALSE /\ d.written = FALSE
        /\ d.said = lets
    BY <1>6
  <2>4. CASE lets
    <3>1. SeenLets(d)
      BY <1>7, <2>3, <2>4 DEF SeenLets, Lets
    <3> QED BY <1>2, <1>5, <2>1, <2>2, <2>3, <2>4, <3>1, CallStepKeeps DEF CallRight, Meets
  <2>5. CASE ~lets
    <3>1. ShownRightly(d) /\ WrittenRightly(d) /\ SaidRightly(d)
      BY <1>4, <1>7, <2>3, <2>5 DEF ShownRightly, WrittenRightly, SaidRightly
    <3>2. CallRight(d) /\ Meets(d, m_nWriteLvl, m_nShowLvl)
      BY <1>5, <2>3, <2>5, <3>1 DEF CallRight, Meets
    <3> QED BY <1>2, <2>1, <2>2, <3>2, CallStepKeeps
  <2> QED BY <2>4, <2>5
<1> QED BY <1>8, <1>9

LEMMA AgainKeeps ==
    ASSUME LogInv, NEW t \in Threads, logbylevel(t) PROVE LogInv'
<1> DEFINE c == calls[t]
           lets == Lets(c, m_nWriteLvl, m_nShowLvl)
           d == [c EXCEPT !.pc = IF lets THEN "show" ELSE "returned"]
<1>1. /\ c \in CallRecord /\ CallRight(c) /\ Meets(c, m_nWriteLvl, m_nShowLvl)
      /\ c.pc = "logbylevel"
  BY DEF LogInv, logbylevel
<1>2. calls' = [calls EXCEPT ![t] = d] /\ UNCHANGED <<m_nWriteLvl, m_nShowLvl, setting>>
  BY DEF logbylevel
<1>3. /\ d \in CallRecord /\ d.pc = IF lets THEN "show" ELSE "returned"
      /\ d.api = c.api /\ d.level = c.level /\ d.shown = c.shown
      /\ d.written = c.written /\ d.said = c.said /\ d.seen = c.seen
  BY <1>1 DEF CallRecord
<1>4. ShowNeeds(d) = ShowNeeds(c) /\ WriteNeeds(d) = WriteNeeds(c)
  BY <1>3 DEF ShowNeeds, WriteNeeds
<1> HIDE DEF d
<1>5. lets <=> ShowNeeds(d) <= m_nShowLvl \/ WriteNeeds(d) <= m_nWriteLvl
  BY <1>4 DEF Lets
<1> HIDE DEF c, lets
<1>6. /\ SeenLets(d) /\ d.said /\ ~d.shown /\ ~d.written /\ <<m_nWriteLvl, m_nShowLvl>> \in d.seen
  BY <1>1, <1>3, <1>4 DEF CallRight, SeenLets, Lets, Meets
<1>7. CASE lets
  <2>1. CallRight(d) /\ Meets(d, m_nWriteLvl, m_nShowLvl)
    BY <1>3, <1>6, <1>7 DEF CallRight, Meets
  <2> QED BY <1>2, <1>3, <2>1, CallStepKeeps
<1>8. CASE ~lets
  <2>1. ShownRightly(d) /\ WrittenRightly(d)
    BY <1>5, <1>6, <1>8 DEF ShownRightly, WrittenRightly
  <2>2. SaidRightly(d)
    <3>1. PICK p \in d.seen : ShowNeeds(d) <= p[2] \/ WriteNeeds(d) <= p[1]
      BY <1>6 DEF SeenLets, Lets
    <3>2. p # <<m_nWriteLvl, m_nShowLvl>>
      BY <1>5, <1>8, <3>1
    <3> QED BY <1>6, <3>2 DEF SaidRightly
  <2>3. CallRight(d) /\ Meets(d, m_nWriteLvl, m_nShowLvl)
    BY <1>3, <1>6, <1>8, <2>1, <2>2 DEF CallRight, Meets
  <2> QED BY <1>2, <1>3, <2>3, CallStepKeeps
<1> QED BY <1>7, <1>8

LEMMA ShowKeeps ==
    ASSUME LogInv, NEW t \in Threads, ShowLog(t) PROVE LogInv'
<1> DEFINE c == calls[t]
           d == [c EXCEPT !.pc = "write", !.shown = ShowNeeds(c) <= m_nShowLvl]
<1>1. /\ c \in CallRecord /\ CallRight(c) /\ Meets(c, m_nWriteLvl, m_nShowLvl)
      /\ c.pc = "show"
  BY DEF LogInv, ShowLog
<1>2. calls' = [calls EXCEPT ![t] = d] /\ UNCHANGED <<m_nWriteLvl, m_nShowLvl, setting>>
  BY DEF ShowLog, LogInv
<1>3. (ShowNeeds(c) <= m_nShowLvl) \in BOOLEAN
  OBVIOUS
<1>4. /\ d \in CallRecord /\ d.pc = "write"
      /\ d.api = c.api /\ d.level = c.level /\ d.shown = (ShowNeeds(c) <= m_nShowLvl)
      /\ d.written = c.written /\ d.said = c.said /\ d.seen = c.seen
  BY <1>1, <1>3 DEF CallRecord
<1>5. ShowNeeds(d) = ShowNeeds(c) /\ WriteNeeds(d) = WriteNeeds(c)
  BY <1>4 DEF ShowNeeds, WriteNeeds
<1> HIDE DEF c, d
<1>6. d.said /\ SeenLets(d) /\ <<m_nWriteLvl, m_nShowLvl>> \in d.seen
  BY <1>1, <1>4, <1>5 DEF CallRight, SeenLets, Lets, Meets
<1>7. ShownRightly(d)
  BY <1>4, <1>5, <1>6 DEF ShownRightly
<1>8. CallRight(d) /\ Meets(d, m_nWriteLvl, m_nShowLvl)
  BY <1>4, <1>6, <1>7 DEF CallRight, Meets
<1> QED BY <1>2, <1>4, <1>8, CallStepKeeps

LEMMA WriteKeeps ==
    ASSUME LogInv, NEW t \in Threads, WriteLog(t) PROVE LogInv'
<1> DEFINE c == calls[t]
           d == [c EXCEPT !.pc = "returned", !.written = WriteNeeds(c) <= m_nWriteLvl]
<1>1. /\ c \in CallRecord /\ CallRight(c) /\ Meets(c, m_nWriteLvl, m_nShowLvl)
      /\ c.pc = "write"
  BY DEF LogInv, WriteLog
<1>2. calls' = [calls EXCEPT ![t] = d] /\ UNCHANGED <<m_nWriteLvl, m_nShowLvl, setting>>
  BY DEF WriteLog, LogInv
<1>3. (WriteNeeds(c) <= m_nWriteLvl) \in BOOLEAN
  OBVIOUS
<1>4. /\ d \in CallRecord /\ d.pc = "returned"
      /\ d.api = c.api /\ d.level = c.level /\ d.shown = c.shown
      /\ d.written = (WriteNeeds(c) <= m_nWriteLvl) /\ d.said = c.said /\ d.seen = c.seen
  BY <1>1, <1>3 DEF CallRecord
<1>5. ShowNeeds(d) = ShowNeeds(c) /\ WriteNeeds(d) = WriteNeeds(c)
  BY <1>4 DEF ShowNeeds, WriteNeeds
<1> HIDE DEF c, d
<1>6. d.said /\ SeenLets(d) /\ <<m_nWriteLvl, m_nShowLvl>> \in d.seen /\ ShownRightly(d)
  BY <1>1, <1>4, <1>5 DEF CallRight, SeenLets, Lets, Meets, ShownRightly
<1>7. WrittenRightly(d)
  BY <1>4, <1>5, <1>6 DEF WrittenRightly
<1>8. SaidRightly(d)
  <2> SUFFICES ASSUME d.said # (d.shown \/ d.written) PROVE d.said /\ \E p, q \in d.seen : p # q
    BY DEF SaidRightly
  <2>1. ~d.shown /\ ~d.written
    BY <1>4, <1>6 DEF CallRecord
  <2>2. PICK p \in d.seen : ShowNeeds(d) <= p[2] \/ WriteNeeds(d) <= p[1]
    BY <1>6 DEF SeenLets, Lets
  <2>3. \E q \in d.seen : q # p
    BY <1>6, <1>7, <2>1, <2>2 DEF ShownRightly, WrittenRightly
  <2> QED BY <1>6, <2>3
<1>9. CallRight(d) /\ Meets(d, m_nWriteLvl, m_nShowLvl)
  BY <1>4, <1>6, <1>7, <1>8 DEF CallRight, Meets
<1> QED BY <1>2, <1>4, <1>9, CallStepKeeps

LEMMA LogNextKeeps ==
    ASSUME LogInv, [NextLog]_logVars PROVE LogInv'
<1>1. CASE UNCHANGED logVars
  BY <1>1 DEF logVars, LogInv
<1>2. CASE setLevel
  <2>1. PICK w, s \in {strlevltoint[n] : n \in Settings} \cup Numbers :
           m_nWriteLvl' = w /\ setting' = s /\ calls' = Note(w, m_nShowLvl)
    BY <1>2 DEF setLevel
  <2>2. w \in Given /\ s \in Given /\ m_nShowLvl \in Given /\ m_nShowLvl' = m_nShowLvl
    BY <1>2 DEF Given, LogInv, setLevel
  <2> QED BY <2>1, <2>2, NotedByAll DEF LogInv
<1>3. CASE setLevelShow
  <2>1. /\ setting \in Given /\ m_nWriteLvl \in Given
        /\ m_nShowLvl' = setting /\ setting' = NoLevel /\ m_nWriteLvl' = m_nWriteLvl
        /\ calls' = Note(m_nWriteLvl, setting)
    BY <1>3 DEF LogInv, setLevelShow
  <2> QED BY <2>1, NotedByAll DEF LogInv
<1>4. ASSUME NEW t \in Threads, Return(t) PROVE LogInv'
  <2>1. Idle \in CallRecord /\ Idle.pc = "idle"
    BY IdleIsRight
  <2>2. CallRight(Idle) /\ Meets(Idle, m_nWriteLvl, m_nShowLvl)
    BY <2>1 DEF CallRight, Meets
  <2> QED BY <1>4, <2>1, <2>2, CallStepKeeps DEF Return
<1> QED BY <1>1, <1>2, <1>3, <1>4, CallKeeps, AgainKeeps, ShowKeeps, WriteKeeps DEF NextLog

\* However many threads log while the levels change, a call shows and writes what a setting it met
\* says, and says so unless the setting changed under it (log, logbylevel, ShowLog).
THEOREM LogCallsAgree == SpecLog => []LevelsAgree
<1>1. LogInv => LevelsAgree
  <2> SUFFICES ASSUME LogInv, NEW t \in Threads, calls[t].pc = "returned"
               PROVE  ShownRightly(calls[t]) /\ WrittenRightly(calls[t]) /\ SaidRightly(calls[t])
    BY DEF LevelsAgree, ShownRightly, WrittenRightly, SaidRightly
  <2>1. CallRight(calls[t])
    BY DEF LogInv
  <2> QED BY <2>1 DEF CallRight
<1> QED BY <1>1, LogInitRight, LogNextKeeps, PTL DEF SpecLog

-----------------------------------------------------------------------------
(* MsgTrans.                                                                *)

Packet ==
    {p \in [size : Nat, packed : Nat] :
        /\ p.size > 0 /\ p.size <= nmaxsize /\ p.packed <= nmaxsize /\ Wire(p) <= nmaxsize
        /\ p.packed = 0 \/ p.packed >= 20}

QueueMsg == {m \in [cmdsize : Nat, room : Nat] : m.cmdsize <= m.room}

\* What decodeMessage makes of a packet.
DecodedSize(p) == IF SizeAllowed(p) THEN getmsg2buf(p, tmpMsgBufferSize(p)) ELSE 0

\* What can be said of the result of a packet.
ResultOf(p, r) ==
    /\ r \in {0, p.size}
    /\ p.size >= 2 /\ p.packed <= p.size + 64 => r = p.size

MsgInv ==
    /\ cache_ \in Seq(Packet) /\ sent \in Seq(Packet)
    /\ results \in Seq(Nat) /\ Len(results) <= Len(sent)
    /\ \A i \in 1..Len(results) : ResultOf(sent[i], results[i])
    /\ cmd_queue_ \in Seq(QueueMsg) /\ live = Len(cmd_queue_)

LEMMA Rounded ==
    ASSUME NEW n \in Nat
    PROVE  /\ RoundUp(n, 8) \in Nat /\ RoundUp(n, 8) >= n /\ RoundUp(n, 8) % 8 = 0
           /\ RoundUp(n, 64) \in Nat /\ RoundUp(n, 64) >= n
<1>1. ((n + 8 - 1) \div 8) \in Nat /\ ((n + 8 - 1) \div 8) * 8 >= n
  OBVIOUS
<1>2. \A k \in Nat : (k * 8) % 8 = 0
  OBVIOUS
<1>3. ((n + 64 - 1) \div 64) \in Nat /\ ((n + 64 - 1) \div 64) * 64 >= n
  OBVIOUS
<1> QED BY <1>1, <1>2, <1>3 DEF RoundUp

LEMMA PacketMade ==
    ASSUME NEW size \in Sizes, NEW zliblevel, NEW p \in packetbuf(size, zliblevel)
    PROVE  p \in Packet
<1>1. /\ size \in Nat /\ size > 0 /\ size + 8 <= nmaxsize /\ nmaxsize \in Nat
      /\ p.packed <= nmaxsize /\ Wire(p) <= nmaxsize
  BY MsgTransConstants DEF packetbuf, nmaxsize, _MIN_PACKETBUF_SIZE_
<1>2. CASE p \in [size : {size}, packed : {0}]
  BY <1>1, <1>2 DEF Packet
<1>3. CASE p \in [size : {size}, packed : Deflated(size)] /\ size > MINZLIBPACKSIZE
  <2>1. size > 54
    BY <1>3 DEF MINZLIBPACKSIZE, HdrSize, CmdLenSize
  <2>2. \A x \in Deflated(size) : x \in Nat /\ x >= 20
    <3>1. size \div 16383 \in Nat
      BY <1>1
    <3> QED BY <1>1, <2>1, <3>1 DEF Deflated
  <2>3. p \in [size : Nat, packed : Nat] /\ p.size = size /\ p.packed >= 20
    BY <1>1, <1>3, <2>2
  <2> QED BY <1>1, <2>3 DEF Packet
<1> QED BY <1>2, <1>3 DEF packetbuf

\* A size that PacketSizeCheck lets through.
LongestCut == 10 * 1024 * 1024
CanBeCut(w) == w % 8 = 0 /\ w \in 8..LongestCut

LEMMA PacketWire ==
    ASSUME NEW p \in Packet PROVE CanBeCut(Wire(p))
<1> DEFINE n == getpacketsize(p)
<1>1. n \in Nat /\ n >= 7
  BY DEF Packet, getpacketsize, SizeField, iscompress, HdrSize, CmdLenSize
<1>2. Wire(p) = RoundUp(n, 8)
  BY DEF Wire
<1> HIDE DEF n
<1>3. Wire(p) \in Nat /\ Wire(p) >= 7 /\ Wire(p) % 8 = 0
  BY <1>1, <1>2, Rounded
<1>4. Wire(p) <= nmaxsize /\ nmaxsize \in Nat /\ nmaxsize < 1024 * 1024 * 10
  BY MsgTransConstants DEF Packet, nmaxsize
<1>5. \A w \in Nat : w >= 7 /\ w % 8 = 0 => w >= 8
  OBVIOUS
<1>6. 1024 * 1024 * 10 = LongestCut /\ LongestCut \in Nat
  BY DEF LongestCut
<1>7. \A w, m, k \in Nat : w <= m /\ m < k => w <= k
  OBVIOUS
<1>8. Wire(p) <= LongestCut /\ Wire(p) >= 8
  BY <1>3, <1>4, <1>5, <1>6, <1>7
<1>9. Wire(p) \in 8..LongestCut
  BY <1>3, <1>6, <1>8
<1> QED BY <1>3, <1>9, Zenon DEF CanBeCut

LEMMA Decoding ==
    ASSUME NEW p \in Packet
    PROVE  /\ DecodedSize(p) > 0 => ResultOf(p, DecodedSize(p))
           /\ ~(DecodedSize(p) > 0) => ResultOf(p, 0)
           /\ DecodedSize(p) > 0 =>
                 [cmdsize |-> DecodedSize(p), room |-> tmpMsgBufferSize(p)] \in QueueMsg
           /\ DecodedSize(p) \in Int
<1> DEFINE n == p.size
           zipped == p.packed
           t == tmpMsgBufferSize(p)
           f == SizeField(p)
<1>1. n \in Nat /\ zipped \in Nat /\ n > 0 /\ n < 1024 * 1024 * 10 /\ zipped < 1024 * 1024 * 10 /\ (zipped = 0 \/ zipped >= 20)
  <2>1. nmaxsize \in Nat /\ nmaxsize < 1024 * 1024 * 10
    BY MsgTransConstants DEF nmaxsize
  <2> QED BY <2>1 DEF Packet
<1>2. t \in Nat /\ t >= n + 64
  BY <1>1, Rounded DEF tmpMsgBufferSize, getcmdsize
<1>3. f = IF zipped > 0 THEN zipped ELSE n
  BY DEF SizeField, iscompress
<1>4. DecodedSize(p) \in {n, 0, -2, -3}
  BY DEF DecodedSize, getmsg2buf, getcmdsize
<1>5. n >= 2 /\ zipped <= n + 64 => DecodedSize(p) = n
  <2> SUFFICES ASSUME n >= 2, zipped <= n + 64 PROVE DecodedSize(p) = n
    OBVIOUS
  <2> HIDE DEF f, n, zipped, t
  <2>1. f >= 2 /\ f < 1024 * 1024 * 10 /\ ~(f > t) /\ ~(n > t)
    BY <1>1, <1>2, <1>3
  <2> QED BY <2>1 DEF DecodedSize, SizeAllowed, getmsg2buf, getcmdsize, f, n, t
<1> HIDE DEF n, zipped, t
<1>6. DecodedSize(p) \in Int
  BY <1>1, <1>4
<1>7. DecodedSize(p) > 0 => DecodedSize(p) = n
  BY <1>4
<1>8. DecodedSize(p) > 0 => [cmdsize |-> DecodedSize(p), room |-> t] \in QueueMsg
  BY <1>1, <1>2, <1>7 DEF QueueMsg
<1>9. /\ DecodedSize(p) > 0 => DecodedSize(p) \in {0, n}
      /\ ~(DecodedSize(p) > 0) => ~(n >= 2 /\ zipped <= n + 64)
  BY <1>1, <1>5, <1>7
<1> QED BY <1>5, <1>6, <1>7, <1>8, <1>9 DEF ResultOf, n, zipped, t

LEMMA DecodeKeeps ==
    ASSUME MsgInv, decodeMessage PROVE MsgInv'
<1> DEFINE p == sent[Len(results) + 1]
           d == DecodedSize(p)
           m == [cmdsize |-> d, room |-> tmpMsgBufferSize(p)]
<1>1. /\ p \in Packet /\ Len(results) + 1 \in 1..Len(sent)
      /\ UNCHANGED <<cache_, sent>>
  <2>1. /\ Len(results) < Len(sent) /\ results \in Seq(Nat) /\ sent \in Seq(Packet)
        /\ UNCHANGED <<cache_, sent>>
    BY DEF MsgInv, decodeMessage
  <2> QED BY <2>1
<1>2. CASE d > 0
  <2>1. /\ results' = Append(results, d) /\ cmd_queue_' = Append(cmd_queue_, m)
        /\ live' = live + 1
    BY <1>2 DEF decodeMessage, DecodedSize
  <2>2. ResultOf(p, d) /\ m \in QueueMsg /\ d \in Nat
    BY <1>1, <1>2, Decoding
  <2> HIDE DEF d, m
  <2>3. \A i \in 1..Len(results') : ResultOf(sent'[i], results'[i])
    BY <1>1, <2>1, <2>2 DEF MsgInv
  <2>4. cmd_queue_' \in Seq(QueueMsg) /\ live' = Len(cmd_queue_')
    BY <2>1, <2>2 DEF MsgInv
  <2>5. results' \in Seq(Nat) /\ Len(results') <= Len(sent')
    BY <1>1, <2>1, <2>2 DEF MsgInv
  <2> QED BY <1>1, <2>3, <2>4, <2>5 DEF MsgInv
<1>3. CASE ~(d > 0)
  <2>1. results' = Append(results, 0) /\ UNCHANGED <<cmd_queue_, live>>
    BY <1>3 DEF decodeMessage, DecodedSize
  <2>2. ResultOf(p, 0)
    BY <1>1, <1>3, Decoding
  <2>3. \A i \in 1..Len(results') : ResultOf(sent'[i], results'[i])
    BY <1>1, <2>1, <2>2 DEF MsgInv
  <2>5. results' \in Seq(Nat) /\ Len(results') <= Len(sent')
    BY <1>1, <2>1 DEF MsgInv
  <2> QED BY <1>1, <2>1, <2>3, <2>5 DEF MsgInv
<1> QED BY <1>2, <1>3

LEMMA MsgNextKeeps ==
    ASSUME MsgInv, [NextMsgs]_msgVars PROVE MsgInv'
<1>1. CASE UNCHANGED msgVars
  BY <1>1 DEF msgVars, MsgInv
<1>2. ASSUME NEW size \in Sizes, NEW lvl \in {-1, 0, 9}, encodeMessage(size, lvl) PROVE MsgInv'
  <2>1. PICK p \in packetbuf(size, lvl) : sent' = Append(sent, p)
    BY <1>2 DEF encodeMessage
  <2>2. p \in Packet
    BY <2>1, PacketMade
  <2> QED BY <1>2, <2>1, <2>2 DEF encodeMessage, MsgInv
<1>3. ASSUME NEW size \in Sizes, NEW lvl \in {-1, 0, 9}, data_encode_to_cache(size, lvl) PROVE MsgInv'
  <2>1. PICK p \in packetbuf(size, lvl) : cache_' = Append(cache_, p)
    BY <1>3 DEF data_encode_to_cache
  <2>2. p \in Packet
    BY <2>1, PacketMade
  <2> QED BY <1>3, <2>1, <2>2 DEF data_encode_to_cache, MsgInv
<1>4. CASE SendCache
  <2> DEFINE c == cache_
             b == sent
  <2>1. c \in Seq(Packet) /\ b \in Seq(Packet) /\ results \in Seq(Nat) /\ Len(results) <= Len(b)
    BY DEF MsgInv
  <2>2. sent' = b \o c /\ cache_' = <<>> /\ UNCHANGED <<results, cmd_queue_, live>>
    BY <1>4 DEF SendCache
  <2> HIDE DEF b, c
  <2>3. /\ b \o c \in Seq(Packet) /\ Len(b) <= Len(b \o c)
        /\ \A i \in 1..Len(b) : (b \o c)[i] = b[i]
    BY <2>1
  <2>4. /\ sent' \in Seq(Packet) /\ cache_' \in Seq(Packet) /\ Len(results') <= Len(sent')
        /\ \A i \in 1..Len(results) : sent'[i] = b[i]
    BY <2>1, <2>2, <2>3
  <2>5. \A i \in 1..Len(results') : ResultOf(sent'[i], results'[i])
    BY <2>2, <2>4 DEF MsgInv, b
  <2> QED BY <2>1, <2>2, <2>4, <2>5 DEF MsgInv
<1>5. CASE ParseEvent
  BY <1>5 DEF ParseEvent, MsgInv
<1> QED BY <1>1, <1>2, <1>3, <1>4, <1>5, DecodeKeeps DEF NextMsgs

\* Whatever deflate makes of the commands, they come out of the packets in their order and their
\* size, in buffers that hold them, and a link can cut every packet (packetbuf, decodeMessage,
\* getmsg2buf).
THEOREM CommandsComeBack == SpecMsgs => []MessagesComeBack
<1>1. InitMsgs => MsgInv
  BY DEF InitMsgs, MsgInv
<1>2. MsgInv => MessagesComeBack
  <2> SUFFICES ASSUME MsgInv PROVE RoundTrip /\ BuffersKept /\ PacketsCut
    BY DEF MessagesComeBack
  <2>1. RoundTrip
    BY DEF MsgInv, RoundTrip, ResultOf
  <2>2. BuffersKept
    <3>1. \A i \in DOMAIN cmd_queue_ : cmd_queue_[i] \in QueueMsg
      BY DEF MsgInv
    <3> QED BY <3>1 DEF MsgInv, BuffersKept, QueueMsg
  <2>3. PacketsCut
    <3>1. \A i \in DOMAIN sent : sent[i] \in Packet
      BY DEF MsgInv
    <3>2. ASSUME NEW i \in DOMAIN sent
          PROVE  CanBeCut(Wire(sent[i]))
      <4>1. sent[i] \in Packet
        BY <3>1
      <4> QED BY <4>1, PacketWire, Zenon
    <3> QED BY <3>2 DEF PacketsCut, CanBeCut, LongestCut
  <2> QED BY <2>1, <2>2, <2>3
<1> QED BY <1>1, <1>2, MsgNextKeeps, PTL DEF SpecMsgs

-----------------------------------------------------------------------------
(* FrameAlloc.                                                              *)

Block == Nat \X Nat
ScopeRecord ==
    [m_dwWaterMark : Nat, m_vps : SUBSET Block, blocks : SUBSET Block, mPtr : SUBSET Block]

\* What a scope and its keeper hold.
HeldBy(s) == s.blocks \cup s.mPtr

\* A block of the system, and one of the frame that ends before a byte of it.
FarBlock(x) == \E k \in Nat \ {0} : x = <<m_nMaxSize + k, m_nMaxSize + k>>
NearBlock(x, end) == x \in Block /\ x[1] <= x[2] /\ x[2] < end

\* A scope of a frame used up to its byte cur.
ScopeOK(s, cur) ==
    /\ s \in ScopeRecord /\ s.m_dwWaterMark <= cur
    /\ s.m_vps = {x \in s.blocks : issysmalloc(x)} /\ s.mPtr \cap s.blocks = {}
    /\ \A x \in HeldBy(s) : FarBlock(x) \/ NearBlock(x, cur)
    /\ \A x, y \in HeldBy(s) : x # y => ~Overlap(x, y)

\* A scope and one inside it.
Outside(s, t) ==
    /\ s.m_dwWaterMark <= t.m_dwWaterMark
    /\ \A x \in HeldBy(s) : FarBlock(x) \/ NearBlock(x, t.m_dwWaterMark)
Apart(s, t) == \A x \in HeldBy(s), y \in HeldBy(t) : ~Overlap(x, y)

Nested(cur, sc) ==
    /\ cur \in Nat /\ cur < m_nMaxSize
    /\ sc \in Seq(ScopeRecord) /\ Len(sc) >= 1
    /\ \A i \in 1..Len(sc) : ScopeOK(sc[i], cur)
    /\ \A i, j \in 1..Len(sc) : i < j => Outside(sc[i], sc[j]) /\ Apart(sc[i], sc[j])

AllHeld(sc) == UNION {HeldBy(sc[i]) : i \in 1..Len(sc)}
SysHeld(sc) == {x \in AllHeld(sc) : issysmalloc(x)}

FrameInv ==
    /\ Nested(m_cur, scopes)
    /\ sys = SysHeld(scopes) /\ ~freedTwice
    /\ m_nMaxFrameAllocation \in Nat /\ FrameBounds

LEMMA BlockKinds ==
    ASSUME NEW x, NEW cur \in Nat, cur <= m_nMaxSize, FarBlock(x) \/ NearBlock(x, cur)
    PROVE  /\ x \in Block /\ Overlap(x, x)
           /\ issysmalloc(x) <=> FarBlock(x)
           /\ ~issysmalloc(x) => NearBlock(x, cur)
<1>1. CASE FarBlock(x)
  <2>1. PICK k \in Nat \ {0} : x = <<m_nMaxSize + k, m_nMaxSize + k>>
    BY <1>1 DEF FarBlock
  <2>2. x[1] = m_nMaxSize + k /\ x[2] = m_nMaxSize + k
    BY <2>1
  <2> QED BY <1>1, <2>1, <2>2, FrameConstants DEF Block, Overlap, issysmalloc
<1>2. CASE NearBlock(x, cur)
  <2>1. x[1] \in Nat /\ x[2] \in Nat /\ x[1] <= x[2] /\ x[2] < cur
    BY <1>2 DEF NearBlock, Block
  <2>2. ~issysmalloc(x)
    BY <2>1, FrameConstants DEF issysmalloc
  <2>3. ~FarBlock(x)
    BY <2>1, FrameConstants DEF FarBlock
  <2> QED BY <1>2, <2>1, <2>2, <2>3 DEF NearBlock, Overlap
<1> QED BY <1>1, <1>2

\* A block that is new: from the end of the used part of the frame on, or of the system.
NewOne(b, cur, size, cur2) ==
    \/ b = <<cur, cur + size - 1>> /\ cur2 = cur + size /\ cur2 < m_nMaxSize
    \/ FarBlock(b) /\ cur2 = cur

LEMMA NewBlock ==
    ASSUME NEW cur \in Nat, cur < m_nMaxSize, NEW size \in Nat \ {0}, NEW b, NEW cur2,
           NewOne(b, cur, size, cur2)
    PROVE  /\ cur2 \in Nat /\ cur <= cur2 /\ cur2 < m_nMaxSize
           /\ FarBlock(b) \/ NearBlock(b, cur2)
           /\ \A y : /\ FarBlock(y) \/ NearBlock(y, cur)
                     /\ FarBlock(b) => y # b
                     => ~Overlap(y, b) /\ ~Overlap(b, y)
<1>1. CASE b = <<cur, cur + size - 1>> /\ cur2 = cur + size /\ cur2 < m_nMaxSize
  <2>1. b[1] = cur /\ b[2] = cur + size - 1 /\ b \in Block /\ b[2] \in Nat
    BY <1>1 DEF Block
  <2>2. NearBlock(b, cur2)
    BY <1>1, <2>1 DEF NearBlock
  <2>3. ASSUME NEW y, FarBlock(y) PROVE ~Overlap(y, b) /\ ~Overlap(b, y)
    <3>1. PICK k \in Nat \ {0} : y = <<m_nMaxSize + k, m_nMaxSize + k>>
      BY <2>3 DEF FarBlock
    <3>2. y[1] = m_nMaxSize + k /\ y[2] = m_nMaxSize + k
      BY <3>1
    <3> QED BY <1>1, <2>1, <3>2, FrameConstants DEF Overlap
  <2>4. ASSUME NEW y, NearBlock(y, cur) PROVE ~Overlap(y, b) /\ ~Overlap(b, y)
    <3>1. y[1] \in Nat /\ y[2] \in Nat /\ y[2] < cur
      BY <2>4 DEF NearBlock, Block
    <3> QED BY <2>1, <3>1 DEF Overlap
  <2> QED BY <1>1, <2>2, <2>3, <2>4
<1>2. CASE FarBlock(b) /\ cur2 = cur
  <2>1. PICK l \in Nat \ {0} : b = <<m_nMaxSize + l, m_nMaxSize + l>>
    BY <1>2 DEF FarBlock
  <2>2. b[1] = m_nMaxSize + l /\ b[2] = m_nMaxSize + l
    BY <2>1
  <2>3. ASSUME NEW y, FarBlock(y), y # b PROVE ~Overlap(y, b) /\ ~Overlap(b, y)
    <3>1. PICK k \in Nat \ {0} : y = <<m_nMaxSize + k, m_nMaxSize + k>>
      BY <2>3 DEF FarBlock
    <3>2. y[1] = m_nMaxSize + k /\ y[2] = m_nMaxSize + k /\ k # l
      BY <2>1, <2>3, <3>1
    <3> QED BY <2>2, <3>2, FrameConstants DEF Overlap
  <2>4. ASSUME NEW y, NearBlock(y, cur) PROVE ~Overlap(y, b) /\ ~Overlap(b, y)
    <3>1. y[1] \in Nat /\ y[2] \in Nat /\ y[2] < cur
      BY <2>4 DEF NearBlock, Block
    <3> QED BY <2>2, <3>1, FrameConstants DEF Overlap
  <2> QED BY <1>2, <2>3, <2>4
<1> QED BY <1>1, <1>2 DEF NewOne

\* A scope stays one when the frame is used further.
LEMMA ScopeGrows ==
    ASSUME NEW cur \in Nat, NEW cur2 \in Nat, cur <= cur2, NEW s, ScopeOK(s, cur)
    PROVE  ScopeOK(s, cur2)
<1>1. \A x : NearBlock(x, cur) => NearBlock(x, cur2)
  BY DEF NearBlock, Block
<1>2. s.m_dwWaterMark <= cur2
  <2>1. s.m_dwWaterMark \in Nat /\ s.m_dwWaterMark <= cur
    BY DEF ScopeOK, ScopeRecord
  <2> QED BY <2>1
<1> QED BY <1>1, <1>2 DEF ScopeOK

LEMMA TopBecomes ==
    ASSUME NEW cur, NEW sc, Nested(cur, sc), NEW n, n = Len(sc), NEW r,
           NEW cur2 \in Nat, cur <= cur2, cur2 < m_nMaxSize,
           ScopeOK(r, cur2), r.m_dwWaterMark = sc[n].m_dwWaterMark,
           \A i \in 1..Len(sc) : i < n => Apart(sc[i], r)
    PROVE  Nested(cur2, [sc EXCEPT ![n] = r])
<1> DEFINE new == [sc EXCEPT ![n] = r]
<1>1. r \in ScopeRecord /\ n \in 1..Len(sc) /\ sc \in Seq(ScopeRecord) /\ cur \in Nat
  BY DEF ScopeOK, Nested
<1>2. new \in Seq(ScopeRecord) /\ Len(new) = n /\ new[n] = r
  BY <1>1
<1>3. \A i \in 1..n : i # n => new[i] = sc[i]
  BY <1>1
<1> HIDE DEF new
<1>4. ASSUME NEW i \in 1..n PROVE ScopeOK(new[i], cur2)
  <2>1. CASE i = n
    BY <1>2, <2>1
  <2>2. CASE i # n
    <3>1. ScopeOK(sc[i], cur)
      BY DEF Nested
    <3> QED BY <1>1, <1>3, <2>2, <3>1, ScopeGrows
  <2> QED BY <2>1, <2>2
<1>5. ASSUME NEW i \in 1..n, NEW j \in 1..n, i < j PROVE Outside(new[i], new[j]) /\ Apart(new[i], new[j])
  <2>1. i # n /\ new[i] = sc[i] /\ Outside(sc[i], sc[j]) /\ Apart(sc[i], sc[j])
    BY <1>1, <1>3, <1>5 DEF Nested
  <2>2. CASE j # n
    BY <1>3, <2>1, <2>2
  <2>3. CASE j = n
    <3>1. Outside(sc[i], r)
      BY <2>1, <2>3 DEF Outside
    <3> QED BY <1>2, <1>5, <2>1, <2>3, <3>1
  <2> QED BY <2>2, <2>3
<1> QED BY <1>1, <1>2, <1>4, <1>5 DEF Nested, new

LEMMA ScopeEnters ==
    ASSUME NEW cur, NEW sc, Nested(cur, sc)
    PROVE  Nested(cur, Append(sc, Scope(cur)))
<1> DEFINE s == Scope(cur)
           new == Append(sc, s)
           n == Len(sc)
<1>1. cur \in Nat /\ sc \in Seq(ScopeRecord) /\ n \in Nat
  BY DEF Nested
<1>2. /\ s \in ScopeRecord /\ s.m_dwWaterMark = cur /\ s.m_vps = {} /\ s.blocks = {}
      /\ s.mPtr = {} /\ HeldBy(s) = {}
  BY <1>1 DEF Scope, ScopeRecord, HeldBy
<1> HIDE DEF s
<1>3. ScopeOK(s, cur)
  BY <1>1, <1>2 DEF ScopeOK
<1>4. new \in Seq(ScopeRecord) /\ Len(new) = n + 1 /\ new[n + 1] = s /\ \A i \in 1..n : new[i] = sc[i]
  BY <1>1, <1>2
<1> HIDE DEF new
<1>5. ASSUME NEW i \in 1..n PROVE Outside(sc[i], s) /\ Apart(sc[i], s)
  <2>1. ScopeOK(sc[i], cur)
    BY DEF Nested
  <2> QED BY <1>2, <2>1 DEF ScopeOK, Outside, Apart
<1>6. \A i \in 1..n + 1 : ScopeOK(new[i], cur)
  BY <1>1, <1>3, <1>4 DEF Nested
<1>7. ASSUME NEW i \in 1..n + 1, NEW j \in 1..n + 1, i < j
      PROVE  Outside(new[i], new[j]) /\ Apart(new[i], new[j])
  <2>1. i \in 1..n /\ new[i] = sc[i]
    BY <1>1, <1>4, <1>7
  <2>2. CASE j = n + 1
    BY <1>4, <1>5, <2>1, <2>2
  <2>3. CASE j # n + 1
    <3>1. j \in 1..n /\ new[j] = sc[j]
      BY <1>1, <1>4, <2>3
    <3> QED BY <1>7, <2>1, <3>1 DEF Nested
  <2> QED BY <2>2, <2>3
<1> QED BY <1>1, <1>4, <1>6, <1>7 DEF Nested, new, s

LEMMA ScopeLeaves ==
    ASSUME NEW cur, NEW sc, Nested(cur, sc), Len(sc) > 1
    PROVE  /\ Nested(sc[Len(sc)].m_dwWaterMark, Front(sc))
           /\ sc[Len(sc)].m_dwWaterMark \in Nat /\ sc[Len(sc)].m_dwWaterMark <= cur
<1> DEFINE n == Len(sc)
           mark == sc[n].m_dwWaterMark
           new == Front(sc)
<1>1. sc \in Seq(ScopeRecord) /\ n \in Nat /\ n > 1 /\ cur \in Nat /\ cur < m_nMaxSize
  BY DEF Nested
<1>2. ScopeOK(sc[n], cur)
  BY <1>1 DEF Nested
<1>3. mark \in Nat /\ mark <= cur
  BY <1>2 DEF ScopeOK, ScopeRecord
<1>4. new \in Seq(ScopeRecord) /\ Len(new) = n - 1 /\ \A i \in 1..n - 1 : new[i] = sc[i]
  BY <1>1 DEF Front
<1> HIDE DEF mark, new
<1>5. ASSUME NEW i \in 1..n - 1 PROVE ScopeOK(new[i], mark)
  <2>1. ScopeOK(sc[i], cur) /\ Outside(sc[i], sc[n])
    BY <1>1 DEF Nested
  <2>2. sc[i].m_dwWaterMark <= mark /\ \A x \in HeldBy(sc[i]) : FarBlock(x) \/ NearBlock(x, mark)
    BY <2>1 DEF Outside, mark
  <2>3. ScopeOK(sc[i], mark)
    BY <2>1, <2>2 DEF ScopeOK
  <2> QED BY <1>4, <2>3
<1>6. ASSUME NEW i \in 1..n - 1, NEW j \in 1..n - 1, i < j
      PROVE  Outside(new[i], new[j]) /\ Apart(new[i], new[j])
  <2>1. Outside(sc[i], sc[j]) /\ Apart(sc[i], sc[j])
    BY <1>1, <1>6 DEF Nested
  <2> QED BY <1>4, <1>6, <2>1
<1>7. mark < m_nMaxSize
  BY <1>1, <1>3, FrameConstants
<1>8. Nested(mark, new)
  BY <1>1, <1>3, <1>4, <1>5, <1>6, <1>7 DEF Nested
<1> QED BY <1>3, <1>8 DEF mark, new

\* What the scopes around the innermost one hold.
Below(sc) == UNION {HeldBy(sc[i]) : i \in 1..Len(sc) - 1}

LEMMA HeldSplit ==
    ASSUME NEW cur, NEW sc, Nested(cur, sc)
    PROVE  /\ AllHeld(sc) = Below(sc) \cup HeldBy(sc[Len(sc)])
           /\ Below(sc) \cap HeldBy(sc[Len(sc)]) = {}
           /\ \A x \in AllHeld(sc) : /\ FarBlock(x) \/ NearBlock(x, cur)
                                     /\ Overlap(x, x) /\ x \in Block
<1>1. Len(sc) \in Nat /\ Len(sc) >= 1 /\ cur \in Nat /\ cur < m_nMaxSize
  BY DEF Nested
<1>2. AllHeld(sc) = Below(sc) \cup HeldBy(sc[Len(sc)])
  BY <1>1 DEF AllHeld, Below
<1>3. ASSUME NEW x \in AllHeld(sc)
      PROVE  (FarBlock(x) \/ NearBlock(x, cur)) /\ Overlap(x, x) /\ x \in Block
  <2>1. PICK i \in 1..Len(sc) : x \in HeldBy(sc[i])
    BY DEF AllHeld
  <2>2. FarBlock(x) \/ NearBlock(x, cur)
    BY <2>1 DEF Nested, ScopeOK
  <2> QED BY <1>1, <2>2, BlockKinds, FrameConstants
<1>4. ASSUME NEW x \in Below(sc), x \in HeldBy(sc[Len(sc)]) PROVE FALSE
  <2>1. PICK i \in 1..Len(sc) - 1 : x \in HeldBy(sc[i])
    BY DEF Below
  <2>2. Apart(sc[i], sc[Len(sc)])
    BY <1>1 DEF Nested
  <2>3. Overlap(x, x)
    BY <1>2, <1>3, <1>4
  <2> QED BY <1>4, <2>1, <2>2, <2>3 DEF Apart
<1> QED BY <1>2, <1>3, <1>4

LEMMA HeldAfter ==
    ASSUME NEW sc, sc \in Seq(ScopeRecord), Len(sc) >= 1
    PROVE  /\ \A r \in ScopeRecord : AllHeld([sc EXCEPT ![Len(sc)] = r]) = Below(sc) \cup HeldBy(r)
           /\ AllHeld(Front(sc)) = Below(sc)
           /\ \A s \in ScopeRecord : AllHeld(Append(sc, s)) = AllHeld(sc) \cup HeldBy(s)
<1> DEFINE n == Len(sc)
<1>1. n \in Nat /\ n >= 1
  OBVIOUS
<1>2. ASSUME NEW r \in ScopeRecord
      PROVE  AllHeld([sc EXCEPT ![n] = r]) = Below(sc) \cup HeldBy(r)
  <2> DEFINE new == [sc EXCEPT ![n] = r]
  <2>1. Len(new) = n /\ new[n] = r /\ \A i \in 1..n - 1 : new[i] = sc[i]
    BY <1>1
  <2> HIDE DEF new
  <2> QED BY <1>1, <2>1 DEF AllHeld, Below, new
<1>3. AllHeld(Front(sc)) = Below(sc)
  <2> DEFINE new == Front(sc)
  <2>1. Len(new) = n - 1 /\ \A i \in 1..n - 1 : new[i] = sc[i]
    BY <1>1 DEF Front
  <2> HIDE DEF new
  <2> QED BY <1>1, <2>1 DEF AllHeld, Below, new
<1>4. ASSUME NEW s \in ScopeRecord
      PROVE  AllHeld(Append(sc, s)) = AllHeld(sc) \cup HeldBy(s)
  <2> DEFINE new == Append(sc, s)
  <2>1. Len(new) = n + 1 /\ new[n + 1] = s /\ \A i \in 1..n : new[i] = sc[i]
    BY <1>1
  <2> HIDE DEF new
  <2> QED BY <1>1, <2>1 DEF AllHeld, new
<1> QED BY <1>2, <1>3, <1>4

\* What mallocState::alloc gives is new.
LEMMA TakenBlock ==
    ASSUME FrameInv, NEW size \in Amounts, NEW b, NEW kept, Alloc(size, b, kept)
    PROVE  /\ NewOne(b, m_cur, size, m_cur')
           /\ m_cur' \in Nat /\ m_cur <= m_cur' /\ m_cur' < m_nMaxSize
           /\ FarBlock(b) \/ NearBlock(b, m_cur')
           /\ \A y : /\ FarBlock(y) \/ NearBlock(y, m_cur)
                     /\ FarBlock(b) => y # b
                     => ~Overlap(y, b) /\ ~Overlap(b, y)
           /\ b \in Block /\ Overlap(b, b) /\ (issysmalloc(b) <=> FarBlock(b))
           /\ FarBlock(b) => b \notin kept
           /\ sys' = kept \cup {x \in {b} : issysmalloc(x)}
           /\ m_nMaxFrameAllocation' \in Nat /\ FrameBounds'
<1>1. /\ m_cur \in Nat /\ m_cur < m_nMaxSize /\ size \in Nat \ {0} /\ m_nMaxSize \in Nat
      /\ m_nMaxFrameAllocation \in Nat /\ m_cur <= m_nMaxFrameAllocation
      /\ m_nMaxFrameAllocation <= m_nMaxSize
  BY FrameConstants DEF FrameInv, Nested, FrameBounds
<1>2. CASE FitsFrame(size)
  <2>1. /\ b = <<m_cur, m_cur + size - 1>> /\ m_cur' = m_cur + size /\ m_cur + size < m_nMaxSize
        /\ m_nMaxFrameAllocation' = IF m_cur + size > m_nMaxFrameAllocation
                                    THEN m_cur + size ELSE m_nMaxFrameAllocation
        /\ sys' = kept
    BY <1>2 DEF Alloc, FitsFrame
  <2>2. NewOne(b, m_cur, size, m_cur') /\ b[1] = m_cur
    BY <2>1 DEF NewOne
  <2>3. ~issysmalloc(b)
    BY <1>1, <2>2 DEF issysmalloc
  <2>4. m_nMaxFrameAllocation' \in Nat /\ FrameBounds'
    BY <1>1, <2>1 DEF FrameBounds
  <2>5. m_cur' \in Nat /\ m_cur <= m_cur' /\ m_cur' < m_nMaxSize
    BY <1>1, <2>1
  <2>6. FarBlock(b) \/ NearBlock(b, m_cur')
    BY <1>1, <2>2, NewBlock
  <2>7. b \in Block /\ Overlap(b, b) /\ (issysmalloc(b) <=> FarBlock(b))
    BY <1>1, <2>5, <2>6, BlockKinds
  <2>8. \A y : /\ FarBlock(y) \/ NearBlock(y, m_cur)
               /\ FarBlock(b) => y # b
               => ~Overlap(y, b) /\ ~Overlap(b, y)
    BY <1>1, <2>2, NewBlock
  <2> QED BY <2>1, <2>2, <2>3, <2>4, <2>5, <2>6, <2>7, <2>8
<1>3. CASE ~FitsFrame(size)
  <2>1. PICK i \in 1..MaxSys : b = <<m_nMaxSize + i, m_nMaxSize + i>> /\ b \notin kept
    BY <1>3 DEF Alloc
  <2>2. sys' = kept \cup {b} /\ UNCHANGED <<m_cur, m_nMaxFrameAllocation>>
    BY <1>3 DEF Alloc
  <2>3. FarBlock(b)
    BY <2>1 DEF FarBlock
  <2>4. NewOne(b, m_cur, size, m_cur')
    BY <2>2, <2>3 DEF NewOne
  <2>5. FrameBounds' /\ m_nMaxFrameAllocation' \in Nat
    BY <1>1, <2>2 DEF FrameBounds
  <2>6. b \in Block /\ Overlap(b, b) /\ issysmalloc(b)
    BY <1>1, <2>3, BlockKinds
  <2>7. \A y : /\ FarBlock(y) \/ NearBlock(y, m_cur)
               /\ FarBlock(b) => y # b
               => ~Overlap(y, b) /\ ~Overlap(b, y)
    BY <1>1, <2>4, NewBlock
  <2>8. m_cur' = m_cur
    BY <2>2
  <2> QED BY <1>1, <2>1, <2>2, <2>3, <2>4, <2>5, <2>6, <2>7, <2>8
<1> QED BY <1>2, <1>3

\* The innermost scope, or its keeper, takes a block and keeps those of K.
LEMMA TopTakes ==
    ASSUME FrameInv, NEW size \in Amounts, NEW b, NEW K, K \subseteq HeldBy(Top),
           Alloc(size, b, {x \in Below(scopes) \cup K : issysmalloc(x)}),
           NEW r, r \in ScopeRecord, HeldBy(r) = K \cup {b}, r.m_dwWaterMark = Top.m_dwWaterMark,
           r.m_vps = {x \in r.blocks : issysmalloc(x)}, b \notin K => r.mPtr \cap r.blocks = {},
           scopes' = [scopes EXCEPT ![Len(scopes)] = r], ~freedTwice'
    PROVE  FrameInv'
<1> DEFINE n == Len(scopes)
           kept == {x \in Below(scopes) \cup K : issysmalloc(x)}
<1>1. /\ Nested(m_cur, scopes) /\ scopes \in Seq(ScopeRecord) /\ n \in Nat /\ n >= 1
      /\ m_cur \in Nat /\ m_cur < m_nMaxSize /\ Top = scopes[n] /\ ScopeOK(Top, m_cur)
  BY DEF FrameInv, Nested, Top
<1>2. /\ m_cur' \in Nat /\ m_cur <= m_cur' /\ m_cur' < m_nMaxSize
      /\ FarBlock(b) \/ NearBlock(b, m_cur')
      /\ b \in Block /\ Overlap(b, b)
      /\ issysmalloc(b) <=> FarBlock(b)
      /\ FarBlock(b) => b \notin kept
      /\ sys' = kept \cup {x \in {b} : issysmalloc(x)}
      /\ m_nMaxFrameAllocation' \in Nat /\ FrameBounds'
  BY TakenBlock
<1>3. ASSUME NEW y \in Below(scopes) \cup K
      PROVE  ~Overlap(y, b) /\ ~Overlap(b, y) /\ y # b
  <2>1. y \in AllHeld(scopes)
    BY <1>1, HeldSplit
  <2>2. (FarBlock(y) \/ NearBlock(y, m_cur)) /\ Overlap(y, y)
    BY <1>1, <2>1, HeldSplit
  <2>3. FarBlock(b) => y # b
    BY <1>2
  <2>4. ~Overlap(y, b) /\ ~Overlap(b, y)
    BY <2>2, <2>3, TakenBlock
  <2> QED BY <2>2, <2>4
<1>4. ScopeOK(r, m_cur')
  <2>1. r.m_dwWaterMark <= m_cur'
    <3>1. Top.m_dwWaterMark \in Nat /\ Top.m_dwWaterMark <= m_cur
      BY <1>1 DEF ScopeOK, ScopeRecord
    <3> QED BY <1>1, <1>2, <3>1
  <2>2. r.mPtr \cap r.blocks = {}
    BY <1>3
  <2>3. ScopeOK(Top, m_cur')
    BY <1>1, <1>2, ScopeGrows
  <2>4. \A x \in HeldBy(r) : FarBlock(x) \/ NearBlock(x, m_cur')
    BY <1>2, <2>3 DEF ScopeOK
  <2>5. \A x, y \in HeldBy(r) : x # y => ~Overlap(x, y)
    BY <1>3, <2>3 DEF ScopeOK
  <2> QED BY <2>1, <2>2, <2>4, <2>5 DEF ScopeOK
<1>5. ASSUME NEW i \in 1..n, i < n PROVE Apart(scopes[i], r)
  <2>1. Apart(scopes[i], Top)
    BY <1>1, <1>5 DEF Nested
  <2>2. HeldBy(scopes[i]) \subseteq Below(scopes)
    BY <1>1, <1>5 DEF Below
  <2> QED BY <1>3, <2>1, <2>2 DEF Apart
<1>6. Nested(m_cur', scopes')
  BY <1>1, <1>2, <1>4, <1>5, TopBecomes
<1>7. sys' = SysHeld(scopes')
  <2>1. AllHeld(scopes') = Below(scopes) \cup (K \cup {b})
    <3>1. AllHeld([scopes EXCEPT ![Len(scopes)] = r]) = Below(scopes) \cup HeldBy(r)
      BY <1>1, HeldAfter
    <3> QED BY <3>1, Zenon
  <2> QED BY <1>2, <2>1 DEF SysHeld
<1> QED BY <1>2, <1>6, <1>7 DEF FrameInv

LEMMA ScopeAllocKeeps ==
    ASSUME FrameInv, NEW size \in Amounts, ScopeAlloc(size) PROVE FrameInv'
<1>1. PICK b \in Candidates(size) :
         /\ Alloc(size, b, sys)
         /\ scopes' = [scopes EXCEPT ![Len(scopes)].blocks = @ \cup {b},
                         ![Len(scopes)].m_vps = IF issysmalloc(b) THEN @ \cup {b} ELSE @]
         /\ UNCHANGED freedTwice
  BY DEF ScopeAlloc
<1> DEFINE n == Len(scopes)
           vps == IF issysmalloc(b) THEN Top.m_vps \cup {b} ELSE Top.m_vps
           r == [Top EXCEPT !.blocks = Top.blocks \cup {b}, !.m_vps = vps]
<1>2. /\ Nested(m_cur, scopes) /\ scopes \in Seq(ScopeRecord) /\ n \in 1..Len(scopes)
      /\ Top = scopes[n] /\ ScopeOK(Top, m_cur) /\ Top \in ScopeRecord
      /\ sys = SysHeld(scopes) /\ ~freedTwice
  BY DEF FrameInv, Nested, Top, ScopeOK
<1>3. b \in Block
  BY <1>1, TakenBlock
<1>4. /\ r \in ScopeRecord /\ r.m_dwWaterMark = Top.m_dwWaterMark /\ r.mPtr = Top.mPtr
      /\ r.blocks = Top.blocks \cup {b} /\ r.m_vps = vps
  BY <1>2, <1>3 DEF ScopeRecord
<1>5. scopes' = [scopes EXCEPT ![n] = r]
  BY <1>1, <1>2
<1> HIDE DEF r
<1>6. HeldBy(r) = HeldBy(Top) \cup {b}
  BY <1>4 DEF HeldBy
<1>7. r.m_vps = {x \in r.blocks : issysmalloc(x)}
  BY <1>2, <1>4 DEF ScopeOK
<1>8. b \notin HeldBy(Top) => r.mPtr \cap r.blocks = {}
  BY <1>2, <1>4 DEF ScopeOK, HeldBy
<1>9. sys = {x \in Below(scopes) \cup HeldBy(Top) : issysmalloc(x)}
  BY <1>2, HeldSplit DEF SysHeld
<1>10. Alloc(size, b, {x \in Below(scopes) \cup HeldBy(Top) : issysmalloc(x)})
  BY <1>1, <1>9
<1>11. ~freedTwice'
  BY <1>1, <1>2
<1> QED BY <1>4, <1>5, <1>6, <1>7, <1>8, <1>10, <1>11, TopTakes

\* The keeper's block is the keeper's alone, and freed once.
LEMMA KeeperFrees ==
    ASSUME FrameInv
    PROVE  /\ Freed(Top.mPtr, sys) = {x \in Below(scopes) \cup Top.blocks : issysmalloc(x)}
           /\ ~Wrong(Top.mPtr, sys)
<1>1. /\ Nested(m_cur, scopes) /\ Top = scopes[Len(scopes)] /\ ScopeOK(Top, m_cur)
      /\ sys = SysHeld(scopes)
  BY DEF FrameInv, Nested, Top
<1>2. /\ sys = {x \in Below(scopes) \cup HeldBy(Top) : issysmalloc(x)}
      /\ Below(scopes) \cap HeldBy(Top) = {}
  BY <1>1, HeldSplit DEF SysHeld
<1>3. Top.mPtr \cap Top.blocks = {} /\ HeldBy(Top) = Top.blocks \cup Top.mPtr
  BY <1>1 DEF ScopeOK, HeldBy
<1> QED BY <1>2, <1>3 DEF Freed, Wrong

LEMMA KeepAllocKeeps ==
    ASSUME FrameInv, NEW size \in Amounts, KeepAlloc(size) PROVE FrameInv'
<1>1. PICK b \in Candidates(size) :
         /\ Alloc(size, b, Freed(Top.mPtr, sys))
         /\ freedTwice' = (freedTwice \/ Wrong(Top.mPtr, sys))
         /\ scopes' = [scopes EXCEPT ![Len(scopes)].mPtr = {b}]
  BY DEF KeepAlloc
<1> DEFINE n == Len(scopes)
           r == [Top EXCEPT !.mPtr = {b}]
<1>2. /\ Nested(m_cur, scopes) /\ scopes \in Seq(ScopeRecord) /\ n \in 1..Len(scopes)
      /\ Top = scopes[n] /\ ScopeOK(Top, m_cur) /\ Top \in ScopeRecord /\ ~freedTwice
  BY DEF FrameInv, Nested, Top, ScopeOK
<1>3. b \in Block
  BY <1>1, TakenBlock
<1>4. /\ r \in ScopeRecord /\ r.m_dwWaterMark = Top.m_dwWaterMark /\ r.mPtr = {b}
      /\ r.blocks = Top.blocks /\ r.m_vps = Top.m_vps
  BY <1>2, <1>3 DEF ScopeRecord
<1>5. scopes' = [scopes EXCEPT ![n] = r]
  BY <1>1, <1>2
<1> HIDE DEF r
<1>6. HeldBy(r) = Top.blocks \cup {b} /\ Top.blocks \subseteq HeldBy(Top)
  BY <1>4 DEF HeldBy
<1>7. r.m_vps = {x \in r.blocks : issysmalloc(x)}
  BY <1>2, <1>4 DEF ScopeOK
<1>8. b \notin Top.blocks => r.mPtr \cap r.blocks = {}
  BY <1>4
<1>9. Alloc(size, b, {x \in Below(scopes) \cup Top.blocks : issysmalloc(x)})
  BY <1>1, KeeperFrees
<1>10. ~freedTwice'
  BY <1>1, <1>2, KeeperFrees
<1> QED BY <1>4, <1>5, <1>6, <1>7, <1>8, <1>9, <1>10, TopTakes

LEMMA KeepFreeKeeps ==
    ASSUME FrameInv, KeepFree PROVE FrameInv'
<1> DEFINE n == Len(scopes)
           r == [Top EXCEPT !.mPtr = {}]
<1>1. /\ Nested(m_cur, scopes) /\ scopes \in Seq(ScopeRecord) /\ n \in 1..Len(scopes)
      /\ Top = scopes[n] /\ ScopeOK(Top, m_cur) /\ Top \in ScopeRecord /\ ~freedTwice
      /\ m_cur \in Nat /\ m_cur < m_nMaxSize /\ m_cur <= m_cur /\ Len(scopes) >= 1
  BY DEF FrameInv, Nested, Top, ScopeOK
<1>2. /\ r \in ScopeRecord /\ r.m_dwWaterMark = Top.m_dwWaterMark /\ r.mPtr = {}
      /\ r.blocks = Top.blocks /\ r.m_vps = Top.m_vps
  BY <1>1 DEF ScopeRecord
<1>3. scopes' = [scopes EXCEPT ![n] = r] /\ UNCHANGED <<m_cur, m_nMaxFrameAllocation>>
  BY <1>1 DEF KeepFree
<1> HIDE DEF r
<1>4. HeldBy(r) = Top.blocks /\ HeldBy(r) \subseteq HeldBy(Top)
  BY <1>2 DEF HeldBy
<1>5. ScopeOK(r, m_cur)
  BY <1>1, <1>2, <1>4 DEF ScopeOK
<1>6. ASSUME NEW i \in 1..n, i < n PROVE Apart(scopes[i], r)
  <2>1. Apart(scopes[i], Top)
    BY <1>1, <1>6 DEF Nested
  <2> QED BY <1>4, <2>1 DEF Apart
<1>7. Nested(m_cur, scopes')
  BY <1>1, <1>2, <1>3, <1>5, <1>6, TopBecomes
<1>8. sys' = SysHeld(scopes') /\ ~freedTwice'
  <2>1. AllHeld(scopes') = Below(scopes) \cup Top.blocks
    BY <1>1, <1>2, <1>3, <1>4, HeldAfter
  <2>2. sys' = Freed(Top.mPtr, sys) /\ freedTwice' = (freedTwice \/ Wrong(Top.mPtr, sys))
    BY DEF KeepFree
  <2> QED BY <1>1, <2>1, <2>2, KeeperFrees DEF SysHeld
<1>9. FrameBounds' /\ m_nMaxFrameAllocation' \in Nat
  BY <1>3 DEF FrameInv, FrameBounds
<1> QED BY <1>3, <1>7, <1>8, <1>9 DEF FrameInv

LEMMA EnterKeeps ==
    ASSUME FrameInv, Enter PROVE FrameInv'
<1>1. /\ scopes' = Append(scopes, Scope(m_cur))
      /\ UNCHANGED <<m_cur, m_nMaxFrameAllocation, sys, freedTwice>>
  BY DEF Enter
<1>2. Nested(m_cur, scopes) /\ scopes \in Seq(ScopeRecord) /\ Len(scopes) >= 1 /\ m_cur \in Nat
  BY DEF FrameInv, Nested
<1>3. Nested(m_cur, scopes')
  BY <1>1, <1>2, ScopeEnters
<1>4. Scope(m_cur) \in ScopeRecord /\ HeldBy(Scope(m_cur)) = {}
  BY <1>2 DEF Scope, ScopeRecord, HeldBy
<1>5. AllHeld(scopes') = AllHeld(scopes)
  <2>1. AllHeld(Append(scopes, Scope(m_cur))) = AllHeld(scopes) \cup HeldBy(Scope(m_cur))
    BY <1>2, <1>4, HeldAfter
  <2> QED BY <1>1, <1>4, <2>1
<1> QED BY <1>1, <1>3, <1>5 DEF FrameInv, SysHeld, FrameBounds

LEMMA LeaveKeeps ==
    ASSUME FrameInv, Leave PROVE FrameInv'
<1> DEFINE mark == Top.m_dwWaterMark
<1>1. /\ Nested(m_cur, scopes) /\ scopes \in Seq(ScopeRecord) /\ Len(scopes) > 1
      /\ Top = scopes[Len(scopes)] /\ ScopeOK(Top, m_cur) /\ ~freedTwice /\ sys = SysHeld(scopes)
      /\ m_cur \in Nat /\ m_cur < m_nMaxSize
  BY DEF FrameInv, Nested, Top, Leave
<1>2. Nested(mark, Front(scopes)) /\ mark \in Nat /\ mark <= m_cur
  BY <1>1, ScopeLeaves
<1>3. m_cur' = mark /\ scopes' = Front(scopes) /\ UNCHANGED m_nMaxFrameAllocation
  BY <1>1, <1>2, FrameConstants DEF Leave
<1> HIDE DEF mark
<1>4. /\ sys = {x \in Below(scopes) \cup HeldBy(Top) : issysmalloc(x)}
      /\ Below(scopes) \cap HeldBy(Top) = {}
  BY <1>1, HeldSplit DEF SysHeld
<1>5. \A x \in HeldBy(Top) : issysmalloc(x) => x \in Top.m_vps \cup Top.mPtr
  BY <1>1 DEF ScopeOK, HeldBy
<1>6. Top.m_vps \cup Top.mPtr \subseteq HeldBy(Top)
  BY <1>1 DEF ScopeOK, HeldBy
<1>7. sys' = {x \in Below(scopes) : issysmalloc(x)} /\ ~freedTwice'
  BY <1>1, <1>4, <1>5, <1>6 DEF Leave, Freed, Wrong
<1>8. AllHeld(scopes') = Below(scopes)
  BY <1>1, <1>3, HeldAfter
<1>9. FrameBounds' /\ m_nMaxFrameAllocation' \in Nat
  <2>1. /\ m_nMaxFrameAllocation \in Nat /\ m_cur <= m_nMaxFrameAllocation
        /\ m_nMaxFrameAllocation <= m_nMaxSize
    BY DEF FrameInv, FrameBounds
  <2> QED BY <1>1, <1>2, <1>3, <2>1 DEF FrameBounds
<1> QED BY <1>2, <1>3, <1>7, <1>8, <1>9 DEF FrameInv, SysHeld

\* However scopes nest and keepers change their blocks, no two blocks in use overlap, none reaches
\* past the frame, and those of the system are freed once, with their scope (mallocState::alloc,
\* SetFrameAllocator, KeepFrameAllocator).
THEOREM FrameBlocksKept == SpecFrame => []FrameKept
<1>1. InitFrame => FrameInv
  <2> SUFFICES ASSUME InitFrame PROVE FrameInv
    OBVIOUS
  <2>1. /\ Scope(0) \in ScopeRecord /\ HeldBy(Scope(0)) = {} /\ Scope(0).m_dwWaterMark = 0
        /\ Scope(0).m_vps = {} /\ Scope(0).blocks = {} /\ Scope(0).mPtr = {}
    BY DEF Scope, ScopeRecord, HeldBy
  <2>2. ScopeOK(Scope(0), 0)
    BY <2>1 DEF ScopeOK
  <2>3. scopes \in Seq(ScopeRecord) /\ Len(scopes) = 1 /\ scopes[1] = Scope(0) /\ m_cur = 0
    BY <2>1 DEF InitFrame
  <2>4. Nested(m_cur, scopes)
    BY <2>2, <2>3, FrameConstants DEF Nested
  <2>5. SysHeld(scopes) = {}
    BY <2>1, <2>3 DEF SysHeld, AllHeld
  <2>6. m_nMaxFrameAllocation \in Nat /\ FrameBounds
    BY FrameConstants DEF InitFrame, FrameBounds
  <2> QED BY <2>4, <2>5, <2>6 DEF FrameInv, InitFrame
<1>2. FrameInv /\ [NextFrame]_frameVars => FrameInv'
  <2> SUFFICES ASSUME FrameInv, [NextFrame]_frameVars PROVE FrameInv'
    OBVIOUS
  <2>1. CASE UNCHANGED frameVars
    BY <2>1 DEF frameVars, FrameInv, FrameBounds
  <2> QED BY <2>1, ScopeAllocKeeps, KeepAllocKeeps, KeepFreeKeeps, EnterKeeps, LeaveKeeps DEF NextFrame
<1>3. FrameInv => FrameKept
  <2> SUFFICES ASSUME FrameInv PROVE FrameKept
    OBVIOUS
  <2>1. Nested(m_cur, scopes) /\ m_cur \in Nat /\ m_cur < m_nMaxSize
    BY DEF FrameInv, Nested
  <2>2. \A i : Held(i) = HeldBy(scopes[i])
    BY DEF Held, HeldBy
  <2>3. Blocks = AllHeld(scopes)
    BY <2>2 DEF Blocks, AllHeld
  <2>4. ASSUME NEW i \in 1..Len(scopes), NEW j \in 1..Len(scopes), i # j,
               NEW x \in Held(i), NEW y \in Held(j)
        PROVE  ~Overlap(x, y)
    <3>1. CASE i < j
      BY <2>1, <2>2, <2>4, <3>1 DEF Nested, Apart
    <3>2. CASE j < i
      <4>1. ~Overlap(y, x)
        BY <2>1, <2>2, <2>4, <3>2 DEF Nested, Apart
      <4> QED BY <4>1 DEF Overlap
    <3> QED BY <2>4, <3>1, <3>2
  <2>5. ASSUME NEW i \in 1..Len(scopes), NEW x \in Held(i), NEW y \in Held(i), x # y
        PROVE  ~Overlap(x, y)
    BY <2>1, <2>2, <2>5 DEF Nested, ScopeOK
  <2>6. \A x, y \in Blocks : x # y => ~Overlap(x, y)
    BY <2>4, <2>5 DEF Blocks
  <2>7. ASSUME NEW i \in 1..Len(scopes), NEW j \in 1..Len(scopes), i # j
        PROVE  Held(i) \cap Held(j) = {}
    <3>1. \A x \in Held(i) : Overlap(x, x)
      BY <2>1, <2>2, HeldSplit DEF AllHeld
    <3> QED BY <2>4, <2>7, <3>1
  <2>8. ASSUME NEW x \in Blocks PROVE issysmalloc(x) \/ x[2] < m_cur
    <3>1. FarBlock(x) \/ NearBlock(x, m_cur)
      BY <2>1, <2>3, HeldSplit
    <3> QED BY <2>1, <3>1, BlockKinds, FrameConstants DEF NearBlock
  <2>9. BlocksDisjoint
    BY <2>6, <2>7, <2>8 DEF BlocksDisjoint
  <2>10. SystemBlocksFreed
    BY <2>3 DEF FrameInv, SystemBlocksFreed, SysHeld
  <2> QED BY <2>9, <2>10 DEF FrameInv, FrameKept
<1> QED BY <1>1, <1>2, <1>3, PTL DEF SpecFrame

-----------------------------------------------------------------------------
(* MemPool and Lookaside: lists of free nodes.                              *)

\* The first node comes off a list.
LEMMA ListTail ==
    ASSUME NEW S, NEW s \in Seq(S), s # <<>>, IsInjective(s)
    PROVE  /\ Tail(s) \in Seq(S) /\ Len(Tail(s)) = Len(s) - 1 /\ Len(s) \in Nat
           /\ Head(s) \in S /\ Head(s) \in ToSet(s)
           /\ IsInjective(Tail(s)) /\ ToSet(Tail(s)) = ToSet(s) \ {Head(s)}
<1> DEFINE r == Tail(s)
<1>1. /\ r \in Seq(S) /\ Len(r) = Len(s) - 1 /\ Len(s) \in Nat /\ Len(s) >= 1
      /\ Head(s) = s[1] /\ \A i \in 1..Len(r) : r[i] = s[i + 1]
  OBVIOUS
<1>2. DOMAIN s = 1..Len(s) /\ DOMAIN r = 1..Len(r) /\ s[1] \in S
  BY <1>1
<1> HIDE DEF r
<1>3. \A i \in 1..Len(r) : i + 1 \in 1..Len(s)
  BY <1>1
<1>4. IsInjective(r)
  <2> SUFFICES ASSUME NEW i \in 1..Len(r), NEW j \in 1..Len(r), r[i] = r[j] PROVE i = j
    BY <1>2 DEF IsInjective
  <2>1. s[i + 1] = s[j + 1] /\ i + 1 \in 1..Len(s) /\ j + 1 \in 1..Len(s)
    BY <1>1, <1>3
  <2>2. i + 1 = j + 1
    BY <1>2, <2>1, Zenon DEF IsInjective
  <2> QED BY <1>1, <2>2
<1>5. ToSet(r) = ToSet(s) \ {Head(s)}
  <2>1. ASSUME NEW x \in ToSet(r) PROVE x \in ToSet(s) /\ x # s[1]
    <3>1. PICK i \in 1..Len(r) : x = r[i]
      BY <1>2 DEF ToSet
    <3>2. x = s[i + 1] /\ i + 1 \in 1..Len(s) /\ i + 1 # 1 /\ 1 \in 1..Len(s)
      BY <1>1, <1>3, <3>1
    <3>3. x \in ToSet(s)
      BY <1>2, <3>2, Zenon DEF ToSet
    <3>4. x # s[1]
      BY <1>2, <3>2, Zenon DEF IsInjective
    <3> QED BY <3>3, <3>4
  <2>2. ASSUME NEW x \in ToSet(s), x # s[1] PROVE x \in ToSet(r)
    <3>1. PICK i \in 1..Len(s) : x = s[i]
      BY <1>2 DEF ToSet
    <3>2. i - 1 \in 1..Len(r) /\ (i - 1) + 1 = i
      BY <1>1, <2>2, <3>1
    <3>3. r[i - 1] = x
      BY <1>1, <3>1, <3>2
    <3> QED BY <1>2, <3>2, <3>3, Zenon DEF ToSet
  <2> QED BY <1>1, <2>1, <2>2
<1>6. Head(s) \in ToSet(s)
  <2>1. 1 \in 1..Len(s)
    BY <1>1
  <2> QED BY <1>1, <1>2, <2>1, Zenon DEF ToSet
<1> QED BY <1>1, <1>2, <1>4, <1>5, <1>6 DEF r

\* A node goes to the front of a list.
LEMMA ListPut ==
    ASSUME NEW S, NEW s \in Seq(S), NEW n \in S, IsInjective(s), n \notin ToSet(s)
    PROVE  /\ <<n>> \o s \in Seq(S) /\ Len(<<n>> \o s) = Len(s) + 1 /\ Len(s) \in Nat
           /\ IsInjective(<<n>> \o s) /\ ToSet(<<n>> \o s) = ToSet(s) \cup {n}
<1> DEFINE r == <<n>> \o s
<1>1. /\ r \in Seq(S) /\ Len(r) = Len(s) + 1 /\ Len(s) \in Nat
      /\ r[1] = n /\ \A i \in 1..Len(s) : r[i + 1] = s[i]
  OBVIOUS
<1>2. DOMAIN s = 1..Len(s) /\ DOMAIN r = 1..Len(r)
  BY <1>1
<1> HIDE DEF r
<1>3. \A i \in 1..Len(r) : i # 1 => i - 1 \in 1..Len(s) /\ (i - 1) + 1 = i
  BY <1>1
<1>4. \A i \in 1..Len(r) : i # 1 => r[i] = s[i - 1]
  BY <1>1, <1>3
<1>5. \A i \in 1..Len(s) : s[i] # n
  BY <1>2 DEF ToSet
<1>6. IsInjective(r)
  <2> SUFFICES ASSUME NEW i \in 1..Len(r), NEW j \in 1..Len(r), r[i] = r[j] PROVE i = j
    BY <1>2 DEF IsInjective
  <2>1. i = 1 <=> j = 1
    BY <1>1, <1>3, <1>4, <1>5
  <2>2. CASE i = 1
    BY <2>1, <2>2
  <2>3. CASE i # 1
    <3>1. s[i - 1] = s[j - 1] /\ i - 1 \in 1..Len(s) /\ j - 1 \in 1..Len(s)
      BY <1>3, <1>4, <2>1, <2>3
    <3>2. i - 1 = j - 1
      BY <1>2, <3>1, Zenon DEF IsInjective
    <3> QED BY <1>3, <2>1, <2>3, <3>2
  <2> QED BY <2>2, <2>3
<1>7. ToSet(r) = ToSet(s) \cup {n}
  <2>1. ASSUME NEW x \in ToSet(r) PROVE x \in ToSet(s) \cup {n}
    <3>1. PICK i \in 1..Len(r) : x = r[i]
      BY <1>2 DEF ToSet
    <3>2. CASE i = 1
      BY <1>1, <3>1, <3>2
    <3>3. CASE i # 1
      <4>1. x = s[i - 1] /\ i - 1 \in 1..Len(s)
        BY <1>3, <1>4, <3>1, <3>3
      <4> QED BY <1>2, <4>1, Zenon DEF ToSet
    <3> QED BY <3>2, <3>3
  <2>2. ASSUME NEW x \in ToSet(s) PROVE x \in ToSet(r)
    <3>1. PICK i \in 1..Len(s) : x = s[i]
      BY <1>2 DEF ToSet
    <3>2. i + 1 \in 1..Len(r) /\ r[i + 1] = x
      BY <1>1, <3>1
    <3> QED BY <1>2, <3>2, Zenon DEF ToSet
  <2>3. n \in ToSet(r)
    <3>1. 1 \in 1..Len(r) /\ r[1] = n
      BY <1>1
    <3> QED BY <1>2, <3>1, Zenon DEF ToSet
  <2> QED BY <2>1, <2>2, <2>3
<1> QED BY <1>1, <1>6, <1>7 DEF r

\* The nodes of a new stPool.
LinkedAnew(s, n, p, k) ==
    /\ s \in Seq({p} \X {k} \X (1..n)) /\ Len(s) = n /\ s # <<>> /\ IsInjective(s)
    /\ ToSet(s) = {p} \X {k} \X (1..n)

LEMMA ListNew ==
    ASSUME NEW n \in Nat \ {0}, NEW p, NEW k
    PROVE  LinkedAnew([i \in 1..n |-> <<p, k, i>>], n, p, k)
<1> DEFINE s == [i \in 1..n |-> <<p, k, i>>]
<1>1. s \in [1..n -> {p} \X {k} \X (1..n)] /\ DOMAIN s = 1..n /\ \A i \in 1..n : s[i] = <<p, k, i>>
  OBVIOUS
<1>2. s \in Seq({p} \X {k} \X (1..n)) /\ Len(s) = n
  BY <1>1
<1>3. s # <<>>
  BY <1>2
<1>4. IsInjective(s)
  BY <1>1 DEF IsInjective
<1>5. ToSet(s) = {p} \X {k} \X (1..n)
  BY <1>1 DEF ToSet
<1> QED BY <1>2, <1>3, <1>4, <1>5, Zenon DEF LinkedAnew

LEMMA ListEmpty == IsInjective(<<>>) /\ ToSet(<<>>) = {}
BY DEF IsInjective, ToSet

-----------------------------------------------------------------------------
(* MemPool.                                                                 *)

\* Where a block is: pool 0 is the heap.
Place == (0..6) \X Nat \X Nat

UsedRecord == [at : Place, tag : 0..255, asked : Nat, size : Nat]

\* The nodes of pool p in use, and those that were ever added to it.
TakenOf(p, U) == {u.at : u \in {v \in U : v.at[1] = p}}
MadeOf(p, k) == {p} \X (1..k) \X (1..NodesPerBlock)

PoolRight(p, list, k, U) ==
    /\ IsInjective(list)
    /\ ToSet(list) \cap TakenOf(p, U) = {}
    /\ ToSet(list) \cup TakenOf(p, U) = MadeOf(p, k)

\* A block's place says whose it is, and so does its tag.
PoolInv ==
    /\ freeLists \in [Pools -> Seq(Place)] /\ stPools \in [Pools -> Nat]
    /\ used \subseteq UsedRecord /\ IsFiniteSet(used)
    /\ \A u, v \in used : u.at = v.at => u = v
    /\ \A p \in Pools : PoolRight(p, freeLists[p], stPools[p], used)
    /\ BlocksHold

\* What a request becomes: room for the tag, at a multiple of 4.
LEMMA RoomForTag == \A n \in Nat : nbufsize(n) \in Nat /\ n + 1 <= nbufsize(n)
<1>1. \A m \in Nat : m \div 4 \in Nat /\ m - 3 <= (m \div 4) * 4
  OBVIOUS
<1>2. \A n \in Nat : n + 1 + 3 \in Nat /\ n + 1 + 3 - 3 = n + 1
  OBVIOUS
<1> QED BY <1>1, <1>2 DEF nbufsize

LEMMA PoolFits ==
    ASSUME NEW n \in Nat, PoolOf(n) > 0
    PROVE  PoolOf(n) \in Pools /\ nbufsize(n) <= NodeSize[PoolOf(n)] /\ NodeSize[PoolOf(n)] \in Nat
<1> DEFINE b == nbufsize(n)
           Least6(p) == b <= NodeSize[p] /\ \A q \in 1..p - 1 : b > NodeSize[q]
<1>1. b \in Nat
  BY RoomForTag
<1> HIDE DEF b
<1>2. \A p \in Pools : NodeSize[p] \in Nat
  BY DEF Pools, NodeSize
<1>3. \E p \in Pools : b <= NodeSize[p]
  <2>1. ~(\E p \in Pools : b <= NodeSize[p]) => PoolOf(n) = 0
    BY Zenon DEF PoolOf, b
  <2> QED BY <2>1
<1>4. \E p \in Pools : Least6(p)
  <2> DEFINE T == {p \in Pools : b <= NodeSize[p]}
  <2>1. T \subseteq Nat /\ T # {}
    BY <1>3 DEF Pools
  <2>2. PICK p \in T : \A j \in T : ~(j < p)
    BY <2>1, LeastNat
  <2>3. p \in Pools /\ b <= NodeSize[p]
    BY <2>2
  <2>4. ASSUME NEW q \in 1..p - 1 PROVE b > NodeSize[q]
    <3>1. q \in Pools /\ q < p
      BY <2>3 DEF Pools
    <3> QED BY <1>1, <1>2, <2>2, <3>1
  <2> QED BY <2>3, <2>4
<1>5. PoolOf(n) = CHOOSE p \in Pools : Least6(p)
  BY <1>3, Zenon DEF PoolOf, b
<1> HIDE DEF Least6
<1>6. PoolOf(n) \in Pools /\ Least6(PoolOf(n))
  BY <1>4, <1>5
<1> QED BY <1>2, <1>6 DEF Least6, b

\* A block of the heap is taken.
LEMMA HeapKeeps ==
    ASSUME PoolInv, NEW n \in Nat, NEW tag \in 0..255, \A p \in Pools : tag # PoolTag(p), FromHeap(n, tag)
    PROVE  PoolInv'
<1>1. PICK i \in 1..MaxUsers :
        /\ \A u \in used : u.at # <<0, 0, i>>
        /\ used' = used \cup {[at |-> <<0, 0, i>>, tag |-> tag, asked |-> n, size |-> nbufsize(n)]}
  BY DEF FromHeap
<1>2. freeLists' = freeLists /\ stPools' = stPools
  BY DEF FromHeap
<1> DEFINE w == [at |-> <<0, 0, i>>, tag |-> tag, asked |-> n, size |-> nbufsize(n)]
<1>3. nbufsize(n) \in Nat /\ n + 1 <= nbufsize(n) /\ i \in Nat
  BY RoomForTag
<1>4. w.at = <<0, 0, i>> /\ w.at[1] = 0 /\ w.tag = tag /\ w.asked = n /\ w.size = nbufsize(n) /\ w \in UsedRecord
  BY <1>3 DEF UsedRecord, Place
<1>5. used' = used \cup {w}
  BY <1>1
<1> HIDE DEF w
<1>6. used' \subseteq UsedRecord /\ IsFiniteSet(used')
  BY <1>4, <1>5, FS_AddElement DEF PoolInv
<1>7. \A u, v \in used' : u.at = v.at => u = v
  BY <1>1, <1>4, <1>5 DEF PoolInv
<1>8. ASSUME NEW p \in Pools PROVE PoolRight(p, freeLists'[p], stPools'[p], used')
  <2>1. p # 0
    BY DEF Pools
  <2>2. {v \in used' : v.at[1] = p} = {v \in used : v.at[1] = p}
    BY <1>4, <1>5, <2>1
  <2>3. TakenOf(p, used') = TakenOf(p, used)
    BY <2>2 DEF TakenOf
  <2> QED BY <1>2, <2>3 DEF PoolInv, PoolRight
<1>9. BlocksHold'
  <2> SUFFICES ASSUME NEW u \in used'
               PROVE  /\ u.asked + 1 <= u.size
                      /\ u.tag \in 0..255
                      /\ IF u.at[1] = 0 THEN \A p \in Pools : u.tag # PoolTag(p) ELSE u.tag = PoolTag(u.at[1])
    BY DEF BlocksHold
  <2>1. CASE u \in used
    BY <2>1 DEF PoolInv, BlocksHold
  <2>2. CASE u = w
    BY <1>3, <1>4, <2>2
  <2> QED BY <1>5, <2>1, <2>2
<1> QED BY <1>2, <1>6, <1>7, <1>8, <1>9 DEF PoolInv

\* The list a pool's node is taken from.
LEMMA ListHasNodes ==
    ASSUME PoolInv, NEW p \in Pools, NEW k,
           k = IF FreeList(p) = freeLists[p] THEN stPools[p] ELSE stPools[p] + 1
    PROVE  /\ FreeList(p) \in Seq(Place) /\ FreeList(p) # <<>> /\ k \in Nat
           /\ PoolRight(p, FreeList(p), k, used)
<1>1. /\ freeLists[p] \in Seq(Place) /\ stPools[p] \in Nat
      /\ PoolRight(p, freeLists[p], stPools[p], used)
  BY DEF PoolInv
<1>2. CASE freeLists[p] # <<>>
  <2>1. FreeList(p) = freeLists[p]
    BY <1>2 DEF FreeList
  <2> QED BY <1>1, <1>2, <2>1
<1>3. CASE freeLists[p] = <<>>
  <2> DEFINE s == stPools[p]
             new == [i \in 1..NodesPerBlock |-> <<p, s + 1, i>>]
  <2>1. FreeList(p) = new
    BY <1>3 DEF FreeList, Nodes
  <2>2. /\ new \in Seq({p} \X {s + 1} \X (1..NodesPerBlock)) /\ Len(new) = NodesPerBlock /\ new # <<>>
        /\ IsInjective(new) /\ ToSet(new) = {p} \X {s + 1} \X (1..NodesPerBlock)
    <3>1. NodesPerBlock \in Nat \ {0}
      BY PoolConstants
    <3>2. LinkedAnew(new, NodesPerBlock, p, s + 1)
      BY <3>1, ListNew, Zenon
    <3> QED BY <3>2, Zenon DEF LinkedAnew
  <2> HIDE DEF new
  <2>3. s \in Nat /\ {p} \X {s + 1} \X (1..NodesPerBlock) \subseteq Place
    BY <1>1 DEF Place, Pools
  <2>4. new \in Seq(Place)
    BY <2>2, <2>3
  <2>5. k = s + 1
    BY <1>3, <2>1, <2>2
  <2>6. TakenOf(p, used) = MadeOf(p, s)
    BY <1>1, <1>3, ListEmpty DEF PoolRight
  <2>7. /\ MadeOf(p, s + 1) = MadeOf(p, s) \cup ({p} \X {s + 1} \X (1..NodesPerBlock))
        /\ MadeOf(p, s) \cap ({p} \X {s + 1} \X (1..NodesPerBlock)) = {}
    <3>1. \A j : (j \in 1..s + 1 <=> j \in 1..s \/ j = s + 1) /\ s + 1 \notin 1..s
      BY <2>3
    <3> HIDE DEF s
    <3> QED BY <3>1 DEF MadeOf
  <2>8. PoolRight(p, new, s + 1, used)
    BY <2>2, <2>6, <2>7 DEF PoolRight
  <2> QED BY <2>1, <2>2, <2>3, <2>4, <2>5, <2>8
<1> QED BY <1>2, <1>3

\* A node of a pool is taken.
LEMMA PoolKeeps ==
    ASSUME PoolInv, NEW n \in Nat, NEW p \in Pools, nbufsize(n) <= NodeSize[p], FromPool(n, p)
    PROVE  PoolInv'
<1> DEFINE list == FreeList(p)
           k == IF list = freeLists[p] THEN stPools[p] ELSE stPools[p] + 1
           h == Head(list)
           w == [at |-> h, tag |-> PoolTag(p), asked |-> n, size |-> NodeSize[p]]
<1>1. /\ freeLists' = [freeLists EXCEPT ![p] = Tail(list)]
      /\ stPools' = [stPools EXCEPT ![p] = k]
      /\ used' = used \cup {w}
  BY DEF FromPool
<1>2. /\ list \in Seq(Place) /\ list # <<>> /\ k \in Nat /\ PoolRight(p, list, k, used)
  BY ListHasNodes
<1> HIDE DEF list, k
<1>3. /\ Tail(list) \in Seq(Place) /\ h \in Place /\ h \in ToSet(list)
      /\ IsInjective(Tail(list)) /\ ToSet(Tail(list)) = ToSet(list) \ {h}
  BY <1>2, ListTail DEF PoolRight
<1>4. h \in MadeOf(p, k) /\ h \notin TakenOf(p, used)
  BY <1>2, <1>3 DEF PoolRight
<1>5. h[1] = p
  BY <1>4 DEF MadeOf
<1> HIDE DEF h
<1>6. NodeSize[p] \in Nat /\ nbufsize(n) \in Nat /\ n + 1 <= NodeSize[p] /\ PoolTag(p) \in 0..255 /\ p # 0
  <2>1. NodeSize[p] \in Nat /\ PoolTag(p) \in 0..255 /\ p # 0
    BY DEF Pools, NodeSize, PoolTag
  <2>2. nbufsize(n) \in Nat /\ n + 1 <= nbufsize(n)
    BY RoomForTag
  <2> QED BY <2>1, <2>2
<1>7. w.at = h /\ w.tag = PoolTag(p) /\ w.asked = n /\ w.size = NodeSize[p] /\ w \in UsedRecord
  BY <1>3, <1>6 DEF UsedRecord
<1> HIDE DEF w
<1>8. /\ freeLists' \in [Pools -> Seq(Place)] /\ stPools' \in [Pools -> Nat]
      /\ freeLists'[p] = Tail(list) /\ stPools'[p] = k
      /\ \A q \in Pools : q # p => freeLists'[q] = freeLists[q] /\ stPools'[q] = stPools[q]
  BY <1>1, <1>2, <1>3 DEF PoolInv
<1>9. used' \subseteq UsedRecord /\ IsFiniteSet(used')
  BY <1>1, <1>7, FS_AddElement DEF PoolInv
<1>10. \A u \in used : u.at # h
  BY <1>4, <1>5 DEF TakenOf
<1>11. \A u, v \in used' : u.at = v.at => u = v
  BY <1>1, <1>7, <1>10 DEF PoolInv
<1>12. ASSUME NEW q \in Pools PROVE PoolRight(q, freeLists'[q], stPools'[q], used')
  <2>1. CASE q = p
    <3>1. {v \in used' : v.at[1] = p} = {v \in used : v.at[1] = p} \cup {w}
      BY <1>1, <1>5, <1>7
    <3>2. TakenOf(p, used') = TakenOf(p, used) \cup {h}
      BY <1>7, <3>1 DEF TakenOf
    <3>3. PoolRight(p, Tail(list), k, used')
      BY <1>2, <1>3, <3>2 DEF PoolRight
    <3> QED BY <1>8, <2>1, <3>3
  <2>2. CASE q # p
    <3>1. {v \in used' : v.at[1] = q} = {v \in used : v.at[1] = q}
      BY <1>1, <1>5, <1>7, <2>2
    <3>2. TakenOf(q, used') = TakenOf(q, used)
      BY <3>1 DEF TakenOf
    <3> QED BY <1>8, <2>2, <3>2 DEF PoolInv, PoolRight
  <2> QED BY <2>1, <2>2
<1>13. BlocksHold'
  <2> SUFFICES ASSUME NEW u \in used'
               PROVE  /\ u.asked + 1 <= u.size
                      /\ u.tag \in 0..255
                      /\ IF u.at[1] = 0 THEN \A q \in Pools : u.tag # PoolTag(q) ELSE u.tag = PoolTag(u.at[1])
    BY DEF BlocksHold
  <2>1. CASE u \in used
    BY <2>1 DEF PoolInv, BlocksHold
  <2>2. CASE u = w
    BY <1>5, <1>6, <1>7, <2>2
  <2> QED BY <1>1, <2>1, <2>2
<1> QED BY <1>8, <1>9, <1>11, <1>12, <1>13 DEF PoolInv

LEMMA AllocateKeeps ==
    ASSUME PoolInv, NEW n \in Requests, allocate(n) PROVE PoolInv'
<1>1. n \in Nat /\ nbufsize(n) \in Nat
  BY PoolConstants, RoomForTag
<1>2. \A p \in Pools : PoolTag(p) \in 129..134
  BY DEF Pools, PoolTag
<1>3. CASE nbufsize(n) <= SmallMax
  <2>1. nbufsize(n) \in 0..255 /\ \A p \in Pools : nbufsize(n) # PoolTag(p)
    BY <1>1, <1>2, <1>3 DEF SmallMax
  <2>2. FromHeap(n, nbufsize(n))
    BY <1>3 DEF allocate
  <2> QED BY <1>1, <2>1, <2>2, HeapKeeps
<1>4. CASE ~(nbufsize(n) <= SmallMax) /\ PoolOf(n) > 0
  <2>1. PoolOf(n) \in Pools /\ nbufsize(n) <= NodeSize[PoolOf(n)]
    BY <1>1, <1>4, PoolFits
  <2>2. FromPool(n, PoolOf(n))
    BY <1>4 DEF allocate
  <2> QED BY <1>1, <2>1, <2>2, PoolKeeps
<1>5. CASE ~(nbufsize(n) <= SmallMax) /\ ~(PoolOf(n) > 0)
  <2>1. HeapTag \in 0..255 /\ \A p \in Pools : HeapTag # PoolTag(p)
    BY <1>2 DEF HeapTag
  <2>2. FromHeap(n, HeapTag)
    BY <1>5 DEF allocate
  <2> QED BY <1>1, <2>1, <2>2, HeapKeeps
<1> QED BY <1>3, <1>4, <1>5

LEMMA DeallocateKeeps ==
    ASSUME PoolInv, NEW u \in used, deallocate(u) PROVE PoolInv'
<1> DEFINE p == u.at[1]
<1>1. u.at \in Place /\ p \in 0..6 /\ u.tag \in 0..255 /\ used' = used \ {u} /\ stPools' = stPools
  BY DEF PoolInv, UsedRecord, Place, deallocate
<1>2. used' \subseteq UsedRecord /\ IsFiniteSet(used') /\ \A x, y \in used' : x.at = y.at => x = y
  BY <1>1, FS_RemoveElement DEF PoolInv
<1>3. BlocksHold'
  BY <1>1 DEF PoolInv, BlocksHold
<1>4. ASSUME NEW q \in Pools, q # p PROVE TakenOf(q, used') = TakenOf(q, used)
  <2>1. {v \in used' : v.at[1] = q} = {v \in used : v.at[1] = q}
    BY <1>1, <1>4
  <2> QED BY <2>1 DEF TakenOf
<1>5. CASE p = 0
  <2>1. ~\E q \in Pools : u.tag = PoolTag(q)
    BY <1>5 DEF PoolInv, BlocksHold
  <2>2. freeLists' = freeLists
    BY <2>1 DEF deallocate
  <2>3. \A q \in Pools : q # p
    BY <1>5 DEF Pools
  <2>4. \A q \in Pools : PoolRight(q, freeLists'[q], stPools'[q], used')
    BY <1>1, <1>4, <2>2, <2>3 DEF PoolInv, PoolRight
  <2> QED BY <1>1, <1>2, <1>3, <2>2, <2>4 DEF PoolInv
<1>6. CASE p # 0
  <2>1. p \in Pools /\ u.tag = PoolTag(p) /\ u.tag - 128 = p
    <3>1. u.tag = PoolTag(p)
      BY <1>6 DEF PoolInv, BlocksHold
    <3> HIDE DEF p
    <3> QED BY <1>1, <1>6, <3>1 DEF Pools, PoolTag
  <2>2. freeLists' = [freeLists EXCEPT ![p] = <<u.at>> \o freeLists[p]]
    BY <2>1 DEF deallocate
  <2> DEFINE list == freeLists[p]
  <2>3. list \in Seq(Place) /\ PoolRight(p, list, stPools[p], used)
    BY <2>1 DEF PoolInv
  <2>4. u.at \in TakenOf(p, used)
    BY DEF TakenOf
  <2>5. u.at \notin ToSet(list)
    BY <2>3, <2>4 DEF PoolRight
  <2> HIDE DEF list
  <2>6. /\ <<u.at>> \o list \in Seq(Place) /\ IsInjective(<<u.at>> \o list)
        /\ ToSet(<<u.at>> \o list) = ToSet(list) \cup {u.at}
    BY <1>1, <2>3, <2>5, ListPut DEF PoolRight
  <2>7. TakenOf(p, used') = TakenOf(p, used) \ {u.at}
    <3>1. {v \in used' : v.at[1] = p} = {v \in used : v.at[1] = p} \ {u}
      BY <1>1
    <3>2. \A v \in used : v.at = u.at => v = u
      BY DEF PoolInv
    <3> QED BY <3>1, <3>2 DEF TakenOf
  <2>8. PoolRight(p, <<u.at>> \o list, stPools[p], used')
    BY <2>3, <2>4, <2>6, <2>7 DEF PoolRight
  <2>9. /\ freeLists' \in [Pools -> Seq(Place)] /\ freeLists'[p] = <<u.at>> \o list
        /\ \A q \in Pools : q # p => freeLists'[q] = freeLists[q]
    BY <2>1, <2>2, <2>6 DEF PoolInv, list
  <2>10. \A q \in Pools : PoolRight(q, freeLists'[q], stPools'[q], used')
    <3> SUFFICES ASSUME NEW q \in Pools PROVE PoolRight(q, freeLists'[q], stPools'[q], used')
      OBVIOUS
    <3>1. CASE q = p
      BY <1>1, <2>8, <2>9, <3>1
    <3>2. CASE q # p
      BY <1>1, <1>4, <2>9, <3>2 DEF PoolInv, PoolRight
    <3> QED BY <3>1, <3>2
  <2> QED BY <1>1, <1>2, <1>3, <2>9, <2>10 DEF PoolInv
<1> QED BY <1>5, <1>6

\* No node is handed out twice or lost, and every block holds what was asked for and goes back
\* where it came from, for all sizes asked for and in any order (CSimpleAllocator).
THEOREM PoolKeepsNodes == SpecPool => []PoolsKept
<1>1. InitPool => PoolInv
  <2> SUFFICES ASSUME InitPool PROVE PoolInv
    OBVIOUS
  <2>1. \A p \in Pools : freeLists[p] = <<>> /\ stPools[p] = 0 /\ TakenOf(p, used) = {}
    BY DEF InitPool, TakenOf
  <2>2. \A p \in Pools : MadeOf(p, 0) = {}
    BY DEF MadeOf
  <2>3. \A p \in Pools : PoolRight(p, freeLists[p], stPools[p], used)
    BY <2>1, <2>2, ListEmpty DEF PoolRight
  <2>4. freeLists \in [Pools -> Seq(Place)] /\ stPools \in [Pools -> Nat]
    BY DEF InitPool
  <2> QED BY <2>3, <2>4, FS_EmptySet DEF InitPool, PoolInv, BlocksHold
<1>2. PoolInv /\ [NextPool]_poolVars => PoolInv'
  <2> SUFFICES ASSUME PoolInv, [NextPool]_poolVars PROVE PoolInv'
    OBVIOUS
  <2>1. CASE UNCHANGED poolVars
    BY <2>1 DEF poolVars, PoolInv, BlocksHold
  <2> QED BY <2>1, AllocateKeeps, DeallocateKeeps DEF NextPool
<1>3. PoolInv => PoolsKept
  <2> SUFFICES ASSUME PoolInv PROVE PoolsKept
    OBVIOUS
  <2>1. ASSUME NEW p \in Pools
        PROVE  Cardinality({u \in used : u.at[1] = p}) = Cardinality(TakenOf(p, used))
    <3> DEFINE U == {u \in used : u.at[1] = p}
               f == [u \in U |-> u.at]
    <3>1. IsFiniteSet(U)
      BY FS_Subset DEF PoolInv
    <3>2. f \in [U -> TakenOf(p, used)]
      BY DEF TakenOf
    <3>3. \A v, w \in U : f[v] = f[w] => v = w
      BY DEF PoolInv
    <3>4. \A at \in TakenOf(p, used) : \E u \in U : f[u] = at
      BY DEF TakenOf
    <3>5. f \in Bijection(U, TakenOf(p, used))
      BY <3>2, <3>3, <3>4 DEF Bijection, Injection, Surjection, IsInjective
    <3>6. ExistsBijection(U, TakenOf(p, used))
      BY <3>5 DEF ExistsBijection
    <3> QED BY <3>1, <3>6, FS_Bijection
  <2>2. NodesKept
    <3> SUFFICES ASSUME NEW p \in Pools
                 PROVE  /\ IsInjective(freeLists[p])
                        /\ ToSet(freeLists[p]) \cap TakenOf(p, used) = {}
                        /\ ToSet(freeLists[p]) \cup TakenOf(p, used) = MadeOf(p, stPools[p])
                        /\ Cardinality({u \in used : u.at[1] = p}) = Cardinality(TakenOf(p, used))
      BY Zenon DEF NodesKept, TakenOf, MadeOf
    <3> QED BY <2>1 DEF PoolInv, PoolRight
  <2> QED BY <2>2 DEF PoolsKept, PoolInv
<1> QED BY <1>1, <1>2, <1>3, PTL DEF SpecPool

-----------------------------------------------------------------------------
(* Lookaside.                                                               *)

Node == Allocators \X Nat \X Nat
LockedSteps == {"add", "add2", "take", "take2", "give"}
HoldSteps == {"construct", "destroyed", "delete", "give"}
WorkSteps == {"idle", "new"} \cup LockedSteps \cup HoldSteps
WorkRecord == [at : WorkSteps, pool : Allocators \cup {Nobody}, node : Node \cup {Nobody}, read : Nat]

\* The objects O of pool p, and the threads with a node, or an object, of its in hand.
AliveOf(O, p) == {n \in O : n[1] = p}
HandsOf(w, p) == {t \in Makers : w[t].at \in HoldSteps /\ w[t].pool = p}
MakingOf(w, p) == {t \in Makers : w[t].pool = p /\ w[t].at \notin {"delete", "give"}}

\* A node of the k blocks of pool p.
InPool(n, p, k) == n \in Node /\ n[1] = p /\ n[2] <= k

\* Every node of pool p is in one place: in its list, an object, or in a thread's hands.
PoolHolds(p, list, k, O, w) ==
    /\ IsInjective(list)
    /\ \A t \in HandsOf(w, p) : w[t].node \notin AliveOf(O, p) \cup ToSet(list)
    /\ \A t, u \in HandsOf(w, p) : t # u => w[t].node # w[u].node
    /\ AliveOf(O, p) \cap ToSet(list) = {}
    /\ \A n \in ToSet(list) \cup AliveOf(O, p) : InPool(n, p, k)
    /\ \A t \in HandsOf(w, p) : InPool(w[t].node, p, k)
    /\ IsFiniteSet(AliveOf(O, p)) /\ IsFiniteSet(HandsOf(w, p))
    /\ Len(list) + Cardinality(AliveOf(O, p)) + Cardinality(HandsOf(w, p)) = k * blockNodeNum

\* The count c of pool p.
CountHolds(p, c, O, w) ==
    /\ IsFiniteSet(AliveOf(O, p)) /\ IsFiniteSet(MakingOf(w, p))
    /\ c = Cardinality(AliveOf(O, p)) + Cardinality(MakingOf(w, p))

\* Only thread t goes on.
OnlyOf(w, v, t) == \A u \in Makers : u # t => v[u] = w[u]

LEMMA HandsMove ==
    ASSUME NEW w, NEW v, NEW t \in Makers, NEW p \in Allocators, OnlyOf(w, v, t)
    PROVE  /\ v[t].at \in HoldSteps /\ v[t].pool = p => HandsOf(v, p) = HandsOf(w, p) \cup {t}
           /\ ~(v[t].at \in HoldSteps /\ v[t].pool = p) => HandsOf(v, p) = HandsOf(w, p) \ {t}
           /\ v[t].pool = p /\ v[t].at \notin {"delete", "give"} => MakingOf(v, p) = MakingOf(w, p) \cup {t}
           /\ ~(v[t].pool = p /\ v[t].at \notin {"delete", "give"}) => MakingOf(v, p) = MakingOf(w, p) \ {t}
<1>1. v[t].at \in HoldSteps /\ v[t].pool = p => HandsOf(v, p) = HandsOf(w, p) \cup {t}
  BY DEF HandsOf, OnlyOf
<1>2. ~(v[t].at \in HoldSteps /\ v[t].pool = p) => HandsOf(v, p) = HandsOf(w, p) \ {t}
  BY DEF HandsOf, OnlyOf
<1>3. v[t].pool = p /\ v[t].at \notin {"delete", "give"} => MakingOf(v, p) = MakingOf(w, p) \cup {t}
  BY DEF MakingOf, OnlyOf
<1>4. ~(v[t].pool = p /\ v[t].at \notin {"delete", "give"}) => MakingOf(v, p) = MakingOf(w, p) \ {t}
  BY DEF MakingOf, OnlyOf
<1> QED BY <1>1, <1>2, <1>3, <1>4

\* A pool whose nodes are where they were.
LEMMA PoolStays ==
    ASSUME NEW p, NEW list, NEW k, NEW O, NEW U, NEW w, NEW v,
           PoolHolds(p, list, k, O, w), AliveOf(U, p) = AliveOf(O, p), HandsOf(v, p) = HandsOf(w, p),
           \A t \in HandsOf(w, p) : v[t].node = w[t].node
    PROVE  PoolHolds(p, list, k, U, v)
BY DEF PoolHolds

\* A pool without free nodes gets a block of them.
LEMMA PoolGrows ==
    ASSUME NEW p \in Allocators, NEW k \in Nat, NEW O, NEW w, PoolHolds(p, <<>>, k, O, w)
    PROVE  /\ PoolHolds(p, NodesOf(p, k + 1), k + 1, O, w)
           /\ NodesOf(p, k + 1) \in Seq(Node) /\ NodesOf(p, k + 1) # <<>>
<1> DEFINE s == NodesOf(p, k + 1)
           m == k + 1
           A == AliveOf(O, p)
           H == HandsOf(w, p)
<1>1. /\ s \in Seq({p} \X {m} \X (1..blockNodeNum)) /\ Len(s) = blockNodeNum /\ s # <<>>
      /\ IsInjective(s) /\ ToSet(s) = {p} \X {m} \X (1..blockNodeNum)
  <2>1. LinkedAnew(s, blockNodeNum, p, m)
    BY AsideConstants, ListNew DEF NodesOf
  <2> QED BY <2>1, Zenon DEF LinkedAnew
<1>2. m \in Nat /\ ~(m <= k) /\ k <= m
  OBVIOUS
<1>3. {p} \X {m} \X (1..blockNodeNum) \subseteq Node
  BY <1>2, AsideConstants DEF Node
<1>4. s \in Seq(Node)
  <2> HIDE DEF s
  <2>1. \A i \in 1..Len(s) : s[i] \in Node
    BY <1>1, <1>3
  <2>2. s \in [1..Len(s) -> Node] /\ Len(s) \in Nat
    BY <1>1, <2>1
  <2> QED BY <2>2
<1>5. \A n \in ToSet(s) : n \in Node /\ n[1] = p /\ n[2] = m
  BY <1>1, <1>3
<1>6. /\ \A n \in A : InPool(n, p, k)
      /\ \A t \in H : InPool(w[t].node, p, k)
  BY DEF PoolHolds
<1>7. /\ \A n \in A : n \notin ToSet(s) /\ InPool(n, p, m)
      /\ \A t \in H : w[t].node \notin ToSet(s) /\ InPool(w[t].node, p, m)
  <2>1. ASSUME NEW n, InPool(n, p, k) PROVE n \notin ToSet(s) /\ InPool(n, p, m)
    <3>1. n \in Node /\ n[1] = p /\ n[2] <= k /\ n[2] \in Nat
      BY <2>1 DEF InPool, Node
    <3>2. \A j \in Nat : j <= k => j # m /\ j <= m
      BY <1>2
    <3> QED BY <1>5, <3>1, <3>2 DEF InPool
  <2> QED BY <1>6, <2>1
<1>8. \A n \in ToSet(s) : InPool(n, p, m)
  BY <1>2, <1>5 DEF InPool
<1>9. Len(s) + Cardinality(A) + Cardinality(H) = m * blockNodeNum
  <2>1. Cardinality(A) \in Nat /\ Cardinality(H) \in Nat /\ Len(<<>>) = 0
        /\ Len(<<>>) + Cardinality(A) + Cardinality(H) = k * blockNodeNum
    BY FS_CardinalityType DEF PoolHolds
  <2>2. \A x, y, h \in Nat : \A n \in Nat : x + y = h * n => n + x + y = (h + 1) * n
    <3>1. \A h, n \in Nat : (h + 1) * n = h * n + n /\ h * n \in Nat
      OBVIOUS
    <3> QED BY <3>1
  <2> DEFINE x == Cardinality(A)
             y == Cardinality(H)
  <2> HIDE DEF x, y, A, H, s
  <2>3. x \in Nat /\ y \in Nat /\ x + y = k * blockNodeNum
    BY <2>1 DEF x, y
  <2>4. blockNodeNum + x + y = (k + 1) * blockNodeNum
    BY <2>2, <2>3, AsideConstants
  <2> QED BY <1>1, <2>4 DEF x, y
<1> HIDE DEF s, m
<1>10. PoolHolds(p, s, m, O, w)
  <2>1. /\ \A t, u \in H : t # u => w[t].node # w[u].node
        /\ \A t \in H : w[t].node \notin A
        /\ IsFiniteSet(A) /\ IsFiniteSet(H)
    BY DEF PoolHolds
  <2> QED BY <1>1, <1>7, <1>8, <1>9, <2>1 DEF PoolHolds
<1> QED BY <1>1, <1>4, <1>10 DEF s, m

\* Sums of three that one of them loses to another.
LEMMA SumMoves ==
    \A x, y, h \in Nat : /\ x >= 1 => (x - 1) + y + (h + 1) = x + y + h
                         /\ h >= 1 => x + (y + 1) + (h - 1) = x + y + h
                         /\ y >= 1 => x + (y - 1) + (h + 1) = x + y + h
                         /\ h >= 1 => (x + 1) + y + (h - 1) = x + y + h
OBVIOUS

\* The parts of a pool's count.
LEMMA PoolParts ==
    ASSUME NEW p, NEW list \in Seq(Node), NEW k, NEW O, NEW w, PoolHolds(p, list, k, O, w)
    PROVE  /\ Len(list) \in Nat /\ Cardinality(AliveOf(O, p)) \in Nat /\ Cardinality(HandsOf(w, p)) \in Nat
           /\ \A n \in AliveOf(O, p) : Cardinality(AliveOf(O, p)) >= 1
           /\ \A t \in HandsOf(w, p) : Cardinality(HandsOf(w, p)) >= 1
<1>1. \A S : IsFiniteSet(S) => Cardinality(S) \in Nat /\ (Cardinality(S) = 0 <=> S = {})
  BY FS_CardinalityType, FS_EmptySet
<1>2. IsFiniteSet(AliveOf(O, p)) /\ IsFiniteSet(HandsOf(w, p))
  BY DEF PoolHolds
<1>3. \A i \in Nat : i # 0 => i >= 1
  OBVIOUS
<1> QED BY <1>1, <1>2, <1>3

\* A thread takes the first node.
LEMMA PoolTakes ==
    ASSUME NEW p, NEW list \in Seq(Node), NEW k, NEW O, NEW w, NEW v, NEW t, list # <<>>,
           PoolHolds(p, list, k, O, w), OnlyOf(w, v, t), t \notin HandsOf(w, p),
           HandsOf(v, p) = HandsOf(w, p) \cup {t}, v[t].node = Head(list)
    PROVE  Tail(list) \in Seq(Node) /\ PoolHolds(p, Tail(list), k, O, v)
<1> DEFINE A == AliveOf(O, p)
           H == HandsOf(w, p)
           s == Tail(list)
           n == Head(list)
<1>1. /\ s \in Seq(Node) /\ Len(s) = Len(list) - 1 /\ Len(list) \in Nat
      /\ n \in ToSet(list) /\ IsInjective(s) /\ ToSet(s) = ToSet(list) \ {n}
  <2>1. IsInjective(list)
    BY DEF PoolHolds
  <2> QED BY <2>1, ListTail
<1>2. \A u \in H : v[u].node = w[u].node /\ u # t
  BY DEF OnlyOf, HandsOf
<1>3. \A u \in H : w[u].node \notin A \cup ToSet(list) /\ InPool(w[u].node, p, k)
  BY DEF PoolHolds
<1>4. n \notin A /\ InPool(n, p, k)
  BY <1>1 DEF PoolHolds
<1>5. \A u \in HandsOf(v, p) : v[u].node \notin A \cup ToSet(s) /\ InPool(v[u].node, p, k)
  BY <1>1, <1>2, <1>3, <1>4
<1>6. \A u, x \in HandsOf(v, p) : u # x => v[u].node # v[x].node
  <2>1. \A u, x \in H : u # x => w[u].node # w[x].node
    BY DEF PoolHolds
  <2>2. \A u \in H : v[u].node # n
    BY <1>1, <1>2, <1>3
  <2> QED BY <1>2, <2>1, <2>2
<1>7. A \cap ToSet(s) = {} /\ \A x \in ToSet(s) \cup A : InPool(x, p, k)
  BY <1>1 DEF PoolHolds
<1>8. /\ IsFiniteSet(A) /\ IsFiniteSet(HandsOf(v, p))
      /\ Cardinality(HandsOf(v, p)) = Cardinality(H) + 1
  BY FS_AddElement DEF PoolHolds
<1>9. Len(s) + Cardinality(A) + Cardinality(HandsOf(v, p)) = k * blockNodeNum
  <2>1. Len(list) + Cardinality(A) + Cardinality(H) = k * blockNodeNum
    BY DEF PoolHolds
  <2>2. Len(list) \in Nat /\ Cardinality(A) \in Nat /\ Cardinality(H) \in Nat /\ Len(list) >= 1
    <3>1. Len(list) >= 1
      OBVIOUS
    <3> QED BY <3>1, PoolParts
  <2>3. (Len(list) - 1) + Cardinality(A) + (Cardinality(H) + 1) = Len(list) + Cardinality(A) + Cardinality(H)
    BY <2>2, SumMoves, Zenon
  <2> QED BY <1>1, <1>8, <2>1, <2>3, Zenon
<1> HIDE DEF s, n
<1> QED BY <1>1, <1>5, <1>6, <1>7, <1>8, <1>9, Zenon DEF PoolHolds, s

\* A thread's node becomes an object.
LEMMA PoolConstructs ==
    ASSUME NEW p, NEW list \in Seq(Node), NEW k, NEW O, NEW w, NEW v, NEW t \in HandsOf(w, p),
           PoolHolds(p, list, k, O, w), OnlyOf(w, v, t), HandsOf(v, p) = HandsOf(w, p) \ {t}
    PROVE  PoolHolds(p, list, k, O \cup {w[t].node}, v)
<1> DEFINE n == w[t].node
           A == AliveOf(O, p)
           B == AliveOf(O \cup {n}, p)
           H == HandsOf(w, p)
<1>1. n \notin A \cup ToSet(list) /\ InPool(n, p, k)
  BY DEF PoolHolds
<1>2. B = A \cup {n}
  BY <1>1 DEF AliveOf, InPool
<1>3. \A u \in HandsOf(v, p) : u \in H /\ u # t /\ v[u].node = w[u].node
  BY DEF OnlyOf, HandsOf
<1>4. \A u \in HandsOf(v, p) : v[u].node \notin B \cup ToSet(list) /\ InPool(v[u].node, p, k)
  <2>1. \A u \in H : w[u].node \notin A \cup ToSet(list) /\ InPool(w[u].node, p, k)
    BY DEF PoolHolds
  <2>2. \A u \in H : u # t => w[u].node # n
    BY DEF PoolHolds
  <2> QED BY <1>2, <1>3, <2>1, <2>2
<1>5. \A u, x \in HandsOf(v, p) : u # x => v[u].node # v[x].node
  BY <1>3 DEF PoolHolds
<1>6. IsInjective(list) /\ B \cap ToSet(list) = {} /\ \A x \in ToSet(list) \cup B : InPool(x, p, k)
  BY <1>1, <1>2 DEF PoolHolds
<1>7. /\ IsFiniteSet(B) /\ IsFiniteSet(HandsOf(v, p))
      /\ Cardinality(B) = Cardinality(A) + 1 /\ Cardinality(HandsOf(v, p)) = Cardinality(H) - 1
  <2>1. IsFiniteSet(A) /\ IsFiniteSet(H)
    BY DEF PoolHolds
  <2>2. IsFiniteSet(A \cup {n}) /\ Cardinality(A \cup {n}) = Cardinality(A) + 1
    BY <1>1, <2>1, FS_AddElement
  <2>3. IsFiniteSet(H \ {t}) /\ Cardinality(H \ {t}) = Cardinality(H) - 1
    BY <2>1, FS_RemoveElement
  <2> QED BY <1>2, <2>2, <2>3
<1>8. Len(list) + Cardinality(B) + Cardinality(HandsOf(v, p)) = k * blockNodeNum
  <2>1. Len(list) + Cardinality(A) + Cardinality(H) = k * blockNodeNum
    BY DEF PoolHolds
  <2>2. Len(list) \in Nat /\ Cardinality(A) \in Nat /\ Cardinality(H) \in Nat /\ Cardinality(H) >= 1
    BY PoolParts
  <2>3. Len(list) + (Cardinality(A) + 1) + (Cardinality(H) - 1) = Len(list) + Cardinality(A) + Cardinality(H)
    BY <2>2, SumMoves, Zenon
  <2> QED BY <1>7, <2>1, <2>3, Zenon
<1> HIDE DEF n
<1> QED BY <1>4, <1>5, <1>6, <1>7, <1>8, Zenon DEF PoolHolds, n

\* An object's node comes into a thread's hand.
LEMMA PoolDestroys ==
    ASSUME NEW p, NEW list \in Seq(Node), NEW k, NEW O, NEW w, NEW v, NEW t, NEW n \in AliveOf(O, p),
           PoolHolds(p, list, k, O, w), OnlyOf(w, v, t), t \notin HandsOf(w, p),
           HandsOf(v, p) = HandsOf(w, p) \cup {t}, v[t].node = n
    PROVE  PoolHolds(p, list, k, O \ {n}, v)
<1> DEFINE A == AliveOf(O, p)
           B == AliveOf(O \ {n}, p)
           H == HandsOf(w, p)
<1>1. n \notin ToSet(list) /\ InPool(n, p, k)
  BY DEF PoolHolds
<1>2. B = A \ {n}
  BY DEF AliveOf
<1>3. \A u \in H : v[u].node = w[u].node /\ u # t
  BY DEF OnlyOf, HandsOf
<1>4. \A u \in H : w[u].node \notin A \cup ToSet(list) /\ InPool(w[u].node, p, k)
  BY DEF PoolHolds
<1>5. \A u \in HandsOf(v, p) : v[u].node \notin B \cup ToSet(list) /\ InPool(v[u].node, p, k)
  BY <1>1, <1>2, <1>3, <1>4
<1>6. \A u, x \in HandsOf(v, p) : u # x => v[u].node # v[x].node
  <2>1. \A u, x \in H : u # x => w[u].node # w[x].node
    BY DEF PoolHolds
  <2>2. \A u \in H : v[u].node # n
    BY <1>3, <1>4
  <2> QED BY <1>3, <2>1, <2>2
<1>7. IsInjective(list) /\ B \cap ToSet(list) = {} /\ \A x \in ToSet(list) \cup B : InPool(x, p, k)
  BY <1>2 DEF PoolHolds
<1>8. /\ IsFiniteSet(B) /\ IsFiniteSet(HandsOf(v, p))
      /\ Cardinality(B) = Cardinality(A) - 1 /\ Cardinality(HandsOf(v, p)) = Cardinality(H) + 1
  <2>1. IsFiniteSet(A) /\ IsFiniteSet(H)
    BY DEF PoolHolds
  <2>2. IsFiniteSet(A \ {n}) /\ Cardinality(A \ {n}) = Cardinality(A) - 1
    BY <2>1, FS_RemoveElement
  <2>3. IsFiniteSet(H \cup {t}) /\ Cardinality(H \cup {t}) = Cardinality(H) + 1
    BY <2>1, FS_AddElement
  <2> QED BY <1>2, <2>2, <2>3
<1>9. Len(list) + Cardinality(B) + Cardinality(HandsOf(v, p)) = k * blockNodeNum
  <2>1. Len(list) + Cardinality(A) + Cardinality(H) = k * blockNodeNum
    BY DEF PoolHolds
  <2>2. Len(list) \in Nat /\ Cardinality(A) \in Nat /\ Cardinality(H) \in Nat /\ Cardinality(A) >= 1
    BY PoolParts
  <2>3. Len(list) + (Cardinality(A) - 1) + (Cardinality(H) + 1) = Len(list) + Cardinality(A) + Cardinality(H)
    BY <2>2, SumMoves, Zenon
  <2> QED BY <1>8, <2>1, <2>3, Zenon
<1> QED BY <1>5, <1>6, <1>7, <1>8, <1>9, Zenon DEF PoolHolds

\* A thread puts its node first on the list.
LEMMA PoolGets ==
    ASSUME NEW p, NEW list \in Seq(Node), NEW k, NEW O, NEW w, NEW v, NEW t \in HandsOf(w, p),
           PoolHolds(p, list, k, O, w), OnlyOf(w, v, t), HandsOf(v, p) = HandsOf(w, p) \ {t}
    PROVE  <<w[t].node>> \o list \in Seq(Node) /\ PoolHolds(p, <<w[t].node>> \o list, k, O, v)
<1> DEFINE n == w[t].node
           A == AliveOf(O, p)
           H == HandsOf(w, p)
           s == <<n>> \o list
<1>1. n \notin A \cup ToSet(list) /\ InPool(n, p, k)
  BY DEF PoolHolds
<1>2. /\ s \in Seq(Node) /\ Len(s) = Len(list) + 1 /\ IsInjective(s) /\ ToSet(s) = ToSet(list) \cup {n}
  <2>1. IsInjective(list) /\ n \in Node /\ n \notin ToSet(list)
    BY <1>1 DEF PoolHolds, InPool
  <2> HIDE DEF n
  <2> QED BY <2>1, ListPut
<1>3. \A u \in HandsOf(v, p) : u \in H /\ u # t /\ v[u].node = w[u].node
  BY DEF OnlyOf, HandsOf
<1>4. \A u \in HandsOf(v, p) : v[u].node \notin A \cup ToSet(s) /\ InPool(v[u].node, p, k)
  <2>1. \A u \in H : w[u].node \notin A \cup ToSet(list) /\ InPool(w[u].node, p, k)
    BY DEF PoolHolds
  <2>2. \A u \in H : u # t => w[u].node # n
    BY DEF PoolHolds
  <2> HIDE DEF s
  <2> QED BY <1>2, <1>3, <2>1, <2>2
<1>5. \A u, x \in HandsOf(v, p) : u # x => v[u].node # v[x].node
  BY <1>3 DEF PoolHolds
<1>6. A \cap ToSet(s) = {} /\ \A x \in ToSet(s) \cup A : InPool(x, p, k)
  <2> HIDE DEF s
  <2> QED BY <1>1, <1>2 DEF PoolHolds
<1>7. /\ IsFiniteSet(A) /\ IsFiniteSet(HandsOf(v, p))
      /\ Cardinality(HandsOf(v, p)) = Cardinality(H) - 1
  BY FS_RemoveElement DEF PoolHolds
<1>8. Len(s) + Cardinality(A) + Cardinality(HandsOf(v, p)) = k * blockNodeNum
  <2>1. Len(list) + Cardinality(A) + Cardinality(H) = k * blockNodeNum
    BY DEF PoolHolds
  <2>2. Len(list) \in Nat /\ Cardinality(A) \in Nat /\ Cardinality(H) \in Nat /\ Cardinality(H) >= 1
    BY PoolParts
  <2>3. (Len(list) + 1) + Cardinality(A) + (Cardinality(H) - 1) = Len(list) + Cardinality(A) + Cardinality(H)
    BY <2>2, SumMoves, Zenon
  <2> QED BY <1>2, <1>7, <2>1, <2>3, Zenon
<1> HIDE DEF s
<1> QED BY <1>2, <1>4, <1>5, <1>6, <1>7, <1>8, Zenon DEF PoolHolds, s, n

AsideTypes ==
    /\ m_freePool \in [Allocators -> Seq(Node)] /\ mPools \in [Allocators -> Nat]
    /\ gLookasideAllocSize \in Nat /\ m_nrefcount \in [Allocators -> Int]
    /\ lock \in [Allocators -> Makers \cup {Nobody}]
    /\ work \in [Makers -> WorkRecord] /\ objects \subseteq Node

\* What a thread knows at a step holds until it goes on: the lock keeps the others away.
ThreadRight(t) ==
    /\ work[t].at = "idle" <=> work[t].pool = Nobody
    /\ work[t].at \in LockedSteps => lock[work[t].pool] = t
    /\ work[t].at \in {"add", "add2"} => m_freePool[work[t].pool] = <<>>
    /\ work[t].at = "add2" => work[t].read <= Cardinality(AllBlocks)
    /\ work[t].at \in {"take", "take2"} => m_freePool[work[t].pool] # <<>>
    /\ work[t].at = "take2" => work[t].node = Head(m_freePool[work[t].pool])

SizeRight == IsFiniteSet(AllBlocks) /\ gLookasideAllocSize <= Cardinality(AllBlocks)

\* Nodes and counts are right, and so is what each thread knows.
AsideInv ==
    /\ AsideTypes /\ SizeRight
    /\ \A t \in Makers : ThreadRight(t)
    /\ \A p \in Allocators : PoolHolds(p, m_freePool[p], mPools[p], objects, work)
    /\ \A p \in Allocators : CountHolds(p, m_nrefcount[p], objects, work)

\* A step of thread t in pool p leaves the other pools, and what the other threads know.
StepIn(t, p) ==
    /\ OnlyOf(work, work', t)
    /\ work[t].pool \in {p, Nobody} /\ work'[t].pool \in {p, Nobody}
    /\ \A q \in Allocators : q # p =>
           /\ lock'[q] = lock[q] /\ m_freePool'[q] = m_freePool[q] /\ mPools'[q] = mPools[q]
           /\ m_nrefcount'[q] = m_nrefcount[q] /\ AliveOf(objects', q) = AliveOf(objects, q)
    /\ lock[p] \in {Nobody, t} \/ (lock'[p] = lock[p] /\ m_freePool'[p] = m_freePool[p])

LEMMA StepKeeps ==
    ASSUME AsideInv, NEW t \in Makers, NEW p \in Allocators, StepIn(t, p),
           AsideTypes', SizeRight', Cardinality(AllBlocks) <= Cardinality(AllBlocks)', ThreadRight(t)',
           PoolHolds(p, m_freePool'[p], mPools'[p], objects', work'),
           CountHolds(p, m_nrefcount'[p], objects', work')
    PROVE  AsideInv'
<1>1. OnlyOf(work, work', t) /\ t \notin {Nobody}
  BY AsideConstants DEF StepIn
<1>2. ASSUME NEW u \in Makers, u # t PROVE ThreadRight(u)'
  <2> DEFINE q == work[u].pool
             c == Cardinality(AllBlocks)
             d == Cardinality(AllBlocks)'
             r == work[u].read
  <2>1. work'[u] = work[u] /\ ThreadRight(u) /\ work[u] \in WorkRecord
    BY <1>1, <1>2 DEF OnlyOf, AsideInv, AsideTypes
  <2>2. q \in Allocators \cup {Nobody} /\ r \in Nat
    BY <2>1 DEF WorkRecord
  <2>3. c \in Nat /\ d \in Nat /\ c <= d
    BY FS_CardinalityType DEF AsideInv, SizeRight
  <2>4. r <= c => r <= d
    <3> HIDE DEF c, d, r
    <3> QED BY <2>2, <2>3
  <2>5. work[u].at \in LockedSteps => q \in Allocators /\ lock[q] = u
    <3>1. \A s \in LockedSteps : s # "idle"
      BY DEF LockedSteps
    <3> QED BY <2>1, <2>2, <3>1 DEF ThreadRight
  <2>6. work[u].at \in LockedSteps => lock'[q] = lock[q] /\ m_freePool'[q] = m_freePool[q]
    <3>1. Nobody \notin Makers
      BY AsideConstants
    <3> QED BY <1>2, <2>5, <3>1 DEF StepIn
  <2>7. {"add", "add2", "take", "take2"} \subseteq LockedSteps
    BY DEF LockedSteps
  <2> HIDE DEF q
  <2>8. /\ work'[u].at = work[u].at /\ work'[u].node = work[u].node
        /\ work'[u].pool = q /\ work[u].pool = q /\ work'[u].read = r
    BY <2>1 DEF q
  <2> HIDE DEF r, c, d
  <2>9. /\ work'[u].at = "idle" <=> work'[u].pool = Nobody
        /\ work'[u].at \in LockedSteps => lock'[work'[u].pool] = u
        /\ work'[u].at \in {"add", "add2"} => m_freePool'[work'[u].pool] = <<>>
        /\ work'[u].at \in {"take", "take2"} => m_freePool'[work'[u].pool] # <<>>
        /\ work'[u].at = "take2" => work'[u].node = Head(m_freePool'[work'[u].pool])
    BY <2>1, <2>5, <2>6, <2>7, <2>8 DEF ThreadRight
  <2>10. work'[u].at = "add2" => r <= d
    BY <2>1, <2>4, <2>8 DEF ThreadRight, c, r
  <2> QED BY <2>8, <2>9, <2>10 DEF ThreadRight, d
<1>3. ASSUME NEW q \in Allocators, q # p
      PROVE  /\ PoolHolds(q, m_freePool'[q], mPools'[q], objects', work')
             /\ CountHolds(q, m_nrefcount'[q], objects', work')
  <2>1. work[t].pool # q /\ work'[t].pool # q
    BY <1>3, AsideConstants DEF StepIn
  <2>2. t \notin HandsOf(work, q) /\ t \notin MakingOf(work, q)
    BY <2>1 DEF HandsOf, MakingOf
  <2>3. HandsOf(work', q) = HandsOf(work, q) /\ MakingOf(work', q) = MakingOf(work, q)
    <3>1. HandsOf(work', q) = HandsOf(work, q) \ {t} /\ MakingOf(work', q) = MakingOf(work, q) \ {t}
      BY <1>1, <2>1, HandsMove
    <3> QED BY <2>2, <3>1
  <2>4. /\ m_freePool'[q] = m_freePool[q] /\ mPools'[q] = mPools[q]
        /\ m_nrefcount'[q] = m_nrefcount[q] /\ AliveOf(objects', q) = AliveOf(objects, q)
    BY <1>3 DEF StepIn
  <2>5. \A u \in HandsOf(work, q) : work'[u].node = work[u].node
    BY <1>1, <2>2 DEF OnlyOf, HandsOf
  <2>6. PoolHolds(q, m_freePool[q], mPools[q], objects', work')
    <3>1. PoolHolds(q, m_freePool[q], mPools[q], objects, work)
      BY DEF AsideInv
    <3> QED BY <2>3, <2>4, <2>5, <3>1, PoolStays
  <2>7. CountHolds(q, m_nrefcount[q], objects', work')
    BY <2>3, <2>4 DEF AsideInv, CountHolds
  <2> QED BY <2>4, <2>6, <2>7
<1>4. \A u \in Makers : ThreadRight(u)'
  BY <1>2
<1> QED BY <1>3, <1>4 DEF AsideInv

\* A pool whose count is what it was.
LEMMA CountStays ==
    ASSUME NEW p, NEW c, NEW O, NEW U, NEW w, NEW v, CountHolds(p, c, O, w),
           AliveOf(U, p) = AliveOf(O, p), MakingOf(v, p) = MakingOf(w, p)
    PROVE  CountHolds(p, c, U, v)
BY DEF CountHolds

\* A thread goes on to another step, with what it has.
LEMMA GoesOn ==
    ASSUME AsideTypes, NEW t \in Makers, NEW s \in WorkSteps, Goes(t, s)
    PROVE  /\ work' \in [Makers -> WorkRecord] /\ OnlyOf(work, work', t)
           /\ work'[t].at = s /\ work'[t].pool = work[t].pool
           /\ work'[t].node = work[t].node /\ work'[t].read = work[t].read
<1> DEFINE x == [work[t] EXCEPT !.at = s]
<1>1. work[t] \in WorkRecord /\ work \in [Makers -> WorkRecord]
  BY DEF AsideTypes
<1>2. x \in WorkRecord /\ x.at = s /\ x.pool = work[t].pool /\ x.node = work[t].node /\ x.read = work[t].read
  BY <1>1 DEF WorkRecord
<1>3. work' = [work EXCEPT ![t] = x]
  BY DEF Goes
<1> HIDE DEF x
<1>4. work' \in [Makers -> WorkRecord] /\ work'[t] = x /\ \A u \in Makers : u # t => work'[u] = work[u]
  BY <1>1, <1>2, <1>3
<1> QED BY <1>2, <1>4 DEF OnlyOf

\* A thread's record, once it is known.
LEMMA WorkSet ==
    ASSUME AsideTypes, NEW t \in Makers, NEW x \in WorkRecord, work' = [work EXCEPT ![t] = x]
    PROVE  work' \in [Makers -> WorkRecord] /\ OnlyOf(work, work', t) /\ work'[t] = x
BY DEF AsideTypes, OnlyOf

\* The size of all pools stays what it is.
LEMMA SizeStays ==
    ASSUME AsideInv, UNCHANGED <<mPools, gLookasideAllocSize>>
    PROVE  SizeRight' /\ AllBlocks' = AllBlocks /\ Cardinality(AllBlocks) <= Cardinality(AllBlocks)'
<1>1. AllBlocks' = AllBlocks
  BY DEF AllBlocks
<1>2. IsFiniteSet(AllBlocks) /\ Cardinality(AllBlocks) \in Nat
  BY FS_CardinalityType DEF AsideInv, SizeRight
<1>3. \A i \in Nat : i <= i
  OBVIOUS
<1> QED BY <1>1, <1>2, <1>3 DEF AsideInv, SizeRight

\* A step that moves no node and leaves the counts: the thread has and makes what it did.
LEMMA NothingMoves ==
    ASSUME AsideInv, NEW t \in Makers, NEW p \in Allocators, OnlyOf(work, work', t),
           UNCHANGED <<objects, m_freePool, mPools, m_nrefcount>>,
           HandsOf(work', p) = HandsOf(work, p), MakingOf(work', p) = MakingOf(work, p),
           t \in HandsOf(work, p) => work'[t].node = work[t].node
    PROVE  /\ PoolHolds(p, m_freePool'[p], mPools'[p], objects', work')
           /\ CountHolds(p, m_nrefcount'[p], objects', work')
<1>1. \A u \in HandsOf(work, p) : work'[u].node = work[u].node
  BY DEF OnlyOf, HandsOf
<1>2. PoolHolds(p, m_freePool[p], mPools[p], objects, work) /\ CountHolds(p, m_nrefcount[p], objects, work)
  BY DEF AsideInv
<1>3. PoolHolds(p, m_freePool[p], mPools[p], objects', work')
  BY <1>1, <1>2, PoolStays
<1>4. CountHolds(p, m_nrefcount[p], objects', work')
  BY <1>2, CountStays
<1> QED BY <1>3, <1>4

\* The pool of a thread at work.
LEMMA AtPool ==
    ASSUME AsideInv, NEW t \in Makers, work[t].at # "idle"
    PROVE  /\ work[t].pool \in Allocators /\ work[t].pool # Nobody /\ work[t] \in WorkRecord
           /\ AsideTypes /\ ThreadRight(t)
BY DEF AsideInv, AsideTypes, ThreadRight, WorkRecord

LEMMA CountKeeps ==
    ASSUME AsideInv, NEW t \in Makers, NEW p \in Allocators, InterlockedIncrement(t, p)
    PROVE  AsideInv'
<1> DEFINE x == [work[t] EXCEPT !.at = "new", !.pool = p]
<1>1. /\ AsideTypes /\ work[t] \in WorkRecord /\ work[t].at = "idle" /\ work[t].pool = Nobody
  BY DEF AsideInv, AsideTypes, InterlockedIncrement, ThreadRight
<1>2. x \in WorkRecord /\ x.at = "new" /\ x.pool = p
  BY <1>1 DEF WorkRecord, WorkSteps
<1>3. work' = [work EXCEPT ![t] = x]
  BY DEF InterlockedIncrement
<1> HIDE DEF x
<1>4. work' \in [Makers -> WorkRecord] /\ OnlyOf(work, work', t) /\ work'[t] = x
  BY <1>1, <1>2, <1>3, WorkSet
<1>5. UNCHANGED <<m_freePool, mPools, gLookasideAllocSize, lock, objects>>
      /\ m_nrefcount' = [m_nrefcount EXCEPT ![p] = @ + 1]
  BY DEF InterlockedIncrement
<1>6. StepIn(t, p)
  BY <1>1, <1>2, <1>4, <1>5 DEF StepIn, AsideTypes
<1>7. AsideTypes'
  <2>1. m_nrefcount' \in [Allocators -> Int]
    BY <1>1, <1>5 DEF AsideTypes
  <2> QED BY <1>1, <1>4, <1>5, <2>1 DEF AsideTypes
<1>8. ThreadRight(t)'
  BY <1>2, <1>4, AsideConstants DEF ThreadRight, LockedSteps
<1>9. p # Nobody /\ t \notin HandsOf(work, p) /\ t \notin MakingOf(work, p)
  BY <1>1, AsideConstants DEF HandsOf, MakingOf
<1>10. HandsOf(work', p) = HandsOf(work, p) /\ MakingOf(work', p) = MakingOf(work, p) \cup {t}
  <2>1. x.at \notin HoldSteps /\ x.at \notin {"delete", "give"}
    BY <1>2 DEF HoldSteps
  <2>2. HandsOf(work', p) = HandsOf(work, p) \ {t} /\ MakingOf(work', p) = MakingOf(work, p) \cup {t}
    BY <1>2, <1>4, <2>1, HandsMove
  <2> QED BY <1>9, <2>2
<1>11. PoolHolds(p, m_freePool'[p], mPools'[p], objects', work')
  <2>1. \A u \in HandsOf(work, p) : work'[u].node = work[u].node
    BY <1>4, <1>9 DEF OnlyOf, HandsOf
  <2>2. PoolHolds(p, m_freePool[p], mPools[p], objects, work)
    BY DEF AsideInv
  <2>3. PoolHolds(p, m_freePool[p], mPools[p], objects', work')
    BY <1>5, <1>10, <2>1, <2>2, PoolStays
  <2> QED BY <1>5, <2>3
<1>12. CountHolds(p, m_nrefcount'[p], objects', work')
  <2> DEFINE y == Cardinality(AliveOf(objects, p))
             h == Cardinality(MakingOf(work, p))
  <2>1. IsFiniteSet(AliveOf(objects, p)) /\ IsFiniteSet(MakingOf(work, p)) /\ m_nrefcount[p] = y + h
    BY DEF AsideInv, CountHolds
  <2>2. y \in Nat /\ h \in Nat
    BY <2>1, FS_CardinalityType
  <2>3. IsFiniteSet(MakingOf(work', p)) /\ Cardinality(MakingOf(work', p)) = h + 1
    BY <1>9, <1>10, <2>1, FS_AddElement
  <2>4. m_nrefcount'[p] = m_nrefcount[p] + 1
    BY <1>1, <1>5 DEF AsideTypes
  <2> HIDE DEF y, h
  <2>5. m_nrefcount'[p] = y + (h + 1)
    BY <2>1, <2>2, <2>4
  <2> QED BY <1>5, <2>1, <2>3, <2>5 DEF CountHolds, y
<1> QED BY <1>5, <1>6, <1>7, <1>8, <1>11, <1>12, SizeStays, StepKeeps

LEMMA LockKeeps ==
    ASSUME AsideInv, NEW t \in Makers, AILOCKT(t)
    PROVE  AsideInv'
<1> DEFINE p == work[t].pool
           s == IF m_freePool[p] = <<>> THEN "add" ELSE "take"
<1>1. work[t].at = "new"
  BY DEF AILOCKT
<1>2. p \in Allocators /\ p # Nobody /\ AsideTypes
  BY <1>1, AtPool
<1>3. /\ lock[p] = Nobody /\ lock' = [lock EXCEPT ![p] = t] /\ Goes(t, s)
      /\ UNCHANGED <<m_freePool, mPools, gLookasideAllocSize, m_nrefcount, objects>>
  BY DEF AILOCKT, Lock
<1>4. s \in WorkSteps /\ s \in {"add", "take"}
  BY DEF WorkSteps, LockedSteps
<1>5. s = "add" <=> m_freePool[p] = <<>>
  OBVIOUS
<1> HIDE DEF s
<1>6. /\ work' \in [Makers -> WorkRecord] /\ OnlyOf(work, work', t)
      /\ work'[t].at = s /\ work'[t].pool = p
  BY <1>2, <1>3, <1>4, GoesOn
<1> HIDE DEF p
<1>7. lock' \in [Allocators -> Makers \cup {Nobody}] /\ lock'[p] = t
      /\ \A q \in Allocators : q # p => lock'[q] = lock[q]
  BY <1>2, <1>3 DEF AsideTypes
<1>8. StepIn(t, p)
  BY <1>3, <1>6, <1>7 DEF StepIn, p
<1>9. AsideTypes'
  BY <1>2, <1>3, <1>6, <1>7 DEF AsideTypes
<1>10. ThreadRight(t)'
  <2>1. s \notin {"idle", "add2", "take2"} /\ (s \in {"add", "add2"} <=> s = "add")
        /\ (s \in {"take", "take2"} <=> s # "add")
    BY <1>4
  <2> QED BY <1>2, <1>3, <1>5, <1>6, <1>7, <2>1 DEF ThreadRight
<1>11. HandsOf(work', p) = HandsOf(work, p) /\ MakingOf(work', p) = MakingOf(work, p)
       /\ t \notin HandsOf(work, p)
  <2>1. s \notin HoldSteps /\ s \notin {"delete", "give"}
    BY <1>4 DEF HoldSteps
  <2>2. HandsOf(work', p) = HandsOf(work, p) \ {t} /\ MakingOf(work', p) = MakingOf(work, p) \cup {t}
    BY <1>2, <1>6, <2>1, HandsMove
  <2>3. t \notin HandsOf(work, p) /\ t \in MakingOf(work, p)
    BY <1>1 DEF HandsOf, MakingOf, HoldSteps, p
  <2> QED BY <2>2, <2>3
<1>12. /\ PoolHolds(p, m_freePool'[p], mPools'[p], objects', work')
       /\ CountHolds(p, m_nrefcount'[p], objects', work')
  BY <1>2, <1>3, <1>6, <1>11, NothingMoves
<1> QED BY <1>2, <1>3, <1>8, <1>9, <1>10, <1>12, SizeStays, StepKeeps

LEMMA ReadSizeKeeps ==
    ASSUME AsideInv, NEW t \in Makers, ReadSize(t)
    PROVE  AsideInv'
<1> DEFINE p == work[t].pool
           x == [work[t] EXCEPT !.at = "add2", !.read = gLookasideAllocSize]
<1>1. work[t].at = "add" /\ work' = [work EXCEPT ![t] = x]
      /\ UNCHANGED <<m_freePool, mPools, gLookasideAllocSize, m_nrefcount, lock, objects>>
  BY DEF ReadSize
<1>2. p \in Allocators /\ p # Nobody /\ AsideTypes /\ work[t] \in WorkRecord /\ ThreadRight(t)
  BY <1>1, AtPool
<1>3. x \in WorkRecord /\ x.at = "add2" /\ x.pool = p /\ x.read = gLookasideAllocSize /\ x.node = work[t].node
  BY <1>2 DEF WorkRecord, WorkSteps, LockedSteps, AsideTypes
<1> HIDE DEF x
<1>4. work' \in [Makers -> WorkRecord] /\ OnlyOf(work, work', t) /\ work'[t] = x
  BY <1>1, <1>2, <1>3, WorkSet
<1>5. lock[p] = t /\ m_freePool[p] = <<>>
  BY <1>1, <1>2 DEF ThreadRight, LockedSteps
<1>6. StepIn(t, p)
  BY <1>1, <1>3, <1>4 DEF StepIn
<1>7. AsideTypes'
  BY <1>1, <1>2, <1>4 DEF AsideTypes
<1>8. AllBlocks' = AllBlocks /\ gLookasideAllocSize <= Cardinality(AllBlocks)
  BY <1>1, SizeStays DEF AsideInv, SizeRight
<1> HIDE DEF p
<1>9. ThreadRight(t)'
  BY <1>1, <1>2, <1>3, <1>4, <1>5, <1>8 DEF ThreadRight
<1>10. HandsOf(work', p) = HandsOf(work, p) /\ MakingOf(work', p) = MakingOf(work, p)
       /\ t \notin HandsOf(work, p)
  <2>1. x.at \notin HoldSteps /\ x.at \notin {"delete", "give"}
    BY <1>3 DEF HoldSteps
  <2>2. HandsOf(work', p) = HandsOf(work, p) \ {t} /\ MakingOf(work', p) = MakingOf(work, p) \cup {t}
    BY <1>2, <1>3, <1>4, <2>1, HandsMove
  <2>3. t \notin HandsOf(work, p) /\ t \in MakingOf(work, p)
    BY <1>1 DEF HandsOf, MakingOf, HoldSteps, p
  <2> QED BY <2>2, <2>3
<1>11. /\ PoolHolds(p, m_freePool'[p], mPools'[p], objects', work')
       /\ CountHolds(p, m_nrefcount'[p], objects', work')
  BY <1>1, <1>2, <1>4, <1>10, NothingMoves
<1> QED BY <1>1, <1>2, <1>6, <1>7, <1>9, <1>11, SizeStays, StepKeeps

LEMMA AddBlockKeeps ==
    ASSUME AsideInv, NEW t \in Makers, addPoolBlock(t)
    PROVE  AsideInv'
<1> DEFINE p == work[t].pool
           k == mPools[p]
           c == Cardinality(AllBlocks)
           r == work[t].read
<1>1. /\ work[t].at = "add2" /\ gLookasideAllocSize' = r + 1 /\ mPools' = [mPools EXCEPT ![p] = @ + 1]
      /\ m_freePool' = [m_freePool EXCEPT ![p] = NodesOf(p, k + 1)] /\ Goes(t, "take")
      /\ UNCHANGED <<m_nrefcount, lock, objects>>
  BY DEF addPoolBlock
<1>2. p \in Allocators /\ p # Nobody /\ AsideTypes /\ work[t] \in WorkRecord /\ ThreadRight(t)
  BY <1>1, AtPool
<1>3. lock[p] = t /\ m_freePool[p] = <<>> /\ r <= c /\ r \in Nat /\ k \in Nat
  BY <1>1, <1>2 DEF ThreadRight, LockedSteps, WorkRecord, AsideTypes
<1>4. /\ work' \in [Makers -> WorkRecord] /\ OnlyOf(work, work', t)
      /\ work'[t].at = "take" /\ work'[t].pool = p
  <2>1. "take" \in WorkSteps
    BY DEF WorkSteps, LockedSteps
  <2> QED BY <1>1, <1>2, <2>1, GoesOn
<1>5. /\ PoolHolds(p, NodesOf(p, k + 1), k + 1, objects, work)
      /\ NodesOf(p, k + 1) \in Seq(Node) /\ NodesOf(p, k + 1) # <<>>
  <2>1. PoolHolds(p, <<>>, k, objects, work)
    BY <1>2, <1>3 DEF AsideInv
  <2> QED BY <1>2, <1>3, <2>1, PoolGrows
<1>6. c \in Nat /\ IsFiniteSet(AllBlocks)
  BY FS_CardinalityType DEF AsideInv, SizeRight
<1>7. IsFiniteSet(AllBlocks)' /\ Cardinality(AllBlocks)' = c + 1
  <2>1. /\ mPools'[p] = k + 1 /\ \A q \in Allocators : q # p => mPools'[q] = mPools[q]
        /\ \A q \in Allocators : mPools[q] \in Nat
    BY <1>1, <1>2 DEF AsideTypes
  <2>2. 1..k + 1 = (1..k) \cup {k + 1} /\ k + 1 \notin 1..k
    BY <1>3
  <2> HIDE DEF k
  <2>3. <<p, k + 1>> \notin AllBlocks
    <3>1. ASSUME NEW q \in Allocators, NEW j \in 1..mPools[q], <<p, k + 1>> = <<q, j>> PROVE FALSE
      BY <2>2, <3>1 DEF k
    <3> QED BY <3>1 DEF AllBlocks
  <2>4. ASSUME NEW y \in AllBlocks PROVE y \in AllBlocks'
    <3>1. PICK q \in Allocators : y \in {<<q, j>> : j \in 1..mPools[q]}
      BY <2>4 DEF AllBlocks
    <3>2. PICK j \in 1..mPools[q] : y = <<q, j>>
      BY <3>1
    <3>3. j \in 1..mPools'[q]
      BY <2>1, <2>2, <3>2 DEF k
    <3> QED BY <3>2, <3>3 DEF AllBlocks
  <2>5. ASSUME NEW y \in AllBlocks' PROVE y \in AllBlocks \/ y = <<p, k + 1>>
    <3>1. PICK q \in Allocators : y \in {<<q, j>> : j \in 1..mPools'[q]}
      BY <2>5 DEF AllBlocks
    <3>2. PICK j \in 1..mPools'[q] : y = <<q, j>>
      BY <3>1
    <3>3. j \in 1..mPools[q] \/ (q = p /\ j = k + 1)
      BY <2>1, <2>2, <3>2 DEF k
    <3> QED BY <3>2, <3>3 DEF AllBlocks
  <2>6. <<p, k + 1>> \in AllBlocks'
    <3>1. k + 1 \in 1..mPools'[p]
      BY <2>1, <2>2
    <3> QED BY <1>2, <3>1 DEF AllBlocks
  <2>7. AllBlocks' = AllBlocks \cup {<<p, k + 1>>}
    BY <2>4, <2>5, <2>6
  <2> QED BY <1>6, <2>3, <2>7, FS_AddElement
<1>8. r + 1 <= c + 1 /\ r + 1 \in Nat /\ c <= c + 1 /\ k + 1 \in Nat
  <2> HIDE DEF r, c, k
  <2> QED BY <1>3, <1>6
<1>9. SizeRight'
  BY <1>1, <1>7, <1>8 DEF SizeRight
<1>10. m_freePool'[p] = NodesOf(p, k + 1) /\ mPools'[p] = k + 1
  BY <1>1, <1>2 DEF AsideTypes
<1>11. AsideTypes'
  <2>1. m_freePool' \in [Allocators -> Seq(Node)]
    BY <1>1, <1>2, <1>5 DEF AsideTypes
  <2>2. mPools' \in [Allocators -> Nat]
    <3> HIDE DEF p
    <3> QED BY <1>1, <1>2 DEF AsideTypes
  <2>3. gLookasideAllocSize' \in Nat
    BY <1>1, <1>8
  <2> QED BY <1>1, <1>2, <1>4, <2>1, <2>2, <2>3 DEF AsideTypes
<1>12. StepIn(t, p)
  BY <1>1, <1>2, <1>3, <1>4 DEF StepIn, AsideTypes
<1> HIDE DEF p, k, c, r
<1>13. ThreadRight(t)'
  BY <1>1, <1>2, <1>3, <1>4, <1>5, <1>10 DEF ThreadRight
<1>14. HandsOf(work', p) = HandsOf(work, p) /\ MakingOf(work', p) = MakingOf(work, p)
       /\ t \notin HandsOf(work, p)
  <2>1. HandsOf(work', p) = HandsOf(work, p) \ {t} /\ MakingOf(work', p) = MakingOf(work, p) \cup {t}
    BY <1>2, <1>4, HandsMove DEF HoldSteps
  <2>2. t \notin HandsOf(work, p) /\ t \in MakingOf(work, p)
    BY <1>1 DEF HandsOf, MakingOf, HoldSteps, p
  <2> QED BY <2>1, <2>2
<1>15. PoolHolds(p, m_freePool'[p], mPools'[p], objects', work')
  <2>1. \A u \in HandsOf(work, p) : work'[u].node = work[u].node
    BY <1>4, <1>14 DEF OnlyOf, HandsOf
  <2>2. PoolHolds(p, NodesOf(p, k + 1), k + 1, objects', work')
    BY <1>1, <1>5, <1>14, <2>1, PoolStays
  <2> QED BY <1>10, <2>2
<1>16. CountHolds(p, m_nrefcount'[p], objects', work')
  <2>1. CountHolds(p, m_nrefcount[p], objects, work)
    BY <1>2 DEF AsideInv
  <2> QED BY <1>1, <1>14, <2>1, CountStays
<1>17. Cardinality(AllBlocks) <= Cardinality(AllBlocks)'
  BY <1>7, <1>8 DEF c
<1> QED BY <1>2, <1>9, <1>11, <1>12, <1>13, <1>15, <1>16, <1>17, StepKeeps

LEMMA FirstKeeps ==
    ASSUME AsideInv, NEW t \in Makers, FirstNode(t)
    PROVE  AsideInv'
<1> DEFINE p == work[t].pool
           n == Head(m_freePool[p])
           x == [work[t] EXCEPT !.at = "take2", !.node = n]
<1>1. /\ work[t].at = "take" /\ work' = [work EXCEPT ![t] = x] /\ m_freePool[p] # <<>>
      /\ UNCHANGED <<m_freePool, mPools, gLookasideAllocSize, m_nrefcount, lock, objects>>
  BY DEF FirstNode
<1>2. p \in Allocators /\ p # Nobody /\ AsideTypes /\ work[t] \in WorkRecord /\ ThreadRight(t)
  BY <1>1, AtPool
<1>3. n \in Node
  <2>1. m_freePool[p] \in Seq(Node)
    BY <1>2 DEF AsideTypes
  <2> HIDE DEF p
  <2> QED BY <1>1, <2>1
<1> HIDE DEF n
<1>4. x \in WorkRecord /\ x.at = "take2" /\ x.pool = p /\ x.node = n
  BY <1>2, <1>3 DEF WorkRecord, WorkSteps, LockedSteps
<1> HIDE DEF x
<1>5. work' \in [Makers -> WorkRecord] /\ OnlyOf(work, work', t) /\ work'[t] = x
  BY <1>1, <1>2, <1>4, WorkSet
<1>6. lock[p] = t
  BY <1>1, <1>2 DEF ThreadRight, LockedSteps
<1>7. StepIn(t, p)
  BY <1>1, <1>4, <1>5 DEF StepIn
<1>8. AsideTypes'
  BY <1>1, <1>2, <1>5 DEF AsideTypes
<1> HIDE DEF p
<1>9. ThreadRight(t)'
  BY <1>1, <1>2, <1>4, <1>5, <1>6 DEF ThreadRight, n
<1>10. HandsOf(work', p) = HandsOf(work, p) /\ MakingOf(work', p) = MakingOf(work, p)
       /\ t \notin HandsOf(work, p)
  <2>1. x.at \notin HoldSteps /\ x.at \notin {"delete", "give"}
    BY <1>4 DEF HoldSteps
  <2>2. HandsOf(work', p) = HandsOf(work, p) \ {t} /\ MakingOf(work', p) = MakingOf(work, p) \cup {t}
    BY <1>2, <1>4, <1>5, <2>1, HandsMove
  <2>3. t \notin HandsOf(work, p) /\ t \in MakingOf(work, p)
    BY <1>1 DEF HandsOf, MakingOf, HoldSteps, p
  <2> QED BY <2>2, <2>3
<1>11. /\ PoolHolds(p, m_freePool'[p], mPools'[p], objects', work')
       /\ CountHolds(p, m_nrefcount'[p], objects', work')
  BY <1>1, <1>2, <1>5, <1>10, NothingMoves
<1> QED BY <1>1, <1>2, <1>7, <1>8, <1>9, <1>11, SizeStays, StepKeeps

LEMMA TakeKeeps ==
    ASSUME AsideInv, NEW t \in Makers, allocateNode(t)
    PROVE  AsideInv'
<1> DEFINE p == work[t].pool
           list == m_freePool[p]
<1>1. /\ work[t].at = "take2" /\ Goes(t, "construct")
      /\ m_freePool' = [m_freePool EXCEPT ![p] = IF @ = <<>> THEN <<>> ELSE Tail(@)]
      /\ lock' = [lock EXCEPT ![p] = Nobody]
      /\ UNCHANGED <<mPools, gLookasideAllocSize, m_nrefcount, objects>>
  BY DEF allocateNode, Unlock
<1>2. p \in Allocators /\ p # Nobody /\ AsideTypes /\ work[t] \in WorkRecord /\ ThreadRight(t)
  BY <1>1, AtPool
<1>3. lock[p] = t /\ list # <<>> /\ list \in Seq(Node) /\ work[t].node = Head(list)
  BY <1>1, <1>2 DEF ThreadRight, LockedSteps, AsideTypes
<1>4. /\ work' \in [Makers -> WorkRecord] /\ OnlyOf(work, work', t)
      /\ work'[t].at = "construct" /\ work'[t].pool = p /\ work'[t].node = Head(list)
  <2>1. "construct" \in WorkSteps
    BY DEF WorkSteps, HoldSteps
  <2> QED BY <1>1, <1>2, <1>3, <2>1, GoesOn
<1>5. t \notin HandsOf(work, p) /\ t \in MakingOf(work, p)
  BY <1>1 DEF HandsOf, MakingOf, HoldSteps
<1>6. HandsOf(work', p) = HandsOf(work, p) \cup {t} /\ MakingOf(work', p) = MakingOf(work, p)
  <2>1. HandsOf(work', p) = HandsOf(work, p) \cup {t} /\ MakingOf(work', p) = MakingOf(work, p) \cup {t}
    BY <1>2, <1>4, HandsMove DEF HoldSteps
  <2> QED BY <1>5, <2>1
<1>7. Tail(list) \in Seq(Node) /\ PoolHolds(p, Tail(list), mPools[p], objects, work')
  <2>1. PoolHolds(p, list, mPools[p], objects, work)
    BY <1>2 DEF AsideInv
  <2> HIDE DEF list
  <2> QED BY <1>3, <1>4, <1>5, <1>6, <2>1, PoolTakes
<1>8. /\ m_freePool'[p] = Tail(list) /\ m_freePool' \in [Allocators -> Seq(Node)]
      /\ \A q \in Allocators : q # p => m_freePool'[q] = m_freePool[q]
  BY <1>1, <1>2, <1>3, <1>7 DEF AsideTypes
<1>9. /\ lock' \in [Allocators -> Makers \cup {Nobody}]
      /\ \A q \in Allocators : q # p => lock'[q] = lock[q]
  BY <1>1, <1>2 DEF AsideTypes
<1>10. StepIn(t, p)
  BY <1>1, <1>3, <1>4, <1>8, <1>9 DEF StepIn
<1>11. AsideTypes'
  BY <1>1, <1>2, <1>4, <1>8, <1>9 DEF AsideTypes
<1>12. ThreadRight(t)'
  BY <1>2, <1>4 DEF ThreadRight, LockedSteps
<1>13. PoolHolds(p, m_freePool'[p], mPools'[p], objects', work')
  BY <1>1, <1>7, <1>8
<1>14. CountHolds(p, m_nrefcount'[p], objects', work')
  <2>1. CountHolds(p, m_nrefcount[p], objects, work)
    BY <1>2 DEF AsideInv
  <2> QED BY <1>1, <1>6, <2>1, CountStays
<1> QED BY <1>1, <1>2, <1>10, <1>11, <1>12, <1>13, <1>14, SizeStays, StepKeeps

LEMMA ConstructKeeps ==
    ASSUME AsideInv, NEW t \in Makers, constructInPlace(t)
    PROVE  AsideInv'
<1> DEFINE p == work[t].pool
           n == work[t].node
<1>1. /\ work[t].at = "construct" /\ work' = [work EXCEPT ![t] = NoWork] /\ objects' = objects \cup {n}
      /\ UNCHANGED <<m_freePool, mPools, gLookasideAllocSize, m_nrefcount, lock>>
  BY DEF constructInPlace
<1>2. p \in Allocators /\ p # Nobody /\ AsideTypes /\ work[t] \in WorkRecord /\ ThreadRight(t)
  BY <1>1, AtPool
<1>3. NoWork \in WorkRecord /\ NoWork.at = "idle" /\ NoWork.pool = Nobody
  BY DEF NoWork, WorkRecord, WorkSteps
<1>4. work' \in [Makers -> WorkRecord] /\ OnlyOf(work, work', t) /\ work'[t] = NoWork
  BY <1>1, <1>2, <1>3, WorkSet
<1>5. t \in HandsOf(work, p) /\ t \in MakingOf(work, p)
  BY <1>1 DEF HandsOf, MakingOf, HoldSteps
<1>6. HandsOf(work', p) = HandsOf(work, p) \ {t} /\ MakingOf(work', p) = MakingOf(work, p) \ {t}
  BY <1>2, <1>3, <1>4, HandsMove
<1>7. PoolHolds(p, m_freePool[p], mPools[p], objects, work) /\ m_freePool[p] \in Seq(Node)
  BY <1>2 DEF AsideInv, AsideTypes
<1>8. PoolHolds(p, m_freePool[p], mPools[p], objects \cup {n}, work')
  BY <1>4, <1>5, <1>6, <1>7, PoolConstructs
<1>9. n \notin AliveOf(objects, p) /\ InPool(n, p, mPools[p])
  BY <1>5, <1>7 DEF PoolHolds
<1>10. AliveOf(objects', p) = AliveOf(objects, p) \cup {n}
       /\ \A q \in Allocators : q # p => AliveOf(objects', q) = AliveOf(objects, q)
  BY <1>1, <1>9 DEF AliveOf, InPool
<1>11. CountHolds(p, m_nrefcount'[p], objects', work')
  <2> DEFINE y == Cardinality(AliveOf(objects, p))
             h == Cardinality(MakingOf(work, p))
  <2>1. IsFiniteSet(AliveOf(objects, p)) /\ IsFiniteSet(MakingOf(work, p)) /\ m_nrefcount[p] = y + h
    BY <1>2 DEF AsideInv, CountHolds
  <2>2. y \in Nat /\ h \in Nat
    BY <2>1, FS_CardinalityType
  <2>3. IsFiniteSet(AliveOf(objects', p)) /\ Cardinality(AliveOf(objects', p)) = y + 1
    <3>1. IsFiniteSet(AliveOf(objects, p) \cup {n}) /\ Cardinality(AliveOf(objects, p) \cup {n}) = y + 1
      BY <1>9, <2>1, FS_AddElement
    <3> QED BY <1>10, <3>1
  <2>4. IsFiniteSet(MakingOf(work', p)) /\ Cardinality(MakingOf(work', p)) = h - 1
    BY <1>5, <1>6, <2>1, FS_RemoveElement
  <2> HIDE DEF y, h
  <2>5. m_nrefcount[p] = (y + 1) + (h - 1)
    BY <2>1, <2>2
  <2> QED BY <1>1, <2>3, <2>4, <2>5 DEF CountHolds
<1>12. StepIn(t, p)
  BY <1>1, <1>3, <1>4, <1>10 DEF StepIn
<1>13. AsideTypes'
  BY <1>1, <1>2, <1>4, <1>9 DEF AsideTypes, InPool
<1>14. ThreadRight(t)'
  BY <1>3, <1>4 DEF ThreadRight, LockedSteps
<1> QED BY <1>1, <1>2, <1>8, <1>11, <1>12, <1>13, <1>14, SizeStays, StepKeeps

LEMMA DestroyKeeps ==
    ASSUME AsideInv, NEW t \in Makers, NEW n \in objects, destroy(t, n)
    PROVE  AsideInv'
<1> DEFINE p == n[1]
           x == [NoWork EXCEPT !.at = "destroyed", !.pool = p, !.node = n]
<1>1. /\ work[t].at = "idle" /\ work' = [work EXCEPT ![t] = x] /\ objects' = objects \ {n}
      /\ UNCHANGED <<m_freePool, mPools, gLookasideAllocSize, m_nrefcount, lock>>
  BY DEF destroy
<1>2. AsideTypes /\ n \in Node /\ work[t].pool = Nobody
  BY <1>1 DEF AsideInv, AsideTypes, ThreadRight
<1>3. p \in Allocators /\ p # Nobody
  BY <1>2, AsideConstants DEF Node
<1> HIDE DEF p
<1>4. x \in WorkRecord /\ x.at = "destroyed" /\ x.pool = p /\ x.node = n
  BY <1>2, <1>3 DEF NoWork, WorkRecord, WorkSteps, HoldSteps
<1> HIDE DEF x
<1>5. work' \in [Makers -> WorkRecord] /\ OnlyOf(work, work', t) /\ work'[t] = x
  BY <1>1, <1>2, <1>4, WorkSet
<1>6. t \notin HandsOf(work, p) /\ t \notin MakingOf(work, p)
  BY <1>2, <1>3 DEF HandsOf, MakingOf
<1>7. HandsOf(work', p) = HandsOf(work, p) \cup {t} /\ MakingOf(work', p) = MakingOf(work, p) \cup {t}
  <2>1. x.at \in HoldSteps /\ x.at \notin {"delete", "give"}
    BY <1>4 DEF HoldSteps
  <2> QED BY <1>3, <1>4, <1>5, <2>1, HandsMove
<1>8. n \in AliveOf(objects, p)
  BY DEF AliveOf, p
<1>9. AliveOf(objects', p) = AliveOf(objects, p) \ {n}
      /\ \A q \in Allocators : q # p => AliveOf(objects', q) = AliveOf(objects, q)
  BY <1>1 DEF AliveOf, p
<1>10. PoolHolds(p, m_freePool[p], mPools[p], objects \ {n}, work')
  <2>1. PoolHolds(p, m_freePool[p], mPools[p], objects, work) /\ m_freePool[p] \in Seq(Node)
    BY <1>2, <1>3 DEF AsideInv, AsideTypes
  <2> QED BY <1>4, <1>5, <1>6, <1>7, <1>8, <2>1, PoolDestroys
<1>11. CountHolds(p, m_nrefcount'[p], objects', work')
  <2> DEFINE y == Cardinality(AliveOf(objects, p))
             h == Cardinality(MakingOf(work, p))
  <2>1. IsFiniteSet(AliveOf(objects, p)) /\ IsFiniteSet(MakingOf(work, p)) /\ m_nrefcount[p] = y + h
    BY <1>3 DEF AsideInv, CountHolds
  <2>2. y \in Nat /\ h \in Nat
    BY <2>1, FS_CardinalityType
  <2>3. IsFiniteSet(AliveOf(objects', p)) /\ Cardinality(AliveOf(objects', p)) = y - 1
    BY <1>8, <1>9, <2>1, FS_RemoveElement
  <2>4. IsFiniteSet(MakingOf(work', p)) /\ Cardinality(MakingOf(work', p)) = h + 1
    BY <1>6, <1>7, <2>1, FS_AddElement
  <2> HIDE DEF y, h
  <2>5. m_nrefcount[p] = (y - 1) + (h + 1)
    BY <2>1, <2>2
  <2> QED BY <1>1, <2>3, <2>4, <2>5 DEF CountHolds
<1>12. StepIn(t, p)
  BY <1>1, <1>2, <1>4, <1>5, <1>9 DEF StepIn
<1>13. AsideTypes'
  BY <1>1, <1>2, <1>5 DEF AsideTypes
<1>14. ThreadRight(t)'
  BY <1>3, <1>4, <1>5 DEF ThreadRight, LockedSteps
<1> QED BY <1>1, <1>3, <1>10, <1>11, <1>12, <1>13, <1>14, SizeStays, StepKeeps

LEMMA CountOffKeeps ==
    ASSUME AsideInv, NEW t \in Makers, InterlockedDecrement(t)
    PROVE  AsideInv'
<1> DEFINE p == work[t].pool
<1>1. /\ work[t].at = "destroyed" /\ Goes(t, "delete")
      /\ m_nrefcount' = [m_nrefcount EXCEPT ![p] = @ - 1]
      /\ UNCHANGED <<m_freePool, mPools, gLookasideAllocSize, lock, objects>>
  BY DEF InterlockedDecrement
<1>2. p \in Allocators /\ p # Nobody /\ AsideTypes /\ work[t] \in WorkRecord /\ ThreadRight(t)
  BY <1>1, AtPool
<1>3. /\ work' \in [Makers -> WorkRecord] /\ OnlyOf(work, work', t)
      /\ work'[t].at = "delete" /\ work'[t].pool = p /\ work'[t].node = work[t].node
  <2>1. "delete" \in WorkSteps
    BY DEF WorkSteps, HoldSteps
  <2> QED BY <1>1, <1>2, <2>1, GoesOn
<1>4. t \in HandsOf(work, p) /\ t \in MakingOf(work, p)
  BY <1>1 DEF HandsOf, MakingOf, HoldSteps
<1>5. HandsOf(work', p) = HandsOf(work, p) /\ MakingOf(work', p) = MakingOf(work, p) \ {t}
  <2>1. HandsOf(work', p) = HandsOf(work, p) \cup {t} /\ MakingOf(work', p) = MakingOf(work, p) \ {t}
    BY <1>2, <1>3, HandsMove DEF HoldSteps
  <2> QED BY <1>4, <2>1
<1>6. PoolHolds(p, m_freePool'[p], mPools'[p], objects', work')
  <2>1. \A u \in HandsOf(work, p) : work'[u].node = work[u].node
    BY <1>3 DEF OnlyOf, HandsOf
  <2>2. PoolHolds(p, m_freePool[p], mPools[p], objects, work)
    BY <1>2 DEF AsideInv
  <2>3. PoolHolds(p, m_freePool[p], mPools[p], objects', work')
    BY <1>1, <1>5, <2>1, <2>2, PoolStays
  <2> QED BY <1>1, <2>3
<1>7. CountHolds(p, m_nrefcount'[p], objects', work')
  <2> DEFINE y == Cardinality(AliveOf(objects, p))
             h == Cardinality(MakingOf(work, p))
  <2>1. IsFiniteSet(AliveOf(objects, p)) /\ IsFiniteSet(MakingOf(work, p)) /\ m_nrefcount[p] = y + h
    BY <1>2 DEF AsideInv, CountHolds
  <2>2. y \in Nat /\ h \in Nat
    BY <2>1, FS_CardinalityType
  <2>3. IsFiniteSet(MakingOf(work', p)) /\ Cardinality(MakingOf(work', p)) = h - 1
    BY <1>4, <1>5, <2>1, FS_RemoveElement
  <2>4. m_nrefcount'[p] = m_nrefcount[p] - 1
    <3> HIDE DEF p
    <3> QED BY <1>1, <1>2 DEF AsideTypes
  <2> HIDE DEF y, h
  <2>5. m_nrefcount'[p] = y + (h - 1)
    BY <2>1, <2>2, <2>4
  <2> QED BY <1>1, <2>1, <2>3, <2>5 DEF CountHolds, y
<1>8. m_nrefcount' \in [Allocators -> Int]
      /\ \A q \in Allocators : q # p => m_nrefcount'[q] = m_nrefcount[q]
  <2> HIDE DEF p
  <2> QED BY <1>1, <1>2 DEF AsideTypes
<1>9. StepIn(t, p)
  BY <1>1, <1>3, <1>8 DEF StepIn
<1>10. AsideTypes'
  BY <1>1, <1>2, <1>3, <1>8 DEF AsideTypes
<1>11. ThreadRight(t)'
  BY <1>2, <1>3 DEF ThreadRight, LockedSteps
<1> QED BY <1>1, <1>2, <1>6, <1>7, <1>9, <1>10, <1>11, SizeStays, StepKeeps

LEMMA FreeKeeps ==
    ASSUME AsideInv, NEW t \in Makers, freemem(t)
    PROVE  AsideInv'
<1> DEFINE p == work[t].pool
<1>1. work[t].at \in {"delete", "give"} /\ UNCHANGED <<mPools, gLookasideAllocSize, m_nrefcount, objects>>
  BY DEF freemem
<1>2. p \in Allocators /\ p # Nobody /\ AsideTypes /\ work[t] \in WorkRecord /\ ThreadRight(t)
  BY <1>1, AtPool
<1>3. t \in HandsOf(work, p) /\ t \notin MakingOf(work, p)
  BY <1>1 DEF HandsOf, MakingOf, HoldSteps
<1>4. PoolHolds(p, m_freePool[p], mPools[p], objects, work) /\ m_freePool[p] \in Seq(Node)
      /\ CountHolds(p, m_nrefcount[p], objects, work)
  BY <1>2 DEF AsideInv, AsideTypes
<1>5. CASE work[t].at = "delete"
  <2>1. Goes(t, "give") /\ lock[p] = Nobody /\ lock' = [lock EXCEPT ![p] = t] /\ UNCHANGED m_freePool
    BY <1>5 DEF freemem, Lock
  <2>2. /\ work' \in [Makers -> WorkRecord] /\ OnlyOf(work, work', t)
        /\ work'[t].at = "give" /\ work'[t].pool = p /\ work'[t].node = work[t].node
    <3>1. "give" \in WorkSteps
      BY DEF WorkSteps, HoldSteps
    <3> QED BY <1>2, <2>1, <3>1, GoesOn
  <2>3. HandsOf(work', p) = HandsOf(work, p) /\ MakingOf(work', p) = MakingOf(work, p)
    <3>1. HandsOf(work', p) = HandsOf(work, p) \cup {t} /\ MakingOf(work', p) = MakingOf(work, p) \ {t}
      BY <1>2, <2>2, HandsMove DEF HoldSteps
    <3> QED BY <1>3, <3>1
  <2>4. lock' \in [Allocators -> Makers \cup {Nobody}] /\ lock'[p] = t
        /\ \A q \in Allocators : q # p => lock'[q] = lock[q]
    BY <1>2, <2>1 DEF AsideTypes
  <2>5. /\ PoolHolds(p, m_freePool'[p], mPools'[p], objects', work')
        /\ CountHolds(p, m_nrefcount'[p], objects', work')
    BY <1>1, <1>2, <2>1, <2>2, <2>3, NothingMoves
  <2>6. StepIn(t, p)
    BY <1>1, <2>1, <2>2, <2>4 DEF StepIn
  <2>7. AsideTypes'
    BY <1>1, <1>2, <2>1, <2>2, <2>4 DEF AsideTypes
  <2>8. ThreadRight(t)'
    BY <1>2, <2>2, <2>4 DEF ThreadRight
  <2> QED BY <1>1, <1>2, <2>5, <2>6, <2>7, <2>8, SizeStays, StepKeeps
<1>6. CASE work[t].at = "give"
  <2> DEFINE s == <<work[t].node>> \o m_freePool[p]
  <2>1. /\ lock' = [lock EXCEPT ![p] = Nobody] /\ work' = [work EXCEPT ![t] = NoWork]
        /\ m_freePool' = [m_freePool EXCEPT ![p] = s]
    BY <1>6 DEF freemem, Unlock
  <2>2. NoWork \in WorkRecord /\ NoWork.at = "idle" /\ NoWork.pool = Nobody
    BY DEF NoWork, WorkRecord, WorkSteps
  <2>3. work' \in [Makers -> WorkRecord] /\ OnlyOf(work, work', t) /\ work'[t] = NoWork
    BY <1>2, <2>1, <2>2, WorkSet
  <2>4. HandsOf(work', p) = HandsOf(work, p) \ {t} /\ MakingOf(work', p) = MakingOf(work, p)
    <3>1. HandsOf(work', p) = HandsOf(work, p) \ {t} /\ MakingOf(work', p) = MakingOf(work, p) \ {t}
      BY <1>2, <2>2, <2>3, HandsMove
    <3> QED BY <1>3, <3>1
  <2>5. s \in Seq(Node) /\ PoolHolds(p, s, mPools[p], objects, work')
    BY <1>3, <1>4, <2>3, <2>4, PoolGets
  <2> HIDE DEF s
  <2>6. /\ m_freePool'[p] = s /\ m_freePool' \in [Allocators -> Seq(Node)]
        /\ \A q \in Allocators : q # p => m_freePool'[q] = m_freePool[q]
    BY <1>2, <2>1, <2>5 DEF AsideTypes
  <2>7. /\ lock' \in [Allocators -> Makers \cup {Nobody}] /\ lock[p] = t
        /\ \A q \in Allocators : q # p => lock'[q] = lock[q]
    BY <1>2, <1>6, <2>1 DEF AsideTypes, ThreadRight, LockedSteps
  <2>8. PoolHolds(p, m_freePool'[p], mPools'[p], objects', work')
    BY <1>1, <2>5, <2>6
  <2>9. CountHolds(p, m_nrefcount'[p], objects', work')
    BY <1>1, <1>4, <2>4, CountStays
  <2>10. StepIn(t, p)
    BY <1>1, <2>2, <2>3, <2>6, <2>7 DEF StepIn
  <2>11. AsideTypes'
    BY <1>1, <1>2, <2>3, <2>6, <2>7 DEF AsideTypes
  <2>12. ThreadRight(t)'
    BY <2>2, <2>3 DEF ThreadRight, LockedSteps
  <2> QED BY <1>1, <1>2, <2>8, <2>9, <2>10, <2>11, <2>12, SizeStays, StepKeeps
<1> QED BY <1>1, <1>5, <1>6

\* Whatever the threads of a program do at once, for any threads, pools and sizes of a block: no
\* two objects of a pool share a node, none is lost, the count of objects is right but for those
\* being made or deleted, and the size of all pools is never too large (safe_lookaside_allocator).
THEOREM AllocatorsShare == SpecAside => []AsideKept
<1>1. InitAside => AsideInv
  <2> SUFFICES ASSUME InitAside PROVE AsideInv
    OBVIOUS
  <2>1. NoWork \in WorkRecord /\ NoWork.at = "idle" /\ NoWork.pool = Nobody
    BY DEF NoWork, WorkRecord, WorkSteps
  <2>2. \A t \in Makers : work[t] = NoWork
    BY DEF InitAside
  <2>3. AsideTypes
    <3>1. \A p \in Allocators : m_freePool[p] = <<>>
      BY DEF InitAside
    <3>2. m_freePool \in [Allocators -> Seq(Node)]
      BY DEF InitAside
    <3> QED BY <2>1, <3>2 DEF AsideTypes, InitAside
  <2>4. AllBlocks = {}
    <3>1. \A p \in Allocators : mPools[p] = 0 /\ 1..0 = {}
      BY DEF InitAside
    <3> QED BY <3>1 DEF AllBlocks
  <2>5. SizeRight
    BY <2>4, FS_EmptySet DEF SizeRight, InitAside
  <2>6. \A t \in Makers : ThreadRight(t)
    BY <2>1, <2>2 DEF ThreadRight, LockedSteps
  <2>7. ASSUME NEW p \in Allocators
        PROVE  AliveOf(objects, p) = {} /\ HandsOf(work, p) = {} /\ MakingOf(work, p) = {}
    BY <2>1, <2>2, AsideConstants DEF InitAside, AliveOf, HandsOf, MakingOf
  <2>8. ASSUME NEW p \in Allocators
        PROVE  /\ PoolHolds(p, m_freePool[p], mPools[p], objects, work)
               /\ CountHolds(p, m_nrefcount[p], objects, work)
    <3>1. m_freePool[p] = <<>> /\ mPools[p] = 0 /\ m_nrefcount[p] = 0 /\ Len(<<>>) = 0 /\ 0 * blockNodeNum = 0
      BY AsideConstants DEF InitAside
    <3>2. IsInjective(<<>>) /\ ToSet(<<>>) = {}
      BY ListEmpty
    <3>3. IsFiniteSet({}) /\ Cardinality({}) = 0 /\ 0 + 0 = 0 /\ 0 + 0 + 0 = 0
      BY FS_EmptySet
    <3>4. CountHolds(p, m_nrefcount[p], objects, work)
      BY <2>7, <3>1, <3>3 DEF CountHolds
    <3>5. PoolHolds(p, m_freePool[p], mPools[p], objects, work)
      BY <2>7, <3>1, <3>2, <3>3, Zenon DEF PoolHolds
    <3> QED BY <3>4, <3>5
  <2> QED BY <2>3, <2>5, <2>6, <2>8 DEF AsideInv
<1>2. AsideInv /\ [NextAside]_asideVars => AsideInv'
  <2> SUFFICES ASSUME AsideInv, [NextAside]_asideVars PROVE AsideInv'
    OBVIOUS
  <2>1. CASE UNCHANGED asideVars
    <3>1. UNCHANGED <<m_freePool, mPools, gLookasideAllocSize, m_nrefcount, lock, work, objects>>
      BY <2>1 DEF asideVars
    <3>2. AsideTypes' /\ SizeRight' /\ AllBlocks' = AllBlocks
      BY <3>1, SizeStays DEF AsideInv, AsideTypes
    <3>3. \A t \in Makers : ThreadRight(t)'
      BY <3>1, <3>2 DEF AsideInv, ThreadRight
    <3>4. \A p \in Allocators : /\ PoolHolds(p, m_freePool[p], mPools[p], objects, work)'
                                /\ CountHolds(p, m_nrefcount[p], objects, work)'
      BY <3>1 DEF AsideInv
    <3> QED BY <3>2, <3>3, <3>4 DEF AsideInv
  <2>2. ASSUME NEW t \in Makers, \E p \in Allocators : InterlockedIncrement(t, p) PROVE AsideInv'
    BY <2>2, CountKeeps
  <2>3. ASSUME NEW t \in Makers, \E n \in objects : destroy(t, n) PROVE AsideInv'
    BY <2>3, DestroyKeeps
  <2> QED BY <2>1, <2>2, <2>3, LockKeeps, ReadSizeKeeps, AddBlockKeeps, FirstKeeps, TakeKeeps,
             ConstructKeeps, CountOffKeeps, FreeKeeps, Zenon DEF NextAside
<1>3. AsideInv => AsideKept
  <2> SUFFICES ASSUME AsideInv PROVE AsideKept
    OBVIOUS
  <2>1. ASSUME NEW p \in Allocators
        PROVE Alive(p) = AliveOf(objects, p) /\ Hands(p) = HandsOf(work, p) /\ Making(p) = MakingOf(work, p)
    BY DEF Alive, AliveOf, Hands, Holds, HandsOf, HoldSteps, Making, MakingOf
  <2>2. NodesApart
    BY <2>1 DEF AsideInv, PoolHolds, NodesApart
  <2>3. CountsTrue
    BY <2>1 DEF AsideInv, CountHolds, SizeRight, CountsTrue
  <2> QED BY <2>2, <2>3 DEF AsideKept
<1> QED BY <1>1, <1>2, <1>3, PTL DEF SpecAside

-----------------------------------------------------------------------------
(* Redis.                                                                   *)

Answers == {"ok", "ERROR", "NULL"}
States == {"NULL", "ok", "stale", "err"}
Clients == [cache : States, sub : States]
OutcomeRecord == [reply : Answers, lost : BOOLEAN, run : BOOLEAN]
ServerRecord == [up : BOOLEAN, stored : Nat, listed : SUBSET Nat, hash : [Fields -> Nat], published : Seq(Nat)]
SubRecord == [pc : {"idle", "wait"}, is_subscribe : BOOLEAN, reply : {"NULL", "freed"}, inbox : Seq(Nat),
              from : Nat, live : BOOLEAN]
CallKinds == Retried \cup Plain \cup {"none"}
OpRecord == [kind : CallKinds, n : Nat, pc : {"idle", "open", "try", "list", "reconnect"},
             second : BOOLEAN, ok : BOOLEAN, lost : BOOLEAN, lostAgain : BOOLEAN,
             refused : BOOLEAN, error : BOOLEAN, runs : Nat]

Connected == {"ok", "stale"}

\* What was published since the subscription is in the application's hands or on the connection.
SubRight(srv, s, rcv) ==
    /\ ~s.is_subscribe => rcv = <<>> /\ s.inbox = <<>> /\ ~s.live
    /\ s.live =>
         /\ s.from + Len(rcv) + Len(s.inbox) = Len(srv.published)
         /\ \A i \in 1..Len(rcv) : rcv[i] = srv.published[s.from + i]
         /\ \A i \in 1..Len(s.inbox) : s.inbox[i] = srv.published[s.from + Len(rcv) + i]

\* A call between its attempts, and the connection it uses.
TryRight(o, c) ==
    /\ o.pc \in {"try", "reconnect"} =>
          /\ ~o.ok /\ ~o.lostAgain
          /\ o.runs <= 1 /\ (o.runs = 1 => o.lost)
    /\ o.pc = "reconnect" => ~o.second
    /\ o.pc \in {"try", "reconnect"} /\ ~o.second => o.runs <= 1
    /\ o.pc = "try" /\ ~o.second => o.runs = 0
    /\ o.pc = "try" /\ o.second /\ ~o.refused => c \in Connected
    /\ o.pc \in {"try", "list", "reconnect"} => o.kind # "none"

\* A call after its last attempt.
SetRight(o, c, srv) ==
    o.pc = "list" => /\ o.kind = "set" /\ o.ok /\ c \in Connected
                     /\ ~o.error => srv.stored = o.n

AnswerRight(o) ==
    o.kind # "none" /\ o.pc \in {"idle", "open", "list"} =>
        /\ o.kind \in Retried /\ ~o.ok => o.lostAgain \/ o.refused \/ o.error
        /\ o.ok => /\ o.runs >= 1 \/ (o.error /\ ~IsFailure(o.kind, "ERROR"))
                   /\ o.runs = 2 => o.second /\ o.lost

EndRight(o, srv, v) ==
    o.kind # "none" /\ o.pc \in {"idle", "open"} =>
        /\ o.kind = "set" /\ o.ok /\ ~o.lost /\ ~o.error => srv.stored = o.n /\ o.n \in srv.listed
        /\ o.kind = "hgetall" /\ o.ok /\ ~o.error =>
              v = IF srv.hash["f"] = 0 THEN <<>>
                  ELSE <<[field |-> "f", value |-> <<srv.hash["f"]>>],
                         [field |-> "g", value |-> <<srv.hash["g"]>>]>>

ServerRight(srv) == srv \in ServerRecord /\ srv.hash["f"] = srv.hash["g"]

RedisInv ==
    /\ ServerRight(server) /\ context \in Clients /\ op \in OpRecord /\ sub \in SubRecord
    /\ received \in Seq(Nat)
    /\ SubRight(server, sub, received)
    /\ TryRight(op, context.cache) /\ SetRight(op, context.cache, server)
    /\ AnswerRight(op) /\ EndRight(op, server, vec)

\* A command that has no answer was lost, unless there was no connection to lose.
LEMMA CmdOutcome ==
    ASSUME context \in Clients, NEW c \in {"cache", "sub"}, NEW r \in RedisCmd(c)
    PROVE  /\ r \in OutcomeRecord
           /\ r.reply = "ok" => r.run /\ ~r.lost /\ context[c] = "ok"
           /\ r.reply = "ERROR" => ~r.run /\ ~r.lost /\ context[c] = "ok"
           /\ r.reply = "NULL" /\ ~r.lost => context[c] \notin Connected /\ ~r.run
<1>1. context[c] \in States
  BY DEF Clients
<1>2. CASE context[c] = "ok"
  <2>1. r \in {Outcome("ok", FALSE, TRUE), Outcome("ERROR", FALSE, FALSE),
               Outcome("NULL", TRUE, FALSE), Outcome("NULL", TRUE, TRUE)}
    BY <1>2 DEF RedisCmd
  <2>2. CASE r = Outcome("ok", FALSE, TRUE)
    BY <1>2, <2>2 DEF Outcome, OutcomeRecord, Answers
  <2>3. CASE r = Outcome("ERROR", FALSE, FALSE)
    BY <1>2, <2>3 DEF Outcome, OutcomeRecord, Answers
  <2>4. ASSUME NEW run \in BOOLEAN, r = Outcome("NULL", TRUE, run) PROVE r \in OutcomeRecord
    BY <2>4 DEF Outcome, OutcomeRecord, Answers
  <2>5. ASSUME NEW run \in BOOLEAN, r = Outcome("NULL", TRUE, run) PROVE r.reply = "NULL" /\ r.lost = TRUE
    BY <2>5 DEF Outcome
  <2> QED BY <2>1, <2>2, <2>3, <2>4, <2>5
<1>3. CASE context[c] = "stale"
  <2>1. r = Outcome("NULL", TRUE, FALSE)
    BY <1>3 DEF RedisCmd
  <2>2. r.reply = "NULL" /\ r.lost = TRUE /\ r.run = FALSE
    BY <2>1 DEF Outcome
  <2>3. r \in OutcomeRecord
    BY <2>1 DEF Outcome, OutcomeRecord, Answers
  <2> QED BY <2>2, <2>3
<1>4. CASE context[c] \notin Connected
  <2>1. r = Outcome("NULL", FALSE, FALSE)
    BY <1>4 DEF RedisCmd, Connected
  <2> QED BY <1>4, <2>1 DEF Outcome, OutcomeRecord, Answers
<1> QED BY <1>2, <1>3, <1>4 DEF Connected

\* A command leaves the contexts as they are, or its own in error.
LEMMA Marked ==
    ASSUME context \in Clients, NEW c \in {"cache", "sub"}, NEW r, Mark(c, r)
    PROVE  /\ context' \in Clients
           /\ \A d \in {"cache", "sub"} : context'[d] = context[d] \/ (d = c /\ r.lost)
BY DEF Mark, Clients, States

\* What the server does with a command.
LEMMA ServerRuns ==
    ASSUME ServerRight(server), NEW kind \in CallKinds \cup {"zadd"}, NEW n \in Nat
    PROVE  LET new == Executed(kind, n) IN
           /\ ServerRight(new)
           /\ new.published = IF kind = "publish" THEN Append(server.published, n) ELSE server.published
           /\ kind = "set" => new.stored = n
           /\ kind # "hmset" => new.hash = server.hash
           /\ kind = "zadd" => n \in new.listed /\ new.stored = server.stored
<1> DEFINE new == Executed(kind, n)
<1>0. server \in ServerRecord /\ server.hash["f"] = server.hash["g"]
  BY DEF ServerRight
<1>1. CASE kind = "publish"
  <2>1. new = [server EXCEPT !.published = Append(@, n)]
    BY <1>1 DEF Executed
  <2>2. Append(server.published, n) \in Seq(Nat)
    BY <1>0 DEF ServerRecord
  <2> HIDE DEF new
  <2>3. new \in ServerRecord /\ new.published = Append(server.published, n) /\ new.hash = server.hash
    BY <1>0, <2>1, <2>2 DEF ServerRecord
  <2> QED BY <1>0, <1>1, <2>3 DEF ServerRight, new
<1>2. CASE kind = "set"
  <2>1. new = [server EXCEPT !.stored = n]
    BY <1>2 DEF Executed
  <2> HIDE DEF new
  <2>2. new \in ServerRecord /\ new.stored = n /\ new.hash = server.hash /\ new.published = server.published
    BY <1>0, <2>1 DEF ServerRecord
  <2> QED BY <1>0, <1>2, <2>2 DEF ServerRight, new
<1>3. CASE kind = "del"
  <2>1. new = [server EXCEPT !.stored = 0]
    BY <1>3 DEF Executed
  <2> HIDE DEF new
  <2>2. new \in ServerRecord /\ new.hash = server.hash /\ new.published = server.published
    BY <1>0, <2>1 DEF ServerRecord
  <2> QED BY <1>0, <1>3, <2>2 DEF ServerRight, new
<1>4. CASE kind = "zadd"
  <2>1. new = [server EXCEPT !.listed = @ \cup {n}]
    BY <1>4 DEF Executed
  <2> HIDE DEF new
  <2>2. /\ new \in ServerRecord /\ new.hash = server.hash /\ new.published = server.published
        /\ new.listed = server.listed \cup {n} /\ new.stored = server.stored
    BY <1>0, <2>1 DEF ServerRecord
  <2> QED BY <1>0, <1>4, <2>2 DEF ServerRight, new
<1>5. CASE kind = "hmset"
  <2>1. new = [server EXCEPT !.hash = [f \in Fields |-> n]]
    BY <1>5 DEF Executed
  <2> HIDE DEF new
  <2>2. /\ new \in ServerRecord /\ new.hash = [f \in Fields |-> n] /\ new.published = server.published
    BY <1>0, <2>1 DEF ServerRecord
  <2>3. new.hash["f"] = new.hash["g"]
    BY <2>2 DEF Fields
  <2> QED BY <1>5, <2>2, <2>3 DEF ServerRight, new
<1>6. CASE kind \notin {"publish", "set", "del", "zadd", "hmset"}
  <2>1. new = server
    BY <1>6 DEF Executed
  <2> QED BY <1>0, <1>6, <2>1 DEF ServerRight
<1> QED BY <1>1, <1>2, <1>3, <1>4, <1>5, <1>6

\* A message reaches the connection as the server publishes it.
LEMMA Published ==
    ASSUME RedisInv, NEW kind \in CallKinds \cup {"zadd"}, NEW n \in Nat
    PROVE  /\ Delivered(kind, n) \in SubRecord
           /\ SubRight(Executed(kind, n), Delivered(kind, n), received)
<1> DEFINE new == Executed(kind, n)
           s == Delivered(kind, n)
           p == server.published
<1>1. /\ ServerRight(server) /\ sub \in SubRecord /\ received \in Seq(Nat) /\ p \in Seq(Nat)
      /\ SubRight(server, sub, received) /\ sub.inbox \in Seq(Nat) /\ sub.from \in Nat
  BY DEF RedisInv, ServerRight, ServerRecord, SubRecord
<1>2. new.published = IF kind = "publish" THEN Append(p, n) ELSE p
  BY <1>1, ServerRuns
<1>3. CASE kind = "publish" /\ sub.live
  <2>1. s = [sub EXCEPT !.inbox = Append(@, n)]
    BY <1>3 DEF Delivered
  <2>2. Append(sub.inbox, n) \in Seq(Nat)
    BY <1>1
  <2> HIDE DEF s, new
  <2>3. /\ s \in SubRecord /\ s.is_subscribe = sub.is_subscribe /\ s.live = sub.live
        /\ s.from = sub.from /\ s.inbox = Append(sub.inbox, n)
    BY <1>1, <2>1, <2>2 DEF SubRecord
  <2> DEFINE q == sub.inbox
             f == sub.from
             l == Len(received)
  <2>4. /\ f + l + Len(q) = Len(p) /\ sub.is_subscribe
        /\ \A i \in 1..l : received[i] = p[f + i]
        /\ \A i \in 1..Len(q) : q[i] = p[f + l + i]
    BY <1>1, <1>3 DEF SubRight
  <2>5. /\ f \in Nat /\ l \in Nat /\ q \in Seq(Nat) /\ Len(q) \in Nat /\ Len(p) \in Nat
    BY <1>1
  <2> DEFINE p2 == Append(p, n)
             q2 == Append(q, n)
  <2>6. /\ Len(p2) = Len(p) + 1 /\ p2[Len(p) + 1] = n /\ \A i \in 1..Len(p) : p2[i] = p[i]
        /\ Len(q2) = Len(q) + 1 /\ q2[Len(q) + 1] = n /\ \A i \in 1..Len(q) : q2[i] = q[i]
    BY <1>1
  <2>9. new.published = p2 /\ s.inbox = q2 /\ s.from = f /\ s.is_subscribe
    BY <1>2, <1>3, <2>3, <2>4
  <2> HIDE DEF p, q, f, l, p2, q2
  <2>10. f + l + Len(q) = Len(p)
    BY <2>4
  <2>7. /\ f + l + Len(q2) = Len(p2)
        /\ \A i \in 1..l : received[i] = p2[f + i]
        /\ \A i \in 1..Len(q2) : q2[i] = p2[f + l + i]
    <3>1. f + l + Len(q2) = Len(p2)
      BY <2>4, <2>5, <2>6
    <3>2. ASSUME NEW i \in 1..l PROVE received[i] = p2[f + i]
      <4>1. f + i \in 1..Len(p)
        BY <2>4, <2>5
      <4> QED BY <2>4, <2>6, <4>1
    <3>3. ASSUME NEW i \in 1..Len(q2) PROVE q2[i] = p2[f + l + i]
      <4>1. CASE i = Len(q) + 1
        <5>1. f + l + i = Len(p) + 1
          <6>1. \A x, y, m, k \in Nat : x + y + m = k => x + y + (m + 1) = k + 1
            OBVIOUS
          <6>2. f + l + (Len(q) + 1) = Len(p) + 1
            BY <2>5, <2>10, <6>1
          <6> QED BY <4>1, <6>2
        <5> QED BY <2>6, <4>1, <5>1
      <4>2. CASE i # Len(q) + 1
        <5>1. i \in 1..Len(q) /\ f + l + i \in 1..Len(p)
          BY <2>4, <2>5, <2>6, <4>2
        <5> QED BY <2>4, <2>6, <5>1
      <4> QED BY <4>1, <4>2
    <3> QED BY <3>1, <3>2, <3>3
  <2>8. SubRight(new, s, received)
    BY <2>7, <2>9 DEF SubRight, l
  <2> QED BY <2>3, <2>8 DEF s, new
<1>4. CASE kind = "publish" /\ ~sub.live
  <2>1. s = sub
    BY <1>4 DEF Delivered
  <2> QED BY <1>1, <1>4, <2>1 DEF SubRight
<1>5. CASE kind # "publish"
  <2>1. s = sub
    BY <1>5 DEF Delivered
  <2> QED BY <1>1, <1>2, <1>5, <2>1 DEF SubRight
<1> QED BY <1>3, <1>4, <1>5

LEMMA ServerStepKeeps ==
    ASSUME RedisInv, ServerStops \/ ServerStarts PROVE RedisInv'
<1>1. /\ server \in ServerRecord /\ context \in Clients /\ op \in OpRecord /\ sub \in SubRecord
      /\ ServerRight(server)
  BY DEF RedisInv, ServerRight
<1>2. ASSUME NEW up \in BOOLEAN, server' = [server EXCEPT !.up = up]
      PROVE  /\ ServerRight(server')
             /\ server'.published = server.published /\ server'.stored = server.stored
             /\ server'.listed = server.listed /\ server'.hash = server.hash
  <2>1. /\ server' \in ServerRecord /\ server'.published = server.published /\ server'.stored = server.stored
        /\ server'.listed = server.listed /\ server'.hash = server.hash
    BY <1>1, <1>2 DEF ServerRecord
  <2> QED BY <1>1, <2>1 DEF ServerRight
<1>3. CASE ServerStarts
  <2>1. server' = [server EXCEPT !.up = TRUE] /\ UNCHANGED <<context, op, vec, sub, received>>
    BY <1>3 DEF ServerStarts
  <2>2. /\ ServerRight(server')
        /\ server'.published = server.published /\ server'.stored = server.stored
        /\ server'.listed = server.listed /\ server'.hash = server.hash
    BY <1>2, <2>1
  <2> QED BY <2>1, <2>2 DEF RedisInv, SubRight, SetRight, EndRight
<1>4. CASE ServerStops
  <2>1. /\ server' = [server EXCEPT !.up = FALSE] /\ UNCHANGED <<op, vec, received>>
        /\ sub' = [sub EXCEPT !.inbox = <<>>, !.live = FALSE]
        /\ context' = [c \in DOMAIN context |-> IF context[c] = "ok" THEN "stale" ELSE context[c]]
    BY <1>4 DEF ServerStops
  <2>2. /\ ServerRight(server')
        /\ server'.published = server.published /\ server'.stored = server.stored
        /\ server'.listed = server.listed /\ server'.hash = server.hash
    BY <1>2, <2>1
  <2>3. /\ sub' \in SubRecord /\ sub'.live = FALSE /\ sub'.inbox = <<>>
        /\ sub'.is_subscribe = sub.is_subscribe
    <3>1. <<>> \in Seq(Nat) /\ FALSE \in BOOLEAN
      OBVIOUS
    <3> QED BY <1>1, <2>1, <3>1 DEF SubRecord
  <2>4. SubRight(server', sub', received')
    BY <2>1, <2>3 DEF RedisInv, SubRight
  <2>5. /\ context' \in Clients
        /\ context.cache \in Connected => context'.cache \in Connected
    BY <1>1, <2>1 DEF Clients, States, Connected
  <2>6. TryRight(op', context'.cache) /\ SetRight(op', context'.cache, server')
    BY <2>1, <2>2, <2>5 DEF RedisInv, TryRight, SetRight
  <2> QED BY <2>1, <2>2, <2>3, <2>4, <2>5, <2>6 DEF RedisInv, EndRight
<1> QED BY <1>3, <1>4

LEMMA OpenKeeps ==
    ASSUME RedisInv, Open \/ OpenSubscriber PROVE RedisInv'
<1>1. context \in Clients /\ op \in OpRecord
  BY DEF RedisInv
<1>2. UNCHANGED <<server, vec, sub, received>>
  BY DEF Open, OpenSubscriber
<1>3. context' \in Clients
  BY <1>1 DEF Open, OpenSubscriber, Clients, States
<1>4. op.pc \in {"idle", "open"} /\ \E pc \in {"idle", "open"} : op' = [op EXCEPT !.pc = pc]
  <2>1. CASE Open
    <3>1. op.pc = "idle" /\ (op' = [op EXCEPT !.pc = "open"] \/ op' = op)
      BY <2>1 DEF Open
    <3>2. op = [op EXCEPT !.pc = "idle"]
      BY <1>1, <3>1 DEF OpRecord
    <3> QED BY <3>1, <3>2
  <2>2. CASE OpenSubscriber
    BY <2>2 DEF OpenSubscriber
  <2> QED BY <2>1, <2>2
<1>5. PICK pc \in {"idle", "open"} : op' = [op EXCEPT !.pc = pc]
  BY <1>4
<1>6. /\ op' \in OpRecord /\ op'.pc = pc /\ op'.kind = op.kind /\ op'.n = op.n /\ op'.second = op.second
      /\ op'.ok = op.ok /\ op'.lost = op.lost /\ op'.lostAgain = op.lostAgain
      /\ op'.refused = op.refused /\ op'.error = op.error /\ op'.runs = op.runs
  BY <1>1, <1>5 DEF OpRecord
<1>7. AnswerRight(op') /\ EndRight(op', server', vec')
  BY <1>2, <1>4, <1>6 DEF RedisInv, AnswerRight, EndRight
<1>8. TryRight(op', context'.cache) /\ SetRight(op', context'.cache, server')
  BY <1>6 DEF TryRight, SetRight
<1> QED BY <1>2, <1>3, <1>6, <1>7, <1>8 DEF RedisInv

LEMMA BeginKeeps ==
    ASSUME RedisInv, NEW kind \in Retried \cup Plain, Begin(kind) PROVE RedisInv'
<1>1. /\ op \in OpRecord /\ op' = [NoOp EXCEPT !.kind = kind, !.n = op.n + 1, !.pc = "try"]
      /\ UNCHANGED <<server, context, sub, received>>
  BY DEF RedisInv, Begin
<1>2. NoOp \in OpRecord /\ op.n + 1 \in Nat
  BY <1>1 DEF NoOp, OpRecord, CallKinds
<1>3. kind \in CallKinds /\ kind # "none"
  BY DEF CallKinds, Retried, Plain
<1>4. /\ NoOp.second = FALSE /\ NoOp.ok = FALSE /\ NoOp.lostAgain = FALSE /\ NoOp.runs = 0
  BY DEF NoOp
<1>5. /\ op' \in OpRecord /\ op'.pc = "try" /\ op'.kind = kind /\ op'.second = FALSE
      /\ op'.ok = FALSE /\ op'.lostAgain = FALSE /\ op'.runs = 0
  BY <1>1, <1>2, <1>3, <1>4 DEF OpRecord
<1>6. TryRight(op', context'.cache)
  BY <1>3, <1>5 DEF TryRight
<1>7. SetRight(op', context'.cache, server') /\ AnswerRight(op') /\ EndRight(op', server', vec')
  BY <1>5 DEF SetRight, AnswerRight, EndRight
<1> QED BY <1>1, <1>5, <1>6, <1>7 DEF RedisInv

LEMMA ReConnectKeeps ==
    ASSUME RedisInv, ReConnectObj PROVE RedisInv'
<1>1. /\ op \in OpRecord /\ context \in Clients /\ op.pc = "reconnect" /\ server.up \in BOOLEAN
      /\ context' = [context EXCEPT !.cache = IF server.up THEN "ok" ELSE "NULL"]
      /\ op' = [op EXCEPT !.pc = "try", !.second = TRUE, !.refused = ~server.up]
      /\ UNCHANGED <<server, vec, sub, received>>
  BY DEF RedisInv, ReConnectObj, ServerRight, ServerRecord
<1>2. context' \in Clients /\ context'.cache = IF server.up THEN "ok" ELSE "NULL"
  BY <1>1 DEF Clients, States
<1>3. (~server.up) \in BOOLEAN
  OBVIOUS
<1>4. /\ op' \in OpRecord /\ op'.pc = "try" /\ op'.kind = op.kind /\ op'.second = TRUE
      /\ op'.ok = op.ok /\ op'.lost = op.lost /\ op'.lostAgain = op.lostAgain /\ op'.runs = op.runs
      /\ op'.refused = (~server.up)
  BY <1>1, <1>3 DEF OpRecord
<1>5. TryRight(op', context'.cache)
  BY <1>1, <1>2, <1>4 DEF RedisInv, TryRight, Connected
<1>6. SetRight(op', context'.cache, server') /\ AnswerRight(op') /\ EndRight(op', server', vec')
  BY <1>4 DEF SetRight, AnswerRight, EndRight
<1> QED BY <1>1, <1>2, <1>4, <1>5, <1>6 DEF RedisInv

\* A call after one attempt.
AttemptOf(o, r) ==
    /\ o \in OpRecord
    /\ o.kind = op.kind /\ o.n = op.n /\ o.second = op.second /\ o.refused = op.refused
    /\ o.lost = (op.lost \/ r.lost) /\ o.lostAgain = (op.second /\ r.lost)
    /\ o.error = (op.error \/ r.reply = "ERROR")
    /\ o.runs = op.runs + IF r.run THEN 1 ELSE 0
    /\ o.ok = ~IsFailure(op.kind, r.reply)
    /\ o.pc = IF o.ok THEN IF op.kind = "set" THEN "list" ELSE "idle"
              ELSE IF op.kind \in Retried /\ ~op.second THEN "reconnect" ELSE "idle"

LEMMA Attempted ==
    ASSUME RedisInv, op.pc = "try", NEW r \in RedisCmd("cache"),
           NEW o, o = [AfterTry(op.kind, r) EXCEPT
                          !.lost = @ \/ r.lost,
                          !.lostAgain = op.second /\ r.lost,
                          !.error = @ \/ r.reply = "ERROR",
                          !.runs = @ + IF r.run THEN 1 ELSE 0]
    PROVE  AttemptOf(o, r)
<1>1. /\ op \in OpRecord /\ r \in OutcomeRecord
  BY CmdOutcome DEF RedisInv
<1> DEFINE at == IF ~IsFailure(op.kind, r.reply) THEN IF op.kind = "set" THEN "list" ELSE "idle"
                 ELSE IF op.kind \in Retried /\ ~op.second THEN "reconnect" ELSE "idle"
           fine == ~IsFailure(op.kind, r.reply)
           m == [op EXCEPT !.pc = at, !.ok = fine]
           lost == op.lost \/ r.lost
           again == op.second /\ r.lost
           err == op.error \/ r.reply = "ERROR"
           runs == op.runs + IF r.run THEN 1 ELSE 0
<1>2. AfterTry(op.kind, r) = m
  <2>1. fine = TRUE \/ fine = FALSE
    OBVIOUS
  <2> QED BY <2>1, Zenon DEF AfterTry
<1>3. fine \in BOOLEAN /\ lost \in BOOLEAN /\ again \in BOOLEAN /\ err \in BOOLEAN
  OBVIOUS
<1>4. runs \in Nat
  BY <1>1 DEF OpRecord
<1>5. at \in {"idle", "list", "reconnect"} /\ (at = IF fine THEN IF op.kind = "set" THEN "list" ELSE "idle"
                 ELSE IF op.kind \in Retried /\ ~op.second THEN "reconnect" ELSE "idle")
  OBVIOUS
<1> HIDE DEF at, fine
<1>6. /\ m \in OpRecord /\ m.pc = at /\ m.ok = fine /\ m.kind = op.kind /\ m.n = op.n
      /\ m.second = op.second /\ m.refused = op.refused /\ m.lost = op.lost
      /\ m.lostAgain = op.lostAgain /\ m.error = op.error /\ m.runs = op.runs
  BY <1>1, <1>3, <1>5 DEF OpRecord
<1> HIDE DEF m
<1>7. o = [m EXCEPT !.lost = lost, !.lostAgain = again, !.error = err, !.runs = runs]
  BY <1>2, <1>6
<1> HIDE DEF lost, again, err, runs
<1>8. /\ o \in OpRecord /\ o.pc = at /\ o.ok = fine /\ o.kind = op.kind /\ o.n = op.n
      /\ o.second = op.second /\ o.refused = op.refused /\ o.lost = lost
      /\ o.lostAgain = again /\ o.error = err /\ o.runs = runs
  <2> DEFINE o1 == [m EXCEPT !.lost = lost]
             o2 == [o1 EXCEPT !.lostAgain = again]
             o3 == [o2 EXCEPT !.error = err]
  <2>1. o1 \in OpRecord /\ o1.lost = lost
    BY <1>3, <1>6 DEF OpRecord
  <2>2. /\ o1.pc = m.pc /\ o1.ok = m.ok /\ o1.kind = m.kind /\ o1.n = m.n /\ o1.second = m.second
        /\ o1.refused = m.refused
    BY <1>3, <1>6 DEF OpRecord
  <2>3. o = [[[o1 EXCEPT !.lostAgain = again] EXCEPT !.error = err] EXCEPT !.runs = runs]
    BY <1>7, Zenon
  <2> HIDE DEF o1
  <2>4. o2 \in OpRecord /\ o2.lostAgain = again /\ o2.lost = o1.lost
    BY <1>3, <2>1 DEF OpRecord
  <2>5. /\ o2.pc = o1.pc /\ o2.ok = o1.ok /\ o2.kind = o1.kind /\ o2.n = o1.n /\ o2.second = o1.second
        /\ o2.refused = o1.refused
    BY <1>3, <2>1 DEF OpRecord
  <2> HIDE DEF o2
  <2>6. o3 \in OpRecord /\ o3.error = err /\ o3.lost = o2.lost /\ o3.lostAgain = o2.lostAgain
    BY <1>3, <2>4 DEF OpRecord
  <2>7. /\ o3.pc = o2.pc /\ o3.ok = o2.ok /\ o3.kind = o2.kind /\ o3.n = o2.n /\ o3.second = o2.second
        /\ o3.refused = o2.refused
    BY <1>3, <2>4 DEF OpRecord
  <2>8. o = [o3 EXCEPT !.runs = runs]
    BY <2>3, Zenon DEF o2, o3
  <2> HIDE DEF o3
  <2>9. o \in OpRecord /\ o.runs = runs /\ o.lost = o3.lost /\ o.lostAgain = o3.lostAgain /\ o.error = o3.error
    BY <1>4, <2>6, <2>8 DEF OpRecord
  <2>10. /\ o.pc = o3.pc /\ o.ok = o3.ok /\ o.kind = o3.kind /\ o.n = o3.n /\ o.second = o3.second
         /\ o.refused = o3.refused
    BY <1>4, <2>6, <2>8 DEF OpRecord
  <2> QED BY <1>6, <2>1, <2>2, <2>4, <2>5, <2>6, <2>7, <2>9, <2>10, SMTT(30)
<1> QED BY <1>5, <1>8, Zenon DEF AttemptOf, fine, lost, again, err, runs

LEMMA TryKeeps ==
    ASSUME RedisInv, Try PROVE RedisInv'
<1>1. PICK r \in RedisCmd("cache") :
        /\ op' = [AfterTry(op.kind, r) EXCEPT
                     !.lost = @ \/ r.lost,
                     !.lostAgain = op.second /\ r.lost,
                     !.error = @ \/ r.reply = "ERROR",
                     !.runs = @ + IF r.run THEN 1 ELSE 0]
        /\ server' = IF r.run THEN Executed(op.kind, op.n) ELSE server
        /\ sub' = IF r.run THEN Delivered(op.kind, op.n) ELSE sub
        /\ vec' = Answer(op.kind, r.reply)
        /\ Mark("cache", r)
  BY DEF Try
<1>2. /\ op \in OpRecord /\ context \in Clients /\ op.pc = "try" /\ UNCHANGED received
      /\ ServerRight(server) /\ sub \in SubRecord /\ SubRight(server, sub, received)
      /\ op.kind \in CallKinds /\ op.n \in Nat /\ op.runs \in Nat
  BY DEF RedisInv, Try, OpRecord
<1>3. /\ r \in OutcomeRecord
      /\ r.reply = "ok" => r.run /\ ~r.lost /\ context.cache = "ok"
      /\ r.reply = "ERROR" => ~r.run /\ ~r.lost /\ context.cache = "ok"
      /\ r.reply = "NULL" /\ ~r.lost => context.cache \notin Connected /\ ~r.run
  <2>1. context["cache"] = context.cache
    BY <1>2
  <2> QED BY <1>2, <2>1, CmdOutcome
<1> DEFINE fails == IsFailure(op.kind, r.reply)
<1>4. /\ op' \in OpRecord
      /\ op'.kind = op.kind /\ op'.n = op.n /\ op'.second = op.second /\ op'.refused = op.refused
      /\ op'.lost = (op.lost \/ r.lost) /\ op'.lostAgain = (op.second /\ r.lost)
      /\ op'.error = (op.error \/ r.reply = "ERROR")
      /\ op'.runs = op.runs + IF r.run THEN 1 ELSE 0
      /\ op'.ok = ~fails
      /\ op'.pc = IF op'.ok THEN IF op.kind = "set" THEN "list" ELSE "idle"
                  ELSE IF op.kind \in Retried /\ ~op.second THEN "reconnect" ELSE "idle"
  <2>1. AttemptOf(op', r)
    BY <1>1, <1>2, Attempted, Zenon
  <2> QED BY <2>1 DEF AttemptOf
<1>5. /\ context' \in Clients
      /\ context'.cache = context.cache \/ r.lost
  <2>1. context'["cache"] = context'.cache /\ context["cache"] = context.cache
    BY <1>2
  <2> QED BY <1>1, <1>2, <2>1, Marked
<1>6. ServerRight(server') /\ sub' \in SubRecord /\ SubRight(server', sub', received')
  <2>1. CASE r.run
    BY <1>1, <1>2, <2>1, ServerRuns, Published
  <2>2. CASE ~r.run
    BY <1>1, <1>2, <2>2
  <2> QED BY <2>1, <2>2
<1>7. /\ fails <=> r.reply = "NULL" \/ (r.reply = "ERROR" /\ op.kind \in ErrorFails)
      /\ r.reply \in Answers
  BY <1>3 DEF IsFailure, OutcomeRecord
<1>8. /\ ~op.lostAgain
      /\ op.runs <= 1 /\ (op.runs = 1 => op.lost)
      /\ ~op.second => op.runs = 0
      /\ op.second /\ ~op.refused => context.cache \in Connected
      /\ op.kind # "none"
  BY <1>2 DEF RedisInv, TryRight
<1>9. /\ op.second \in BOOLEAN /\ op.lost \in BOOLEAN /\ op.refused \in BOOLEAN /\ op.error \in BOOLEAN
      /\ r.lost \in BOOLEAN /\ r.run \in BOOLEAN
  BY <1>2, <1>3 DEF OpRecord, OutcomeRecord
<1> HIDE DEF fails
<1>10. op'.runs <= 2 /\ (r.run => op'.runs >= 1) /\ (op'.runs = 2 => op.runs = 1)
       /\ (op'.runs = 1 => op.runs = 1 \/ (op.runs = 0 /\ r.run))
  <2>1. CASE r.run
    BY <1>2, <1>4, <1>8, <2>1
  <2>2. CASE ~r.run
    BY <1>2, <1>4, <1>8, <2>2
  <2> QED BY <2>1, <2>2
<1>11. TryRight(op', context'.cache)
  <2>1. op'.pc # "try"
    BY <1>4
  <2>2. op'.pc = "reconnect" => fails /\ ~op.second /\ ~op'.ok /\ ~op'.lostAgain
    BY <1>4, <1>9
  <2>3. fails /\ r.run => r.lost
    BY <1>3, <1>7 DEF Answers
  <2>4. ASSUME op'.pc = "reconnect" PROVE op'.runs <= 1 /\ (op'.runs = 1 => op'.lost)
    <3>1. op.runs = 0 /\ fails
      BY <1>8, <2>2, <2>4
    <3>2. op'.runs = IF r.run THEN 1 ELSE 0
      BY <1>4, <3>1
    <3>3. op'.runs <= 1 /\ (op'.runs = 1 => r.run)
      BY <3>2
    <3>4. r.run => op'.lost
      BY <1>4, <2>3, <3>1
    <3> QED BY <3>3, <3>4
  <2>5. op'.kind # "none"
    BY <1>4, <1>8
  <2> QED BY <1>4, <2>1, <2>2, <2>4, <2>5 DEF TryRight
<1>12. SetRight(op', context'.cache, server')
  <2> SUFFICES ASSUME op'.pc = "list"
               PROVE  /\ op'.kind = "set" /\ op'.ok /\ context'.cache \in Connected
                      /\ ~op'.error => server'.stored = op'.n
    BY DEF SetRight
  <2>1. op.kind = "set" /\ op'.ok /\ ~fails
    BY <1>4
  <2>2. r.reply # "NULL" /\ r.reply \in Answers
    BY <1>7, <2>1
  <2>3. ~r.lost /\ context.cache = "ok"
    BY <1>3, <2>2 DEF Answers
  <2>4. ~op'.error => r.reply = "ok" /\ r.run
    BY <1>3, <1>4, <2>2 DEF Answers
  <2>5. ~op'.error => server'.stored = op.n
    BY <1>1, <1>2, <2>1, <2>4, ServerRuns
  <2> QED BY <1>4, <1>5, <2>1, <2>3, <2>5 DEF Connected
<1>13. AnswerRight(op')
  <2>1. ASSUME op.kind \in Retried, ~op'.ok, op'.pc # "reconnect"
        PROVE  op'.lostAgain \/ op'.refused \/ op'.error
    <3>1. fails /\ op.second
      BY <1>4, <1>9, <2>1
    <3>2. CASE r.reply = "ERROR"
      BY <1>4, <3>2
    <3>3. CASE r.reply = "NULL"
      BY <1>3, <1>4, <1>8, <1>9, <3>1, <3>3
    <3> QED BY <1>7, <3>1, <3>2, <3>3
  <2>2. ASSUME op'.ok
        PROVE  /\ op'.runs >= 1 \/ (op'.error /\ ~IsFailure(op'.kind, "ERROR"))
               /\ op'.runs = 2 => op'.second /\ op'.lost
    <3>1. ~fails
      BY <1>4, <2>2
    <3>2. op'.runs >= 1 \/ (op'.error /\ ~IsFailure(op'.kind, "ERROR"))
      <4>1. CASE r.reply = "ok"
        BY <1>3, <1>10, <4>1
      <4>2. CASE r.reply = "ERROR"
        BY <1>4, <3>1, <4>2 DEF fails
      <4> QED BY <1>7, <3>1, <4>1, <4>2 DEF Answers
    <3>3. op'.runs = 2 => op'.second /\ op'.lost
      BY <1>2, <1>4, <1>8, <1>9, <1>10
    <3> QED BY <3>2, <3>3
  <2> QED BY <1>4, <2>1, <2>2 DEF AnswerRight
<1>14. EndRight(op', server', vec')
  <2>1. op.kind = "set" => ~(op'.ok /\ op'.pc \in {"idle", "open"})
    BY <1>4
  <2>2. ASSUME op.kind = "hgetall", op'.ok, ~op'.error
        PROVE  vec' = IF server'.hash["f"] = 0 THEN <<>>
                      ELSE <<[field |-> "f", value |-> <<server'.hash["f"]>>],
                             [field |-> "g", value |-> <<server'.hash["g"]>>]>>
    <3>1. r.reply = "ok"
      BY <1>4, <1>7, <2>2 DEF Answers
    <3>2. server'.hash = server.hash
      BY <1>1, <1>2, <2>2, ServerRuns
    <3>3. vec' = Array("hgetall")
      BY <1>1, <2>2, <3>1 DEF Answer
    <3> QED BY <3>2, <3>3 DEF Array
  <2> QED BY <1>4, <2>1, <2>2, Zenon DEF EndRight
<1> QED BY <1>2, <1>4, <1>5, <1>6, <1>11, <1>12, <1>13, <1>14 DEF RedisInv

LEMMA UpdataSetKeeps ==
    ASSUME RedisInv, UpdataSet PROVE RedisInv'
<1>1. PICK r \in RedisCmd("cache") :
        /\ server' = IF r.run THEN Executed("zadd", op.n) ELSE server
        /\ op' = [op EXCEPT !.pc = "idle",
                            !.lost = @ \/ r.lost,
                            !.error = @ \/ r.reply = "ERROR"]
        /\ Mark("cache", r)
  BY DEF UpdataSet
<1>2. /\ op \in OpRecord /\ context \in Clients /\ op.pc = "list" /\ UNCHANGED <<vec, sub, received>>
      /\ ServerRight(server) /\ sub \in SubRecord /\ SubRight(server, sub, received) /\ op.n \in Nat
  BY DEF RedisInv, UpdataSet, OpRecord
<1>3. /\ r \in OutcomeRecord
      /\ r.reply = "ok" => r.run /\ ~r.lost
      /\ r.reply = "NULL" /\ ~r.lost => context.cache \notin Connected
  <2>1. context["cache"] = context.cache
    BY <1>2
  <2> QED BY <1>2, <2>1, CmdOutcome
<1>4. context' \in Clients
  BY <1>1, <1>2, Marked
<1> DEFINE lost == op.lost \/ r.lost
           err == op.error \/ r.reply = "ERROR"
<1>5. lost \in BOOLEAN /\ err \in BOOLEAN
  OBVIOUS
<1>6. /\ op' \in OpRecord /\ op'.pc = "idle" /\ op'.kind = op.kind /\ op'.n = op.n
      /\ op'.second = op.second /\ op'.ok = op.ok /\ op'.lostAgain = op.lostAgain
      /\ op'.refused = op.refused /\ op'.runs = op.runs /\ op'.lost = lost /\ op'.error = err
  <2>1. op' = [op EXCEPT !.pc = "idle", !.lost = lost, !.error = err]
    BY <1>1
  <2> HIDE DEF lost, err
  <2> QED BY <1>2, <1>5, <2>1 DEF OpRecord
<1>7. ServerRight(server') /\ SubRight(server', sub', received')
  <2>1. CASE r.run
    <3>1. ServerRight(server') /\ server'.published = server.published
      BY <1>1, <1>2, <2>1, ServerRuns
    <3> QED BY <1>2, <3>1 DEF SubRight
  <2>2. CASE ~r.run
    BY <1>1, <1>2, <2>2
  <2> QED BY <2>1, <2>2
<1>8. /\ op.kind = "set" /\ op.ok /\ context.cache \in Connected
      /\ ~op.error => server.stored = op.n
  BY <1>2 DEF RedisInv, SetRight
<1>9. AnswerRight(op')
  <2>1. op.ok => /\ op.runs >= 1 \/ (op.error /\ ~IsFailure(op.kind, "ERROR"))
                 /\ op.runs = 2 => op.second /\ op.lost
    BY <1>2, <1>8 DEF RedisInv, AnswerRight
  <2> QED BY <1>6, <1>8, <2>1 DEF AnswerRight
<1>10. EndRight(op', server', vec')
  <2>1. ASSUME ~lost, ~err PROVE server'.stored = op.n /\ op.n \in server'.listed
    <3>1. r.reply = "ok" /\ r.run /\ ~op.error
      BY <1>3, <1>8, <2>1 DEF OutcomeRecord, Answers
    <3> QED BY <1>1, <1>2, <1>8, <3>1, ServerRuns
  <2> HIDE DEF lost, err
  <2> QED BY <1>6, <1>8, <2>1 DEF EndRight
<1>11. TryRight(op', context'.cache) /\ SetRight(op', context'.cache, server')
  BY <1>6 DEF TryRight, SetRight
<1> QED BY <1>2, <1>4, <1>6, <1>7, <1>9, <1>10, <1>11 DEF RedisInv

\* The subscriber's steps leave the calls and their client alone.
LEMMA SubStepKeeps ==
    ASSUME RedisInv, UNCHANGED <<server, op, vec>>, context' \in Clients, context'.cache = context.cache,
           sub' \in SubRecord, received' \in Seq(Nat), SubRight(server, sub', received')
    PROVE  RedisInv'
BY DEF RedisInv, TryRight, SetRight, AnswerRight, EndRight

LEMMA SubscribeKeeps ==
    ASSUME RedisInv, Subscribe PROVE RedisInv'
<1>1. /\ sub \in SubRecord /\ context \in Clients /\ UNCHANGED <<server, op, vec, received>>
      /\ received \in Seq(Nat) /\ SubRight(server, sub, received) /\ server.published \in Seq(Nat)
  BY DEF RedisInv, Subscribe, ServerRight, ServerRecord
<1>2. CASE sub.is_subscribe
  <2>1. sub' = [sub EXCEPT !.pc = "wait"] /\ UNCHANGED context
    BY <1>2 DEF Subscribe
  <2>2. /\ sub' \in SubRecord /\ sub'.is_subscribe = sub.is_subscribe /\ sub'.inbox = sub.inbox
        /\ sub'.from = sub.from /\ sub'.live = sub.live
    BY <1>1, <2>1 DEF SubRecord
  <2>3. SubRight(server, sub', received')
    BY <1>1, <2>2 DEF SubRight
  <2> QED BY <1>1, <2>1, <2>2, <2>3, SubStepKeeps
<1>3. CASE ~sub.is_subscribe
  <2>1. PICK r \in RedisCmd("sub") :
          /\ sub' = [sub EXCEPT !.pc = "wait", !.is_subscribe = TRUE,
                                !.reply = IF r.reply = "NULL" THEN "NULL" ELSE "freed",
                                !.live = @ \/ r.reply = "ok",
                                !.from = Len(server.published)]
          /\ Mark("sub", r)
    BY <1>3 DEF Subscribe
  <2>2. context' \in Clients /\ context'.cache = context.cache
    <3>1. context'["cache"] = context'.cache /\ context["cache"] = context.cache
      BY <1>1
    <3> QED BY <1>1, <2>1, <3>1, Marked
  <2> DEFINE alive == sub.live \/ r.reply = "ok"
             reply == IF r.reply = "NULL" THEN "NULL" ELSE "freed"
             from == Len(server.published)
  <2>3. alive \in BOOLEAN /\ reply \in {"NULL", "freed"} /\ from \in Nat
    BY <1>1
  <2>4. /\ sub' \in SubRecord /\ sub'.is_subscribe = TRUE /\ sub'.inbox = sub.inbox /\ sub'.from = from
    <3>1. sub' = [sub EXCEPT !.pc = "wait", !.is_subscribe = TRUE, !.reply = reply, !.live = alive, !.from = from]
      BY <2>1
    <3> HIDE DEF alive, reply, from
    <3> QED BY <1>1, <2>3, <3>1 DEF SubRecord
  <2>5. received = <<>> /\ sub.inbox = <<>>
    BY <1>1, <1>3 DEF SubRight
  <2>6. SubRight(server, sub', received')
    BY <1>1, <2>3, <2>4, <2>5 DEF SubRight
  <2> QED BY <1>1, <2>2, <2>4, <2>6, SubStepKeeps
<1> QED BY <1>2, <1>3

LEMMA GetMessageKeeps ==
    ASSUME RedisInv, GetMessage PROVE RedisInv'
<1> DEFINE q == sub.inbox
           f == sub.from
           l == Len(received)
           p == server.published
           q2 == Tail(q)
           rcv2 == Append(received, Head(q))
<1>1. /\ sub \in SubRecord /\ context \in Clients /\ UNCHANGED <<server, op, vec, context>>
      /\ received \in Seq(Nat) /\ SubRight(server, sub, received) /\ p \in Seq(Nat)
      /\ q \in Seq(Nat) /\ q # <<>> /\ f \in Nat /\ sub.live
      /\ received' = rcv2
      /\ sub' = [sub EXCEPT !.pc = "idle", !.inbox = q2, !.reply = "NULL"]
  BY DEF RedisInv, GetMessage, ServerRight, ServerRecord, SubRecord
<1>2. /\ q2 \in Seq(Nat) /\ Len(q2) = Len(q) - 1 /\ Len(q) \in Nat /\ Len(q) >= 1
      /\ \A i \in 1..Len(q2) : q2[i] = q[i + 1]
      /\ rcv2 \in Seq(Nat) /\ Len(rcv2) = l + 1 /\ rcv2[l + 1] = q[1] /\ l \in Nat
      /\ \A i \in 1..l : rcv2[i] = received[i]
  BY <1>1
<1>3. /\ f + l + Len(q) = Len(p) /\ sub.is_subscribe
      /\ \A i \in 1..l : received[i] = p[f + i]
      /\ \A i \in 1..Len(q) : q[i] = p[f + l + i]
  BY <1>1 DEF SubRight
<1> HIDE DEF q2, rcv2
<1>4. /\ sub' \in SubRecord /\ sub'.is_subscribe = sub.is_subscribe /\ sub'.inbox = q2
      /\ sub'.from = f /\ sub'.live = sub.live
  BY <1>1, <1>2 DEF SubRecord
<1> HIDE DEF q, l, p, f
<1>5. f \in Nat /\ f + (l + 1) + Len(q2) = Len(p)
  <2>1. \A x, y, m, k \in Nat : x + y + m = k => x + (y + 1) + (m - 1) = k
    OBVIOUS
  <2>2. f + l + Len(q) = Len(p) /\ f \in Nat /\ l \in Nat /\ Len(q) \in Nat /\ Len(p) \in Nat
    BY <1>1, <1>2, <1>3
  <2>3. f + (l + 1) + (Len(q) - 1) = Len(p)
    BY <2>1, <2>2
  <2>4. Len(q2) = Len(q) - 1
    BY <1>2
  <2> QED BY <2>2, <2>3, <2>4
<1>6. ASSUME NEW i \in 1..l + 1 PROVE rcv2[i] = p[f + i]
  <2>1. CASE i = l + 1
    <3>1. q[1] = p[f + l + 1] /\ f + l + 1 = f + i
      BY <1>2, <1>3, <1>5, <2>1
    <3> QED BY <1>2, <2>1, <3>1
  <2>2. CASE i # l + 1
    <3>1. i \in 1..l
      BY <1>2, <2>2
    <3> QED BY <1>2, <1>3, <3>1
  <2> QED BY <2>1, <2>2
<1>7. ASSUME NEW i \in 1..Len(q2) PROVE q2[i] = p[f + (l + 1) + i]
  <2>1. i + 1 \in 1..Len(q) /\ f + l + (i + 1) = f + (l + 1) + i
    BY <1>2, <1>5
  <2>2. q2[i] = q[i + 1]
    BY <1>2
  <2>3. q[i + 1] = p[f + l + (i + 1)]
    BY <1>3, <2>1
  <2> QED BY <2>1, <2>2, <2>3, Zenon
<1>8. SubRight(server, sub', received')
  <2>1. Len(received') = l + 1 /\ sub'.is_subscribe /\ sub'.from = f /\ sub'.inbox = q2
        /\ received' = rcv2
    BY <1>1, <1>2, <1>3, <1>4
  <2>2. /\ f + (l + 1) + Len(q2) = Len(p)
        /\ \A i \in 1..l + 1 : rcv2[i] = p[f + i]
        /\ \A i \in 1..Len(q2) : q2[i] = p[f + (l + 1) + i]
    BY <1>5, <1>6, <1>7
  <2> QED BY <2>1, <2>2, Zenon DEF SubRight, p
<1> QED BY <1>1, <1>2, <1>4, <1>8, SubStepKeeps

LEMMA GetFailsKeeps ==
    ASSUME RedisInv, GetFails PROVE RedisInv'
<1>1. /\ sub \in SubRecord /\ context \in Clients /\ UNCHANGED <<server, op, vec, received>>
      /\ received \in Seq(Nat) /\ SubRight(server, sub, received)
      /\ context' = [context EXCEPT !.sub = "err"]
      /\ sub' = [sub EXCEPT !.pc = "idle", !.reply = "NULL"]
  BY DEF RedisInv, GetFails
<1>2. context' \in Clients /\ context'.cache = context.cache
  BY <1>1 DEF Clients, States
<1>3. /\ sub' \in SubRecord /\ sub'.is_subscribe = sub.is_subscribe /\ sub'.inbox = sub.inbox
      /\ sub'.from = sub.from /\ sub'.live = sub.live
  BY <1>1 DEF SubRecord
<1>4. SubRight(server, sub', received')
  BY <1>1, <1>3 DEF SubRight
<1> QED BY <1>1, <1>2, <1>3, <1>4, SubStepKeeps

LEMMA RedisInitRight == InitRedis => RedisInv
<1> SUFFICES ASSUME InitRedis PROVE RedisInv
  OBVIOUS
<1>1. <<>> \in Seq(Nat)
  OBVIOUS
<1>2. ServerRight(server)
  BY <1>1 DEF InitRedis, ServerRight, ServerRecord, Fields
<1>3. context \in Clients
  BY DEF InitRedis, Clients, States
<1>4. op \in OpRecord /\ op.kind = "none" /\ op.pc = "idle"
  BY DEF InitRedis, NoOp, OpRecord, CallKinds
<1>5. sub \in SubRecord /\ sub.is_subscribe = FALSE /\ sub.inbox = <<>> /\ sub.live = FALSE
  BY <1>1 DEF InitRedis, SubRecord
<1>6. received = <<>>
  BY DEF InitRedis
<1> QED BY <1>1, <1>2, <1>3, <1>4, <1>5, <1>6
        DEF RedisInv, SubRight, TryRight, SetRight, AnswerRight, EndRight

LEMMA RedisIsRight == SpecRedis => []RedisInv
<1>1. RedisInv /\ [NextRedis]_redisVars => RedisInv'
  <2> SUFFICES ASSUME RedisInv, [NextRedis]_redisVars PROVE RedisInv'
    OBVIOUS
  <2>1. CASE UNCHANGED redisVars
    BY <2>1 DEF redisVars, RedisInv
  <2> QED BY <2>1, ServerStepKeeps, OpenKeeps, BeginKeeps, TryKeeps, UpdataSetKeeps, ReConnectKeeps,
             SubscribeKeeps, GetMessageKeeps, GetFailsKeeps DEF NextRedis
<1> QED BY <1>1, RedisInitRight, PTL DEF SpecRedis

\* What a caller of the cache is told is true, for any calls and however often the connection
\* breaks: ReConnectObj hides one break, success means that the server ran the command, and a
\* value stored is listed (SetRedisData, RedisBigStringSetHash, RedisGetHashAll).
THEOREM RedisCallsKept == SpecRedis => []CallsKept
<1>1. RedisInv => CallsKept
  <2> SUFFICES ASSUME RedisInv PROVE CallsKept
    OBVIOUS
  <2>1. RetryHides /\ SuccessIsExecuted
    BY DEF RedisInv, AnswerRight, RetryHides, SuccessIsExecuted, Ended
  <2>2. StoredIsListed
    BY DEF RedisInv, EndRight, StoredIsListed, Ended
  <2>3. AllIsTheHash
    <3> SUFFICES ASSUME Ended, op.kind = "hgetall", op.ok, ~op.error
                 PROVE  /\ Len(vec) = Cardinality({f \in Fields : server.hash[f] # 0})
                        /\ \A f \in Fields : server.hash[f] # 0 =>
                             \E i \in DOMAIN vec : vec[i] = [field |-> f, value |-> <<server.hash[f]>>]
      BY DEF AllIsTheHash
    <3>1. vec = IF server.hash["f"] = 0 THEN <<>>
                ELSE <<[field |-> "f", value |-> <<server.hash["f"]>>],
                       [field |-> "g", value |-> <<server.hash["g"]>>]>>
      BY DEF RedisInv, EndRight, Ended
    <3>2. server.hash["f"] = server.hash["g"]
      BY DEF RedisInv, ServerRight
    <3>3. CASE server.hash["f"] = 0
      <4>1. {f \in Fields : server.hash[f] # 0} = {}
        BY <3>2, <3>3 DEF Fields
      <4> QED BY <3>1, <3>3, <4>1, FS_EmptySet
    <3>4. CASE server.hash["f"] # 0
      <4>1. {f \in Fields : server.hash[f] # 0} = {"f"} \cup {"g"}
        BY <3>2, <3>4 DEF Fields
      <4>2. Cardinality({"f"} \cup {"g"}) = 2
        <5>1. IsFiniteSet({"f"}) /\ Cardinality({"f"}) = 1
          BY FS_Singleton
        <5> QED BY <5>1, FS_AddElement
      <4>3. Len(vec) = 2 /\ DOMAIN vec = 1..2
            /\ vec[1] = [field |-> "f", value |-> <<server.hash["f"]>>]
            /\ vec[2] = [field |-> "g", value |-> <<server.hash["g"]>>]
        BY <3>1, <3>4
      <4>4. ASSUME NEW f \in Fields
            PROVE  \E i \in DOMAIN vec : vec[i] = [field |-> f, value |-> <<server.hash[f]>>]
        <5>1. f = "f" \/ f = "g"
          BY DEF Fields
        <5>2. 1 \in DOMAIN vec /\ 2 \in DOMAIN vec
          BY <4>3
        <5> QED BY <4>3, <5>1, <5>2
      <4> QED BY <4>1, <4>2, <4>3, <4>4
    <3> QED BY <3>3, <3>4
  <2> QED BY <2>1, <2>2, <2>3 DEF CallsKept
<1> QED BY <1>1, RedisIsRight, PTL

LEMMA CutIs ==
    ASSUME NEW p \in Seq(Nat), NEW f \in Nat, NEW n \in Nat, f + n <= Len(p)
    PROVE  /\ SubSeq(p, f + 1, f + n) \in Seq(Nat)
           /\ Len(SubSeq(p, f + 1, f + n)) = n
           /\ \A i \in 1..n : SubSeq(p, f + 1, f + n)[i] = p[f + i]
<1>1. \A i \in f + 1..f + n : p[i] \in Nat
  OBVIOUS
<1>2. f + 1 \in Int /\ f + n \in Int
  OBVIOUS
<1>3. /\ SubSeq(p, f + 1, f + n) \in Seq(Nat)
      /\ Len(SubSeq(p, f + 1, f + n)) = IF f + 1 <= f + n THEN f + n - (f + 1) + 1 ELSE 0
      /\ \A i \in 1..f + n - (f + 1) + 1 : SubSeq(p, f + 1, f + n)[i] = p[f + 1 + i - 1]
  BY <1>1, <1>2, SubSeqProperties
<1>4. f + n - (f + 1) + 1 = n /\ (IF f + 1 <= f + n THEN n ELSE 0) = n
  OBVIOUS
<1>5. \A i \in 1..n : f + 1 + i - 1 = f + i
  OBVIOUS
<1> DEFINE s == SubSeq(p, f + 1, f + n)
<1> HIDE DEF s
<1>6. /\ s \in Seq(Nat)
      /\ Len(s) = n
      /\ \A i \in 1..n : s[i] = p[f + 1 + i - 1]
  BY <1>3, <1>4, Zenon DEF s
<1> QED BY <1>5, <1>6, Zenon DEF s

\* A subscriber gets what is published, in order and without a gap, as long as its connection
\* lives, whatever the caller of the other client does meanwhile (PacketSubScribe).
THEOREM SubscriberMissesNothing == SpecRedis => []NoGap
<1>1. RedisInv => NoGap
  <2> SUFFICES ASSUME RedisInv, sub.live
               PROVE  LET all == received \o sub.inbox
                      IN all = SubSeq(server.published, sub.from + 1, sub.from + Len(all))
    BY DEF NoGap
  <2> DEFINE p == server.published
             q == sub.inbox
             f == sub.from
             l == Len(received)
             all == received \o q
  <2>1. /\ p \in Seq(Nat) /\ q \in Seq(Nat) /\ f \in Nat /\ received \in Seq(Nat)
        /\ f + l + Len(q) = Len(p)
        /\ \A i \in 1..l : received[i] = p[f + i]
        /\ \A i \in 1..Len(q) : q[i] = p[f + l + i]
    BY DEF RedisInv, ServerRight, ServerRecord, SubRecord, SubRight
  <2> HIDE DEF p, q, f
  <2>2. /\ all \in Seq(Nat) /\ Len(all) = l + Len(q) /\ l \in Nat /\ Len(q) \in Nat
        /\ \A i \in 1..l : all[i] = received[i]
        /\ \A i \in l + 1..l + Len(q) : all[i] = q[i - l]
    BY <2>1
  <2> HIDE DEF all
  <2> DEFINE cut == SubSeq(p, f + 1, f + Len(all))
  <2>3. /\ cut \in Seq(Nat) /\ Len(cut) = Len(all) /\ \A i \in 1..Len(all) : cut[i] = p[f + i]
    <3>1. Len(all) \in Nat /\ f + Len(all) <= Len(p)
      BY <2>1, <2>2
    <3> QED BY <2>1, <3>1, CutIs DEF cut
  <2>4. ASSUME NEW i \in 1..Len(all) PROVE all[i] = cut[i]
    <3>1. CASE i \in 1..l
      BY <2>1, <2>2, <2>3, <3>1
    <3>2. CASE i \notin 1..l
      <4>1. i \in l + 1..l + Len(q) /\ i - l \in 1..Len(q) /\ f + l + (i - l) = f + i
        BY <2>1, <2>2, <3>2
      <4> QED BY <2>1, <2>2, <2>3, <4>1
    <3> QED BY <3>1, <3>2
  <2>5. all = cut
    BY <2>2, <2>3, <2>4, SeqEqual
  <2> QED BY <2>5 DEF all, cut, p, q, f
<1> QED BY <1>1, RedisIsRight, PTL

\* The two together: the cache's calls and its subscriber, through restarts and lost connections
\* (RedisCmd, ReConnectObj, PacketSubScribe).
THEOREM RedisTellsTruth == SpecRedis => []RedisKept
<1>1. CallsKept /\ NoGap => RedisKept
  BY DEF RedisKept
<1> QED BY <1>1, RedisCallsKept, SubscriberMissesNothing, PTL
=============================================================================
