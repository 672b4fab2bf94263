---------------------------- MODULE MsgPackProofs ----------------------------
(***************************************************************************)
(* LoopBuf is a queue of bytes that fits its array, and the reader of      *)
(* MsgPack hands out the commands of a stream in order, every byte of them *)
(* decrypted once, for any sizes of the buffer and of the pieces, and any  *)
(* commands.                                                               *)
(***************************************************************************)
EXTENDS MsgPack, WellFoundedInduction, TLAPS

-----------------------------------------------------------------------------
(* LoopBuf.                                                                 *)

\* Rounding up does not make less.
LEMMA RoundUp ==
    ASSUME NEW v \in Nat, NEW u \in Nat \ {0}
    PROVE  ROUNDNUM2(v, u) \in Nat /\ ROUNDNUM2(v, u) >= v
<1>1. v + u - 1 = u * ((v + u - 1) \div u) + ((v + u - 1) % u)
      /\ (v + u - 1) % u \in 0..(u - 1) /\ (v + u - 1) \div u \in Int
  OBVIOUS
<1> DEFINE q == (v + u - 1) \div u
<1>2. q * u = u * q /\ q * u \in Int
  BY <1>1
<1>3. q * u >= v
  BY <1>1, <1>2
<1> QED BY <1>2, <1>3 DEF ROUNDNUM2

LEMMA BufBounds == BufSize \in Nat /\ Unit \in Nat \ {0} /\ MaxResize \in Nat /\ BufSize <= MaxResize
BY LoopBufConstants

\* The next array holds what the old one can hold.
LEMMA ResizedHolds ==
    ASSUME BufTypeOK, Layout, NEW n \in Nat
    PROVE  /\ Resized(n) \in Nat /\ Resized(n) <= MaxResize
           /\ Resized(n) >= b.m_nReadLeft
           /\ n <= MaxResize - b.m_nReadLeft => Resized(n) >= b.m_nReadLeft + n
<1> DEFINE v == (b.m_nAllSize + n) + b.m_nAllSize
<1>1. /\ b.m_nAllSize \in Nat /\ b.m_nReadLeft \in Nat /\ b.m_nReadLeft <= b.m_nAllSize
      /\ b.m_nAllSize <= MaxResize /\ MaxResize \in Nat
  BY BufBounds DEF BufTypeOK, Layout
<1>2. ROUNDNUM2(v, Unit) \in Nat /\ ROUNDNUM2(v, Unit) >= v
  <2>1. v \in Nat
    BY <1>1
  <2> QED BY <2>1, RoundUp, BufBounds
<1> HIDE DEF ROUNDNUM2
<1> QED BY <1>1, <1>2 DEF Resized, Least

\* What HoldsBytes says, of a buffer q that holds the bytes t+1..p.
BufOK(q, p, t) ==
    /\ q \in [m_nAllSize : Nat, m_nPerpendLeft : Nat, m_nReadLeft : Nat, m_nWritLeft : Nat,
              m_ptrRead : Nat, m_ptrWrite : Nat, mem : [0..q.m_nAllSize - 1 -> Nat]]
    /\ q.m_ptrRead = q.m_nPerpendLeft
    /\ q.m_ptrWrite = q.m_nPerpendLeft + q.m_nReadLeft
    /\ q.m_nPerpendLeft + q.m_nReadLeft + q.m_nWritLeft = q.m_nAllSize
    /\ q.m_nAllSize <= MaxResize
    /\ t + q.m_nReadLeft = p
    /\ \A i \in 0..q.m_nReadLeft - 1 : q.mem[q.m_ptrRead + i] = t + i + 1

LEMMA HoldsIsOK == HoldsBytes <=> BufOK(b, put, taken) /\ put \in Nat /\ taken \in Nat
BY DEF HoldsBytes, BufTypeOK, Layout, Fifo, BufOK

\* A buffer is the record of its fields.
LEMMA BufIsRecord ==
    ASSUME NEW q, NEW p, NEW t, BufOK(q, p, t)
    PROVE  q = [m_nAllSize |-> q.m_nAllSize, m_nPerpendLeft |-> q.m_nPerpendLeft,
                m_nReadLeft |-> q.m_nReadLeft, m_nWritLeft |-> q.m_nWritLeft,
                m_ptrRead |-> q.m_ptrRead, m_ptrWrite |-> q.m_ptrWrite, mem |-> q.mem]
<1> DEFINE M == [0..q.m_nAllSize - 1 -> Nat]
<1>1. q \in [m_nAllSize : Nat, m_nPerpendLeft : Nat, m_nReadLeft : Nat, m_nWritLeft : Nat,
              m_ptrRead : Nat, m_ptrWrite : Nat, mem : M]
  BY DEF BufOK
<1> HIDE DEF M
<1> QED BY <1>1

\* The buffer of an array m of size A, with pp bytes in front, rd to read and wr behind.
BufOf(A, pp, rd, wr, m) ==
    [m_nAllSize |-> A, m_nPerpendLeft |-> pp, m_nReadLeft |-> rd, m_nWritLeft |-> wr,
     m_ptrRead |-> pp, m_ptrWrite |-> pp + rd, mem |-> m]

\* What such a buffer has to satisfy.
Parts(A, pp, rd, wr, m, p, t) ==
    /\ m \in [0..A - 1 -> Nat]
    /\ pp + rd + wr = A
    /\ A <= MaxResize
    /\ t + rd = p
    /\ \A i \in 0..rd - 1 : m[pp + i] = t + i + 1

LEMMA OKFromParts ==
    ASSUME NEW A \in Nat, NEW pp \in Nat, NEW rd \in Nat, NEW wr \in Nat, NEW m, NEW p, NEW t,
           Parts(A, pp, rd, wr, m, p, t)
    PROVE  BufOK(BufOf(A, pp, rd, wr, m), p, t)
<1> DEFINE q == BufOf(A, pp, rd, wr, m)
<1>1. /\ q.m_nAllSize = A /\ q.m_nPerpendLeft = pp /\ q.m_nReadLeft = rd /\ q.m_nWritLeft = wr
      /\ q.m_ptrRead = pp /\ q.m_ptrWrite = pp + rd /\ q.mem = m
  BY DEF BufOf
<1>2. pp + rd \in Nat
  OBVIOUS
<1>3. q \in [m_nAllSize : Nat, m_nPerpendLeft : Nat, m_nReadLeft : Nat, m_nWritLeft : Nat,
             m_ptrRead : Nat, m_ptrWrite : Nat, mem : [0..A - 1 -> Nat]]
  BY <1>2, Zenon DEF BufOf, Parts
<1> HIDE DEF q
<1>4. q \in [m_nAllSize : Nat, m_nPerpendLeft : Nat, m_nReadLeft : Nat, m_nWritLeft : Nat,
             m_ptrRead : Nat, m_ptrWrite : Nat, mem : [0..q.m_nAllSize - 1 -> Nat]]
  BY <1>1, <1>3, Zenon
<1> QED BY <1>1, <1>4, Zenon DEF BufOK, Parts, q

LEMMA PartsOfOK ==
    ASSUME NEW q, NEW p, NEW t, BufOK(q, p, t)
    PROVE  \E A, pp, rd, wr \in Nat, m \in [0..q.m_nAllSize - 1 -> Nat] :
              q = BufOf(A, pp, rd, wr, m) /\ Parts(A, pp, rd, wr, m, p, t)
<1> DEFINE A == q.m_nAllSize
           pp == q.m_nPerpendLeft
           rd == q.m_nReadLeft
           wr == q.m_nWritLeft
           m == q.mem
<1>1. /\ A \in Nat /\ pp \in Nat /\ rd \in Nat /\ wr \in Nat /\ m \in [0..A - 1 -> Nat]
      /\ q.m_ptrRead = pp /\ q.m_ptrWrite = pp + rd
      /\ Parts(A, pp, rd, wr, m, p, t)
  BY DEF BufOK, Parts
<1>2. q = BufOf(A, pp, rd, wr, m)
  BY <1>1, BufIsRecord, Zenon DEF BufOf
<1> QED BY <1>1, <1>2, Zenon

\* The readable bytes at the front of an array of size nAll.
LEMMA Moved ==
    ASSUME HoldsBytes, NEW nAll \in Nat, nAll <= MaxResize, b.m_nReadLeft <= nAll,
           NEW dst \in [0..nAll - 1 -> Nat], NEW q,
           q = [m_nAllSize |-> nAll, m_nPerpendLeft |-> 0, m_nReadLeft |-> b.m_nReadLeft,
                m_nWritLeft |-> nAll - b.m_nReadLeft, m_ptrRead |-> 0, m_ptrWrite |-> b.m_nReadLeft,
                mem |-> Copied(dst, 0, b.mem, b.m_ptrRead, b.m_nReadLeft)]
    PROVE  BufOK(q, put, taken)
<1>1. BufOK(b, put, taken) /\ put \in Nat /\ taken \in Nat
  BY HoldsIsOK
<1>2. /\ b.m_nAllSize \in Nat /\ b.m_nReadLeft \in Nat /\ b.m_ptrRead \in Nat
      /\ b.mem \in [0..b.m_nAllSize - 1 -> Nat] /\ b.m_ptrRead + b.m_nReadLeft <= b.m_nAllSize
      /\ taken + b.m_nReadLeft = put
      /\ \A i \in 0..b.m_nReadLeft - 1 : b.mem[b.m_ptrRead + i] = taken + i + 1
  BY <1>1, SMTT(30) DEF BufOK
<1> DEFINE m == Copied(dst, 0, b.mem, b.m_ptrRead, b.m_nReadLeft)
<1>3. m \in [0..nAll - 1 -> Nat] /\ \A k \in 0..b.m_nReadLeft - 1 : m[k] = b.mem[k + b.m_ptrRead]
  <2> DEFINE B == b.m_nAllSize
             src == b.mem
             j == b.m_ptrRead
             n == b.m_nReadLeft
  <2>1. B \in Nat /\ src \in [0..B - 1 -> Nat] /\ j \in Nat /\ n \in Nat /\ n <= nAll /\ j + n <= B
    BY <1>2
  <2> HIDE DEF B, src, j, n
  <2>2. /\ Copied(dst, 0, src, j, n) \in [0..nAll - 1 -> Nat]
        /\ \A k \in 0..n - 1 : Copied(dst, 0, src, j, n)[k] = src[k + j]
    <3>1. \A k \in 0..n - 1 : k \in 0..nAll - 1 /\ k - 0 + j \in 0..B - 1 /\ k - 0 + j = k + j
                                /\ k >= 0 /\ k < 0 + n
      BY <2>1
    <3>2. \A k \in 0..nAll - 1 : k >= 0 /\ k < 0 + n => k \in 0..n - 1
      BY <2>1
    <3>3. DOMAIN dst = 0..nAll - 1 /\ (\A k \in 0..nAll - 1 : dst[k] \in Nat) /\ (\A k \in 0..B - 1 : src[k] \in Nat)
      BY <2>1
    <3> QED BY <3>1, <3>2, <3>3 DEF Copied
  <2> QED BY <2>2 DEF B, src, j, n
<1> HIDE DEF m
<1>4. ASSUME NEW k \in 0..b.m_nReadLeft - 1 PROVE m[0 + k] = taken + k + 1
  <2>1. k + b.m_ptrRead = b.m_ptrRead + k /\ 0 + k = k
    BY <1>2
  <2> QED BY <1>2, <1>3, <2>1
<1>5. q = [m_nAllSize |-> nAll, m_nPerpendLeft |-> 0, m_nReadLeft |-> b.m_nReadLeft,
           m_nWritLeft |-> nAll - b.m_nReadLeft, m_ptrRead |-> 0, m_ptrWrite |-> b.m_nReadLeft,
           mem |-> m]
  BY Zenon DEF m
<1> DEFINE rd == b.m_nReadLeft
<1>6. /\ q = [m_nAllSize |-> nAll, m_nPerpendLeft |-> 0, m_nReadLeft |-> rd, m_nWritLeft |-> nAll - rd,
              m_ptrRead |-> 0, m_ptrWrite |-> rd, mem |-> m]
      /\ rd \in Nat /\ rd <= nAll /\ taken + rd = put /\ m \in [0..nAll - 1 -> Nat]
      /\ \A i \in 0..rd - 1 : m[0 + i] = taken + i + 1
  BY <1>2, <1>3, <1>4, <1>5
<1> HIDE DEF rd
<1>7. /\ q.m_nAllSize = nAll /\ q.m_nPerpendLeft = 0 /\ q.m_nReadLeft = rd /\ q.m_nWritLeft = nAll - rd
      /\ q.m_ptrRead = 0 /\ q.m_ptrWrite = rd /\ q.mem = m
  BY <1>6
<1>8. nAll - rd \in Nat /\ rd \in Nat /\ 0 \in Nat /\ 0 + rd = rd /\ 0 + rd + (nAll - rd) = nAll
  BY <1>6
<1>9. q \in [m_nAllSize : Nat, m_nPerpendLeft : Nat, m_nReadLeft : Nat, m_nWritLeft : Nat,
             m_ptrRead : Nat, m_ptrWrite : Nat, mem : [0..q.m_nAllSize - 1 -> Nat]]
  BY <1>6, <1>7, <1>8, Zenon
<1> QED BY <1>6, <1>7, <1>8, <1>9 DEF BufOK

LEMMA RestructuringKeeps ==
    ASSUME HoldsBytes
    PROVE  BufOK(RestructuringData, put, taken)
           /\ RestructuringData.m_nWritLeft = b.m_nAllSize - b.m_nReadLeft
<1>1. BufOK(b, put, taken)
  BY HoldsIsOK
<1>2. RestructuringData = [m_nAllSize |-> b.m_nAllSize, m_nPerpendLeft |-> 0, m_nReadLeft |-> b.m_nReadLeft,
                m_nWritLeft |-> b.m_nAllSize - b.m_nReadLeft, m_ptrRead |-> 0, m_ptrWrite |-> b.m_nReadLeft,
                mem |-> Copied(b.mem, 0, b.mem, b.m_ptrRead, b.m_nReadLeft)]
  <2> DEFINE c == Copied(b.mem, 0, b.mem, b.m_ptrRead, b.m_nReadLeft)
  <2> HIDE DEF c
  <2>1. RestructuringData = [b EXCEPT !.mem = c, !.m_ptrRead = 0, !.m_ptrWrite = b.m_nReadLeft,
                             !.m_nPerpendLeft = 0, !.m_nWritLeft = b.m_nAllSize - b.m_nReadLeft]
    BY Zenon DEF RestructuringData, c
  <2>2. b = [m_nAllSize |-> b.m_nAllSize, m_nPerpendLeft |-> b.m_nPerpendLeft, m_nReadLeft |-> b.m_nReadLeft,
             m_nWritLeft |-> b.m_nWritLeft, m_ptrRead |-> b.m_ptrRead, m_ptrWrite |-> b.m_ptrWrite,
             mem |-> b.mem]
    BY <1>1, BufIsRecord
  <2> QED BY <2>1, <2>2 DEF c
<1>3. /\ b.m_nAllSize \in Nat /\ b.m_nAllSize <= MaxResize /\ b.m_nReadLeft <= b.m_nAllSize
      /\ b.mem \in [0..b.m_nAllSize - 1 -> Nat]
  BY <1>1 DEF BufOK
<1>4. BufOK(RestructuringData, put, taken)
  BY <1>2, <1>3, Moved
<1> QED BY <1>2, <1>4

LEMMA ResizeKeeps ==
    ASSUME HoldsBytes, NEW n \in Nat
    PROVE  BufOK(resizeNewAllData(n), put, taken)
           /\ resizeNewAllData(n).m_nWritLeft = Resized(n) - b.m_nReadLeft
<1>1. /\ Resized(n) \in Nat /\ Resized(n) <= MaxResize /\ b.m_nReadLeft <= Resized(n)
  BY ResizedHolds DEF HoldsBytes
<1>2. NewArray(Resized(n)) \in [0..Resized(n) - 1 -> Nat]
  BY DEF NewArray
<1>3. BufOK(resizeNewAllData(n), put, taken)
  BY <1>1, <1>2, Moved DEF resizeNewAllData
<1> QED BY <1>3 DEF resizeNewAllData

\* The buffer putData writes to.
Fitting(n) ==
    IF b.m_nWritLeft >= n THEN b
    ELSE IF b.m_nWritLeft + b.m_nPerpendLeft > n * 2 THEN RestructuringData
    ELSE resizeNewAllData(n)

LEMMA FittingKeeps ==
    ASSUME HoldsBytes, NEW n \in Nat
    PROVE  /\ BufOK(Fitting(n), put, taken)
           /\ n <= MaxResize - b.m_nReadLeft => Fitting(n).m_nWritLeft >= n
<1>1. BufOK(b, put, taken)
  BY HoldsIsOK
<1>2. /\ b.m_nAllSize \in Nat /\ b.m_nReadLeft \in Nat /\ b.m_nWritLeft \in Nat /\ b.m_nPerpendLeft \in Nat
      /\ b.m_nPerpendLeft + b.m_nReadLeft + b.m_nWritLeft = b.m_nAllSize
  BY <1>1 DEF BufOK
<1>3. CASE b.m_nWritLeft >= n
  BY <1>1, <1>3 DEF Fitting
<1>4. CASE b.m_nWritLeft < n /\ b.m_nWritLeft + b.m_nPerpendLeft > n * 2
  <2>1. Fitting(n) = RestructuringData
    BY <1>2, <1>4 DEF Fitting
  <2> QED BY <1>2, <1>4, <2>1, RestructuringKeeps
<1>5. CASE b.m_nWritLeft < n /\ ~(b.m_nWritLeft + b.m_nPerpendLeft > n * 2)
  <2>1. Fitting(n) = resizeNewAllData(n)
    BY <1>2, <1>5 DEF Fitting
  <2>2. /\ Resized(n) \in Nat
        /\ n <= MaxResize - b.m_nReadLeft => Resized(n) >= b.m_nReadLeft + n
    BY ResizedHolds DEF HoldsBytes
  <2>3. /\ BufOK(resizeNewAllData(n), put, taken)
        /\ resizeNewAllData(n).m_nWritLeft = Resized(n) - b.m_nReadLeft
    BY ResizeKeeps
  <2>4. n <= MaxResize - b.m_nReadLeft => Fitting(n).m_nWritLeft >= n
    <3> DEFINE wl == resizeNewAllData(n).m_nWritLeft
               rd == b.m_nReadLeft
               rs == Resized(n)
    <3>1. wl = rs - rd /\ rs \in Nat /\ rd \in Nat /\ MaxResize \in Nat
          /\ (n <= MaxResize - rd => rs >= rd + n)
      BY <1>2, <2>2, <2>3, BufBounds
    <3> HIDE DEF wl, rd, rs
    <3>2. n <= MaxResize - rd => wl >= n
      BY <3>1
    <3> QED BY <2>1, <3>2 DEF wl, rd
  <2> QED BY <2>1, <2>3, <2>4
<1> QED BY <1>2, <1>3, <1>4, <1>5

\* putData in these words.
LEMMA PutDataIs ==
    ASSUME NEW n \in Nat, putData(n)
    PROVE  /\ taken' = taken
           /\ Fitting(n).m_nWritLeft < n => b' = Fitting(n) /\ put' = put
           /\ ~(Fitting(n).m_nWritLeft < n) =>
                /\ b' = [Fitting(n) EXCEPT
                           !.mem = Copied(@, Fitting(n).m_ptrWrite, [k \in 1..n |-> put + k], 1, n),
                           !.m_ptrWrite = @ + n, !.m_nWritLeft = @ - n, !.m_nReadLeft = @ + n]
                /\ put' = put + n
BY Zenon DEF putData, Fitting

\* n bytes, numbered from p + 1, written behind the readable ones.
LEMMA Appended ==
    ASSUME NEW A \in Nat, NEW pp \in Nat, NEW rd \in Nat, NEW wr \in Nat, NEW m, NEW p \in Nat,
           NEW t \in Nat, Parts(A, pp, rd, wr, m, p, t), NEW n \in Nat, n <= wr
    PROVE  Parts(A, pp, rd + n, wr - n, Copied(m, pp + rd, [k \in 1..n |-> p + k], 1, n), p + n, t)
<1> DEFINE new == [k \in 1..n |-> p + k]
           c == Copied(m, pp + rd, new, 1, n)
<1>1. /\ m \in [0..A - 1 -> Nat] /\ pp + rd + wr = A /\ A <= MaxResize /\ t + rd = p
      /\ \A i \in 0..rd - 1 : m[pp + i] = t + i + 1
  BY DEF Parts
<1>2. /\ DOMAIN c = 0..A - 1
      /\ \A k \in 0..A - 1 : c[k] = IF k >= pp + rd /\ k < pp + rd + n THEN new[k - (pp + rd) + 1] ELSE m[k]
  BY <1>1 DEF Copied
<1>3. \A k \in 0..A - 1 : k >= pp + rd /\ k < pp + rd + n =>
         k - (pp + rd) + 1 \in 1..n /\ new[k - (pp + rd) + 1] = p + (k - (pp + rd) + 1)
  OBVIOUS
<1>4. c = [k \in 0..A - 1 |-> c[k]]
  BY <1>1 DEF Copied
<1> HIDE DEF c, new
<1>5. /\ \A k \in 0..A - 1 : k >= pp + rd /\ k < pp + rd + n => c[k] = p + (k - (pp + rd) + 1)
      /\ \A k \in 0..A - 1 : ~(k >= pp + rd /\ k < pp + rd + n) => c[k] = m[k]
  <2>1. ASSUME NEW k \in 0..A - 1, k >= pp + rd /\ k < pp + rd + n PROVE c[k] = p + (k - (pp + rd) + 1)
    <3>1. c[k] = new[k - (pp + rd) + 1]
      BY <1>2, <2>1, Zenon
    <3>2. new[k - (pp + rd) + 1] = p + (k - (pp + rd) + 1)
      BY <1>3, <2>1, Zenon
    <3> QED BY <3>1, <3>2, Zenon
  <2>2. ASSUME NEW k \in 0..A - 1, ~(k >= pp + rd /\ k < pp + rd + n) PROVE c[k] = m[k]
    BY <1>2, <2>2, Zenon
  <2> QED BY <2>1, <2>2, Zenon
<1>6. \A i \in 0..rd + n - 1 : c[pp + i] = t + i + 1
  <2> SUFFICES ASSUME NEW i \in 0..rd + n - 1 PROVE c[pp + i] = t + i + 1
    OBVIOUS
  <2>1. pp + i \in 0..A - 1
    BY <1>1
  <2>2. CASE i < rd
    <3>1. c[pp + i] = m[pp + i] /\ i \in 0..rd - 1
      BY <1>5, <2>1, <2>2
    <3> QED BY <1>1, <3>1
  <2>3. CASE ~(i < rd)
    <3>1. c[pp + i] = p + ((pp + i) - (pp + rd) + 1)
      BY <1>5, <2>1, <2>3
    <3> QED BY <1>1, <3>1
  <2> QED BY <2>2, <2>3
<1>7. c \in [0..A - 1 -> Nat]
  <2>1. \A k \in 0..A - 1 : c[k] \in Nat
    <3> SUFFICES ASSUME NEW k \in 0..A - 1 PROVE c[k] \in Nat
      OBVIOUS
    <3>1. CASE k >= pp + rd /\ k < pp + rd + n
      BY <1>5, <3>1
    <3>2. CASE ~(k >= pp + rd /\ k < pp + rd + n)
      BY <1>1, <1>5, <3>2
    <3> QED BY <3>1, <3>2
  <2> QED BY <1>4, <2>1
<1>8. pp + (rd + n) + (wr - n) = A /\ t + (rd + n) = p + n
  BY <1>1
<1>9. Parts(A, pp, rd + n, wr - n, c, p + n, t)
  BY <1>1, <1>6, <1>7, <1>8 DEF Parts
<1> QED BY <1>9 DEF c, new

LEMMA PutKeeps ==
    ASSUME HoldsBytes, NEW n \in Nat, putData(n)
    PROVE  HoldsBytes' /\ taken' = taken /\ put' \in {put, put + n}
<1> DEFINE q == Fitting(n)
<1>1. BufOK(q, put, taken) /\ put \in Nat /\ taken \in Nat
  BY FittingKeeps, HoldsIsOK
<1>2. CASE q.m_nWritLeft < n
  <2>1. b' = q /\ put' = put /\ taken' = taken
    BY <1>2, PutDataIs, Zenon
  <2>2. BufOK(b', put', taken') /\ put' \in Nat /\ taken' \in Nat
    BY <1>1, <2>1
  <2> QED BY <2>1, <2>2 DEF HoldsBytes, BufTypeOK, Layout, Fifo, BufOK
<1>3. CASE ~(q.m_nWritLeft < n)
  <2> DEFINE new == [k \in 1..n |-> put + k]
  <2>1. /\ b' = [q EXCEPT !.mem = Copied(@, q.m_ptrWrite, new, 1, n),
                           !.m_ptrWrite = @ + n, !.m_nWritLeft = @ - n, !.m_nReadLeft = @ + n]
        /\ put' = put + n /\ taken' = taken
    BY <1>3, PutDataIs, Zenon
  <2> HIDE DEF q, new
  <2>2. PICK A, pp, rd, wr \in Nat, m \in [0..q.m_nAllSize - 1 -> Nat] :
           q = BufOf(A, pp, rd, wr, m) /\ Parts(A, pp, rd, wr, m, put, taken)
    BY <1>1, PartsOfOK
  <2> DEFINE c == Copied(m, pp + rd, new, 1, n)
  <2>3. wr >= n
    BY <1>3, <2>2 DEF BufOf
  <2>4. rd + n \in Nat /\ wr - n \in Nat /\ pp + (rd + n) = (pp + rd) + n
    BY <2>3
  <2>5. q.mem = m /\ q.m_ptrWrite = pp + rd
    BY <2>2 DEF BufOf
  <2>6. b' = [q EXCEPT !.mem = c, !.m_ptrWrite = @ + n, !.m_nWritLeft = @ - n, !.m_nReadLeft = @ + n]
    BY <2>1, <2>5
  <2>7. Parts(A, pp, rd + n, wr - n, c, put + n, taken)
    BY <1>1, <2>2, <2>3, Appended DEF new
  <2> HIDE DEF c
  <2>8. b' = BufOf(A, pp, rd + n, wr - n, c)
    BY <2>2, <2>4, <2>6 DEF BufOf
  <2>9. BufOK(b', put', taken')
    <3>1. BufOK(BufOf(A, pp, rd + n, wr - n, c), put + n, taken)
      BY <2>4, <2>7, OKFromParts
    <3> QED BY <2>1, <2>8, <3>1, Zenon
  <2>10. put' \in Nat /\ taken' \in Nat
    BY <1>1, <2>1
  <2> QED BY <2>1, <2>9, <2>10 DEF HoldsBytes, BufTypeOK, Layout, Fifo, BufOK
<1> QED BY <1>2, <1>3

LEMMA TakeKeeps ==
    ASSUME HoldsBytes, NEW n \in Nat, setReadPtr(n)
    PROVE  /\ HoldsBytes' /\ put' = put
           /\ taken' = taken + (IF b.m_nReadLeft <= n THEN b.m_nReadLeft ELSE n)
<1>1. BufOK(b, put, taken) /\ put \in Nat /\ taken \in Nat
  BY HoldsIsOK
<1>2. PICK A, pp, rd, wr \in Nat, m \in [0..b.m_nAllSize - 1 -> Nat] :
         b = BufOf(A, pp, rd, wr, m) /\ Parts(A, pp, rd, wr, m, put, taken)
  BY <1>1, PartsOfOK
<1>3. b.m_nReadLeft = rd /\ b.m_nAllSize = A
  BY <1>2 DEF BufOf
<1>4. /\ m \in [0..A - 1 -> Nat] /\ pp + rd + wr = A /\ A <= MaxResize /\ taken + rd = put
      /\ \A i \in 0..rd - 1 : m[pp + i] = taken + i + 1
  BY <1>2 DEF Parts
<1>5. CASE rd <= n
  <2>1. b' = BufOf(A, 0, 0, A, m) /\ taken' = taken + rd /\ put' = put
    <3>1. b' = [b EXCEPT !.m_ptrRead = 0, !.m_ptrWrite = 0, !.m_nReadLeft = 0,
                         !.m_nWritLeft = A, !.m_nPerpendLeft = 0]
          /\ taken' = taken + rd /\ put' = put
      BY <1>3, <1>5 DEF setReadPtr
    <3>2. b' = [m_nAllSize |-> A, m_nPerpendLeft |-> 0, m_nReadLeft |-> 0, m_nWritLeft |-> A,
                m_ptrRead |-> 0, m_ptrWrite |-> 0, mem |-> m]
      BY <1>2, <3>1 DEF BufOf
    <3>3. 0 + 0 = 0
      OBVIOUS
    <3> QED BY <3>1, <3>2, <3>3, Zenon DEF BufOf
  <2>2. Parts(A, 0, 0, A, m, put, taken + rd)
    BY <1>1, <1>4 DEF Parts
  <2>3. BufOK(BufOf(A, 0, 0, A, m), put, taken + rd)
    BY <2>2, OKFromParts
  <2>4. BufOK(b', put', taken')
    BY <2>1, <2>3, Zenon
  <2>5. put' \in Nat /\ taken' \in Nat
    BY <1>1, <2>1
  <2> QED BY <1>3, <1>5, <2>1, <2>4, <2>5 DEF HoldsBytes, BufTypeOK, Layout, Fifo, BufOK
<1>6. CASE ~(rd <= n)
  <2>1. b' = BufOf(A, pp + n, rd - n, wr, m) /\ taken' = taken + n /\ put' = put
    <3>1. b' = [b EXCEPT !.m_ptrRead = @ + n, !.m_nPerpendLeft = @ + n, !.m_nReadLeft = @ - n]
          /\ taken' = taken + n /\ put' = put
      BY <1>3, <1>6 DEF setReadPtr
    <3>2. (pp + n) + (rd - n) = pp + rd
      OBVIOUS
    <3>3. b' = [m_nAllSize |-> A, m_nPerpendLeft |-> pp + n, m_nReadLeft |-> rd - n, m_nWritLeft |-> wr,
                m_ptrRead |-> pp + n, m_ptrWrite |-> pp + rd, mem |-> m]
      BY <1>2, <3>1 DEF BufOf
    <3> QED BY <3>1, <3>2, <3>3, Zenon DEF BufOf
  <2>2. Parts(A, pp + n, rd - n, wr, m, put, taken + n)
    <3> SUFFICES ASSUME NEW i \in 0..(rd - n) - 1 PROVE m[(pp + n) + i] = (taken + n) + i + 1
      BY <1>1, <1>4 DEF Parts
    <3>1. n + i \in 0..rd - 1 /\ (pp + n) + i = pp + (n + i) /\ taken + (n + i) + 1 = (taken + n) + i + 1
      BY <1>1, <1>6
    <3> QED BY <1>4, <3>1
  <2>3. BufOK(BufOf(A, pp + n, rd - n, wr, m), put, taken + n)
    BY <1>6, <2>2, OKFromParts
  <2>4. BufOK(b', put', taken')
    BY <2>1, <2>3, Zenon
  <2>5. put' \in Nat /\ taken' \in Nat
    BY <1>1, <2>1
  <2> QED BY <1>3, <1>6, <2>1, <2>4, <2>5 DEF HoldsBytes, BufTypeOK, Layout, Fifo, BufOK
<1> QED BY <1>5, <1>6

LEMMA BufInit == InitBuf => HoldsBytes
<1> SUFFICES ASSUME InitBuf PROVE HoldsBytes
  OBVIOUS
<1>1. b = NewBuf /\ put = 0 /\ taken = 0
  BY DEF InitBuf
<1>2. NewArray(BufSize) \in [0..BufSize - 1 -> Nat]
  BY DEF NewArray
<1> QED BY <1>1, <1>2, BufBounds DEF NewBuf, HoldsBytes, BufTypeOK, Layout, Fifo

LEMMA BufStays == HoldsBytes /\ UNCHANGED bufVars => HoldsBytes'
BY DEF HoldsBytes, BufTypeOK, Layout, Fifo, bufVars

\* A LoopBuf is a queue of bytes that fits its array, for any sizes of the array, its unit and its
\* limit, and any lengths that are put and taken (putData, setReadPtr).
THEOREM BufferHoldsBytes == SpecBuf => []HoldsBytes
<1>1. HoldsBytes /\ [NextBuf]_bufVars => HoldsBytes'
  <2> SUFFICES ASSUME HoldsBytes, [NextBuf]_bufVars PROVE HoldsBytes'
    OBVIOUS
  <2>1. CASE UNCHANGED bufVars
    BY <2>1, BufStays
  <2>2. ASSUME NEW n \in Nat \ {0}, putData(n) PROVE HoldsBytes'
    BY <2>2, PutKeeps
  <2>3. ASSUME NEW n \in Nat \ {0}, setReadPtr(n) PROVE HoldsBytes'
    BY <2>3, TakeKeeps
  <2> QED BY <2>1, <2>2, <2>3 DEF NextBuf
<1> QED BY <1>1, BufInit, PTL DEF SpecBuf

\* Bytes are refused only when they do not fit in the largest array: there is always room to be
\* made for what fits, by a move or a larger array (RestructuringData, resizeNewAllData).
THEOREM BufferTakesWhatFits == SpecBuf => TakesAll
<1>1. HoldsBytes => TakesWhatFits
  <2> SUFFICES ASSUME HoldsBytes, NEW n \in 1..MaxResize - b.m_nReadLeft, putData(n)
               PROVE  put' = put + n
    BY DEF TakesWhatFits
  <2>1. n \in Nat /\ b.m_nReadLeft \in Nat /\ n <= MaxResize - b.m_nReadLeft
    BY BufBounds DEF HoldsBytes, BufTypeOK
  <2>2. Fitting(n).m_nWritLeft >= n /\ Fitting(n).m_nWritLeft \in Nat
    <3>1. BufOK(Fitting(n), put, taken) /\ Fitting(n).m_nWritLeft >= n
      BY <2>1, FittingKeeps
    <3> QED BY <3>1 DEF BufOK
  <2>3. ~(Fitting(n).m_nWritLeft < n)
    BY <2>1, <2>2
  <2> QED BY <2>1, <2>3, PutDataIs, Zenon
<1>2. HoldsBytes /\ [NextBuf]_bufVars => [b' # b => TakesWhatFits]_bufVars
  BY <1>1
<1> QED BY <1>2, BufferHoldsBytes, PTL DEF SpecBuf, TakesAll

\* The two together: what a LoopBuf promises those who put bytes in and take them out (putData,
\* setReadPtr).
THEOREM BufferIsQueue == SpecBuf => BufferKept
<1>1. HoldsBytes /\ HoldsBytes' /\ [b' # b => TakesWhatFits]_bufVars
        => [HoldsBytes /\ HoldsBytes' /\ (b' # b => TakesWhatFits)]_bufVars
  OBVIOUS
<1> QED BY <1>1, BufferHoldsBytes, BufferTakesWhatFits, PTL DEF BufferKept, TakesAll

-----------------------------------------------------------------------------
(* The packets of a stream.                                                 *)

LEMMA LeastOfNats ==
    ASSUME NEW T, T \subseteq Nat, T # {}
    PROVE  \E k \in T : \A j \in T : ~(j < k)
<1>1. PICK k \in T : \A j \in T : ~(<<j, k>> \in OpToRel(<, Nat))
  BY NatLessThanWellFounded, WFMin
<1> QED BY <1>1 DEF OpToRel

\* The partial sums of any lengths d are a function: the recursive definition of StartOf has a
\* solution.
LEMMA SumsExist ==
    ASSUME NEW d, NEW n \in Nat
    PROVE  \E f : f = [k \in 1..n + 1 |-> IF k = 1 THEN 1 ELSE f[k - 1] + d[k - 1]]
<1> DEFINE Sums(m, f) == f = [k \in 1..m + 1 |-> IF k = 1 THEN 1 ELSE f[k - 1] + d[k - 1]]
           Bad == {m \in Nat : ~\E f : Sums(m, f)}
<1>1. SUFFICES ASSUME Bad # {} PROVE FALSE
  OBVIOUS
<1>2. PICK m \in Bad : \A j \in Bad : ~(j < m)
  BY <1>1, LeastOfNats
<1>3. CASE m = 0
  <2>1. Sums(0, [k \in 1..0 + 1 |-> 1])
    OBVIOUS
  <2> QED BY <1>3, <2>1
<1>4. CASE m # 0
  <2>1. m - 1 \in Nat /\ m - 1 < m /\ (m - 1) + 1 = m /\ m \in Nat
    BY <1>4
  <2>2. PICK f : Sums(m - 1, f)
    BY <1>2, <2>1
  <2>3. DOMAIN f = 1..m /\ \A k \in 1..m : f[k] = IF k = 1 THEN 1 ELSE f[k - 1] + d[k - 1]
    BY <2>1, <2>2
  <2> DEFINE g == [k \in 1..m + 1 |-> IF k = m + 1 THEN f[m] + d[m] ELSE f[k]]
  <2>4. ASSUME NEW k \in 1..m + 1
        PROVE  g[k] = IF k = 1 THEN 1 ELSE g[k - 1] + d[k - 1]
    <3>1. CASE k = m + 1
      <4>1. g[k] = f[m] + d[m] /\ k # 1 /\ k - 1 = m /\ m \in 1..m + 1 /\ m # m + 1
        BY <2>1, <3>1
      <4>2. g[m] = f[m]
        BY <4>1
      <4> QED BY <4>1, <4>2
    <3>2. CASE k # m + 1 /\ k = 1
      BY <2>1, <2>3, <3>2
    <3>3. CASE k # m + 1 /\ k # 1
      <4>1. k \in 1..m /\ k - 1 \in 1..m + 1 /\ k - 1 # m + 1
        BY <2>1, <3>3
      <4>2. g[k] = f[k] /\ g[k - 1] = f[k - 1]
        BY <3>3, <4>1
      <4> QED BY <2>3, <3>3, <4>1, <4>2
    <3> QED BY <3>1, <3>2, <3>3
  <2>5. Sums(m, g)
    <3>1. g = [k \in 1..m + 1 |-> g[k]]
      OBVIOUS
    <3> HIDE DEF g
    <3> QED BY <2>4, <3>1
  <2> HIDE DEF Sums
  <2> QED BY <2>5
<1> QED BY <1>3, <1>4

LEMMA StartOfIs ==
    StartOf = [k \in 1..NumCmds + 1 |-> IF k = 1 THEN 1 ELSE StartOf[k - 1] + packetbuf(Commands[k - 1])]
<1> DEFINE d == [k \in 1..NumCmds |-> packetbuf(Commands[k])]
           Rec(f) == f = [k \in 1..NumCmds + 1 |-> IF k = 1 THEN 1 ELSE f[k - 1] + packetbuf(Commands[k - 1])]
<1>1. NumCmds \in Nat
  BY MsgConstants
<1>2. PICK f : f = [k \in 1..NumCmds + 1 |-> IF k = 1 THEN 1 ELSE f[k - 1] + d[k - 1]]
  BY <1>1, SumsExist
<1>3. \A k \in 1..NumCmds + 1 : k # 1 => k - 1 \in 1..NumCmds
  BY <1>1
<1>4. \A k \in 1..NumCmds + 1 : k # 1 => d[k - 1] = packetbuf(Commands[k - 1])
  BY <1>3
<1> HIDE DEF d
<1>5. Rec(f)
  BY <1>2, <1>4
<1>6. Rec(CHOOSE g : Rec(g))
  BY <1>5, Zenon
<1> QED BY <1>6, Zenon DEF StartOf

LEMMA RoundUpBlock ==
    ASSUME NEW v \in Nat \ {0}
    PROVE  /\ ROUNDNUM2(v, Block) \in Nat /\ ROUNDNUM2(v, Block) >= v /\ ROUNDNUM2(v, Block) >= Block
           /\ ROUNDNUM2(v, Block) % Block = 0
           /\ \A d \in Nat : d % Block = 0 /\ v <= d => ROUNDNUM2(v, Block) <= d
<1>1. ROUNDNUM2(v, Block) = ((v + 7) \div 8) * 8
  BY DEF ROUNDNUM2, Block
<1>2. /\ ((v + 7) \div 8) * 8 \in Nat /\ ((v + 7) \div 8) * 8 >= v /\ ((v + 7) \div 8) * 8 >= 8
      /\ (((v + 7) \div 8) * 8) % 8 = 0
  OBVIOUS
<1>3. ASSUME NEW d \in Nat, d % 8 = 0, v <= d PROVE ((v + 7) \div 8) * 8 <= d
  BY <1>3
<1> QED BY <1>1, <1>2, <1>3 DEF Block

\* A packet on the line: whole blocks that hold the header and the data.
LEMMA PacketSize ==
    ASSUME NEW c \in Kinds
    PROVE  /\ getpacketsize(c) \in Nat \ {0} /\ packetbuf(c) = PacketStep(c)
           /\ PacketStep(c) \in Nat /\ PacketStep(c) >= getpacketsize(c) /\ PacketStep(c) >= Block
           /\ \A d \in Nat : d % Block = 0 /\ getpacketsize(c) <= d => PacketStep(c) <= d
<1>1. c.size \in Nat \ {0} /\ c.packed \in Nat
  BY MsgConstants
<1> DEFINE s == c.size
           k == c.packed
<1>2. s \in Nat \ {0} /\ k \in Nat
  BY <1>1
<1> HIDE DEF s, k
<1>3. getpacketsize(c) = (IF k > 0 THEN k ELSE s) + 6 + (IF k > 0 THEN 4 ELSE 0)
  BY DEF getpacketsize, SizeField, iscompress, HdrSize, CmdLenSize, s, k
<1>4. getpacketsize(c) \in Nat \ {0}
  BY <1>2, <1>3
<1> QED BY <1>4, RoundUpBlock DEF packetbuf, PacketStep

Cmds == Commands \in [1..NumCmds -> Kinds]

\* The places of the packets in the stream grow with their number.
LEMMA StartOfGrows ==
    ASSUME Cmds
    PROVE  /\ StartOf[1] = 1
           /\ \A k \in 1..NumCmds + 1 : StartOf[k] \in Nat
           /\ \A k \in 1..NumCmds : StartOf[k + 1] = StartOf[k] + PacketStep(Commands[k])
           /\ \A k \in 1..NumCmds + 1 : \A j \in 1..k - 1 : StartOf[j] < StartOf[k]
<1>1. NumCmds \in Nat
  BY MsgConstants
<1>2. \A k \in 1..NumCmds : Commands[k] \in Kinds
  BY DEF Cmds
<1>3. \A k \in 1..NumCmds : packetbuf(Commands[k]) = PacketStep(Commands[k])
                             /\ PacketStep(Commands[k]) \in Nat /\ PacketStep(Commands[k]) > 0
  BY <1>2, PacketSize DEF Block
<1> DEFINE s == StartOf
           w == [k \in 1..NumCmds |-> PacketStep(Commands[k])]
<1>4. /\ s = [k \in 1..NumCmds + 1 |-> IF k = 1 THEN 1 ELSE s[k - 1] + packetbuf(Commands[k - 1])]
      /\ \A k \in 1..NumCmds : w[k] = PacketStep(Commands[k]) /\ w[k] = packetbuf(Commands[k])
                               /\ w[k] \in Nat /\ w[k] > 0
  BY <1>3, StartOfIs
<1> HIDE DEF s, w
<1>5. s[1] = 1
  BY <1>1, <1>4
<1>6. \A k \in 1..NumCmds : s[k + 1] = s[k] + w[k]
  <2> SUFFICES ASSUME NEW k \in 1..NumCmds PROVE s[k + 1] = s[k] + w[k]
    OBVIOUS
  <2>1. k + 1 \in 1..NumCmds + 1 /\ k + 1 # 1 /\ (k + 1) - 1 = k
    BY <1>1
  <2>2. \A i \in 1..NumCmds + 1 : s[i] = IF i = 1 THEN 1 ELSE s[i - 1] + packetbuf(Commands[i - 1])
    BY <1>4, Zenon
  <2>3. s[k + 1] = s[(k + 1) - 1] + packetbuf(Commands[(k + 1) - 1])
    BY <2>1, <2>2, Zenon
  <2>4. s[k + 1] = s[k] + packetbuf(Commands[k])
    BY <2>1, <2>3, Zenon
  <2> QED BY <1>4, <2>4, Zenon
<1> DEFINE Good(k) == s[k] \in Nat /\ \A j \in 1..k - 1 : s[j] < s[k]
           Bad == {k \in 1..NumCmds + 1 : ~Good(k)}
<1>7. ASSUME Bad # {} PROVE FALSE
  <2>1. PICK k \in Bad : \A j \in Bad : ~(j < k)
    <3>1. Bad \subseteq Nat /\ Bad # {}
      BY <1>1, <1>7
    <3> HIDE DEF Bad
    <3> QED BY <3>1, LeastOfNats
  <2>2. k # 1
    BY <1>5, <2>1
  <2> DEFINE i == k - 1
  <2>3. i \in 1..NumCmds /\ i + 1 = k /\ i < k /\ i \in 1..NumCmds + 1
    BY <1>1, <2>1, <2>2
  <2>4. s[i] \in Nat /\ \A j \in 1..i - 1 : s[j] < s[i]
    BY <2>1, <2>3
  <2>5. s[k] = s[i] + w[i] /\ w[i] \in Nat /\ w[i] > 0
    BY <1>4, <1>6, <2>3
  <2>6. ASSUME NEW j \in 1..k - 1 PROVE s[j] < s[k]
    <3>1. CASE j = i
      BY <2>4, <2>5, <3>1
    <3>2. CASE j # i
      <4>1. j \in 1..i - 1 /\ j \in 1..NumCmds + 1 /\ j < k /\ j \in Nat
        BY <1>1, <2>3, <3>2
      <4>2. s[j] \in Nat /\ s[j] < s[i]
        BY <2>1, <2>4, <4>1
      <4> QED BY <2>4, <2>5, <4>2
    <3> QED BY <3>1, <3>2
  <2>7. s[k] \in Nat
    BY <2>4, <2>5
  <2> QED BY <2>1, <2>6, <2>7
<1>8. \A k \in 1..NumCmds + 1 : s[k] \in Nat /\ \A j \in 1..k - 1 : s[j] < s[k]
  BY <1>7
<1> QED BY <1>4, <1>5, <1>6, <1>8 DEF s

\* The reader's place in the stream is the packet after those handed out.
LEMMA AtFirstPacket ==
    ASSUME HoldsBytes, Cmds, put <= StreamLen, NEW n \in Nat, n <= NumCmds,
           taken + 1 = StartOf[n + 1], b.m_nReadLeft > 0
    PROVE  n + 1 \in 1..NumCmds /\ FirstPacket = n + 1
<1>1. NumCmds \in Nat
  BY MsgConstants
<1>2. /\ b.m_nReadLeft \in Nat /\ taken \in Nat /\ put \in Nat /\ taken + b.m_nReadLeft = put
      /\ b.m_ptrRead \in Nat
      /\ \A i \in 0..b.m_nReadLeft - 1 : b.mem[b.m_ptrRead + i] = taken + i + 1
  BY HoldsIsOK DEF BufOK
<1> DEFINE rd == b.m_nReadLeft
           at == b.mem[b.m_ptrRead]
<1>3. at = taken + 1
  <2>1. 0 \in 0..rd - 1 /\ b.m_ptrRead + 0 = b.m_ptrRead /\ taken + 0 + 1 = taken + 1
    BY <1>2
  <2> QED BY <1>2, <2>1
<1>4. rd \in Nat /\ rd > 0 /\ taken + rd = put
  BY <1>2
<1> HIDE DEF rd, at
<1>5. n # NumCmds
  <2> SUFFICES ASSUME n = NumCmds PROVE FALSE
    OBVIOUS
  <2>1. StartOf[n + 1] \in Nat /\ StreamLen = StartOf[n + 1] - 1
    BY <1>1, StartOfGrows DEF StreamLen
  <2> QED BY <1>2, <1>4, <2>1
<1>6. n + 1 \in 1..NumCmds
  BY <1>1, <1>5
<1>7. ASSUME NEW k \in 1..NumCmds, StartOf[k] = at PROVE k = n + 1
  <2>1. StartOf[k] = StartOf[n + 1] /\ k \in 1..NumCmds + 1 /\ n + 1 \in 1..NumCmds + 1
    BY <1>1, <1>3, <1>6, <1>7
  <2>2. StartOf[k] \in Nat
    BY <2>1, StartOfGrows
  <2>3. ~(k \in 1..(n + 1) - 1) /\ ~(n + 1 \in 1..k - 1)
    BY <2>1, <2>2, StartOfGrows
  <2> QED BY <1>6, <2>3
<1>8. StartOf[n + 1] = at
  BY <1>3
<1>9. FirstPacket = CHOOSE k \in 1..NumCmds : StartOf[k] = at
  <2>1. b.m_nReadLeft # 0
    BY <1>2
  <2>2. \E k \in 1..NumCmds : StartOf[k] = b.mem[b.m_ptrRead]
    BY <1>6, <1>8 DEF at
  <2> QED BY <2>1, <2>2, Zenon DEF FirstPacket, at
<1> QED BY <1>6, <1>7, <1>8, <1>9

-----------------------------------------------------------------------------
(* The reader.                                                              *)

\* The inductive invariant: the buffer holds the stream, of which at most all has come, and the
\* reader is between two packets, or in the first one by _de_size bytes.
MsgInv ==
    /\ HoldsBytes /\ Cmds
    /\ _de_size \in Nat
    /\ clear \in [1..StreamLen -> Nat]
    /\ cmds \in Seq(Nat) /\ Len(cmds) <= NumCmds
    /\ put <= StreamLen
    /\ PacketsInOrder

\* The bytes decrypted are those up to the d-th readable one.
ClearTo(cl, d) ==
    /\ cl \in [1..StreamLen -> Nat]
    /\ \A p \in 1..StreamLen : cl[p] = IF Encrypted /\ p <= taken + d THEN 1 ELSE 0

LEMMA StreamStays ==
    ASSUME Commands' = Commands
    PROVE  StartOf' = StartOf /\ StreamLen' = StreamLen
<1>1. StartOf' = StartOf
  BY Zenon DEF StartOf, packetbuf, getpacketsize, SizeField, iscompress, ROUNDNUM2, HdrSize, CmdLenSize, Block
<1> QED BY <1>1, Zenon DEF StreamLen

\* What MsgInv says of the numbers a call works with.
LEMMA InvNumbers ==
    ASSUME MsgInv
    PROVE  /\ b.m_nReadLeft \in Nat /\ taken \in Nat /\ put \in Nat /\ taken + b.m_nReadLeft = put
           /\ _de_size \in Nat /\ _de_size <= b.m_nReadLeft /\ _de_size % Block = 0
           /\ Len(cmds) \in Nat /\ Len(cmds) <= NumCmds /\ NumCmds \in Nat
           /\ taken + 1 = StartOf[Len(cmds) + 1]
           /\ cmds \in Seq(Nat) /\ cmds = [k \in 1..Len(cmds) |-> k]
           /\ StreamLen \in Nat
           /\ last # "error" => ClearTo(clear, _de_size)
<1>1. NumCmds \in Nat
  BY MsgConstants
<1>2. b.m_nReadLeft \in Nat /\ taken \in Nat /\ put \in Nat /\ taken + b.m_nReadLeft = put
  BY HoldsIsOK DEF BufOK, MsgInv
<1>3. StreamLen \in Nat
  <2>1. 1 \in 1..NumCmds + 1 /\ NumCmds + 1 \in 1..NumCmds + 1
    BY <1>1
  <2>2. StartOf[1] = 1 /\ StartOf[NumCmds + 1] \in Nat
        /\ (1 \in 1..(NumCmds + 1) - 1 => StartOf[1] < StartOf[NumCmds + 1])
    BY <2>1, StartOfGrows DEF MsgInv
  <2>3. NumCmds = 0 \/ 1 \in 1..(NumCmds + 1) - 1
    BY <1>1
  <2>4. CASE NumCmds = 0
    BY <2>2, <2>4 DEF StreamLen
  <2>5. CASE 1 \in 1..(NumCmds + 1) - 1
    BY <2>2, <2>5 DEF StreamLen
  <2> QED BY <2>3, <2>4, <2>5
<1>4. last # "error" => ClearTo(clear, _de_size)
  BY Zenon DEF MsgInv, PacketsInOrder, DecryptedOnce, ClearTo
<1>5. /\ _de_size \in Nat /\ _de_size <= b.m_nReadLeft /\ _de_size % Block = 0
      /\ Len(cmds) <= NumCmds /\ taken + 1 = StartOf[Len(cmds) + 1]
      /\ cmds \in Seq(Nat) /\ cmds = [k \in 1..Len(cmds) |-> k]
  BY Zenon DEF MsgInv, PacketsInOrder, DecryptedWithin, CommandsInOrder
<1>6. Len(cmds) \in Nat
  BY <1>5
<1> QED BY <1>1, <1>2, <1>3, <1>4, <1>5, <1>6

\* MsgInv from its parts, the stream being the same.
LEMMA InvAfter ==
    ASSUME MsgInv, Commands' = Commands, HoldsBytes', _de_size' \in Nat, put' <= StreamLen,
           clear' \in [1..StreamLen -> Nat],
           cmds' \in Seq(Nat), Len(cmds') <= NumCmds, cmds' = [k \in 1..Len(cmds') |-> k],
           taken' + 1 = StartOf[Len(cmds') + 1],
           \A p \in 1..StreamLen :
              clear'[p] = IF Encrypted /\ p <= taken' + _de_size' /\ last' # "error" THEN 1
                          ELSE IF last' = "error" THEN clear'[p] ELSE 0,
           _de_size' % Block = 0, _de_size' <= b'.m_nReadLeft
    PROVE  MsgInv'
<1>1. StartOf' = StartOf /\ StreamLen' = StreamLen
  BY StreamStays
<1>2. Cmds'
  BY DEF Cmds, MsgInv
<1>3. DecryptedOnce'
  BY <1>1, Zenon DEF DecryptedOnce
<1>4. CommandsInOrder'
  BY <1>1, Zenon DEF CommandsInOrder
<1>5. DecryptedWithin'
  BY Zenon DEF DecryptedWithin, Block
<1>6. clear' \in [1..StreamLen' -> Nat] /\ put' <= StreamLen'
  BY <1>1, Zenon
<1> QED BY <1>2, <1>3, <1>4, <1>5, <1>6, Zenon DEF MsgInv, PacketsInOrder

LEMMA ReceiveKeeps == ASSUME MsgInv, NEW n \in Pieces, Receive(n) PROVE MsgInv'
<1>1. n \in Nat /\ HoldsBytes
  BY MsgConstants DEF MsgInv
<1>2. putData(n) /\ put + n <= StreamLen /\ Commands' = Commands /\ _de_size' = _de_size
      /\ clear' = clear /\ cmds' = cmds /\ last' = last
  BY DEF Receive
<1>3. HoldsBytes' /\ taken' = taken /\ put' \in {put, put + n}
  BY <1>1, <1>2, PutKeeps
<1>4. b'.m_nReadLeft \in Nat /\ taken' + b'.m_nReadLeft = put'
  BY <1>3 DEF HoldsBytes, BufTypeOK, Fifo
<1>5. _de_size' <= b'.m_nReadLeft /\ put' <= StreamLen
  <2> DEFINE rd == b.m_nReadLeft
             rd2 == b'.m_nReadLeft
  <2>1. /\ rd \in Nat /\ rd2 \in Nat /\ taken \in Nat /\ put \in Nat /\ taken + rd = put /\ _de_size <= rd
        /\ _de_size \in Nat /\ taken + rd2 = put' /\ StreamLen \in Nat
    BY <1>3, <1>4, InvNumbers
  <2>2. put <= StreamLen
    BY DEF MsgInv
  <2> HIDE DEF rd, rd2
  <2>3. put' <= StreamLen /\ put' >= put
    BY <1>1, <1>2, <1>3, <2>1, <2>2
  <2>4. _de_size <= rd2
    BY <2>1, <2>3
  <2> QED BY <1>2, <2>3, <2>4 DEF rd2
<1>6. \A p \in 1..StreamLen :
         clear'[p] = IF Encrypted /\ p <= taken' + _de_size' /\ last' # "error" THEN 1
                     ELSE IF last' = "error" THEN clear'[p] ELSE 0
  BY <1>2, <1>3, Zenon DEF MsgInv, PacketsInOrder, DecryptedOnce
<1>7. clear' \in [1..StreamLen -> Nat] /\ _de_size' \in Nat /\ _de_size' % Block = 0
      /\ cmds' \in Seq(Nat) /\ Len(cmds') <= NumCmds /\ cmds' = [k \in 1..Len(cmds') |-> k]
      /\ taken' + 1 = StartOf[Len(cmds') + 1]
  BY <1>2, <1>3, Zenon DEF MsgInv, PacketsInOrder, CommandsInOrder, DecryptedWithin
<1> QED BY <1>2, <1>3, <1>5, <1>6, <1>7, InvAfter

\* Decrypting the bytes from the de_size-th to the de-th.
LEMMA DecryptedTo ==
    ASSUME MsgInv, last # "error", NEW de \in Nat, _de_size <= de, de <= b.m_nReadLeft
    PROVE  ClearTo(IF Encrypted THEN Decrypted(_de_size, de - _de_size) ELSE clear, de)
<1>1. /\ b.m_nReadLeft \in Nat /\ taken \in Nat /\ _de_size \in Nat
      /\ ClearTo(clear, _de_size) /\ StreamLen \in Nat
  BY InvNumbers
<1>2. \A i \in 0..b.m_nReadLeft - 1 : b.mem[b.m_ptrRead + i] = taken + i + 1
  BY HoldsIsOK DEF BufOK, MsgInv
<1>3. CASE ~Encrypted
  BY <1>1, <1>3, Zenon DEF ClearTo
<1>4. CASE Encrypted
  <2> DEFINE rd == b.m_nReadLeft
             at(j) == b.mem[b.m_ptrRead + j]
             to == _de_size + (de - _de_size) - 1
             cl == [p \in 1..StreamLen |-> IF \E j \in _de_size..to : at(j) = p THEN clear[p] + 1 ELSE clear[p]]
  <2>1. rd \in Nat /\ de <= rd /\ \A j \in 0..rd - 1 : at(j) = taken + j + 1
    BY <1>1, <1>2
  <2>2. Decrypted(_de_size, de - _de_size) = cl
    BY <1>1, Zenon DEF Decrypted, ClearTo
  <2>3. to = de - 1
    BY <1>1
  <2> HIDE DEF rd, at, to
  <2>4. ASSUME NEW p \in 1..StreamLen
        PROVE  cl[p] = IF p <= taken + de THEN 1 ELSE 0
    <3>1. clear[p] = IF p <= taken + _de_size THEN 1 ELSE 0
      BY <1>1, <1>4 DEF ClearTo
    <3>2. p \in Nat /\ p > 0
      BY <1>1
    <3>3. CASE \E j \in _de_size..to : at(j) = p
      <4>1. PICK j \in _de_size..to : at(j) = p
        BY <3>3
      <4>2. p = taken + j + 1 /\ j >= _de_size /\ j <= de - 1 /\ j \in Nat
        BY <1>1, <2>1, <2>3, <4>1
      <4>3. ~(p <= taken + _de_size) /\ p <= taken + de
        BY <1>1, <4>2
      <4> QED BY <3>1, <3>3, <4>3
    <3>4. CASE ~\E j \in _de_size..to : at(j) = p
      <4>1. cl[p] = clear[p]
        BY <3>4
      <4>2. p <= taken + de <=> p <= taken + _de_size
        <5>1. ASSUME p <= taken + de, ~(p <= taken + _de_size) PROVE FALSE
          <6>1. p - taken - 1 \in _de_size..to /\ p - taken - 1 \in 0..rd - 1 /\ taken + (p - taken - 1) + 1 = p
            BY <1>1, <2>1, <2>3, <3>2, <5>1
          <6>2. at(p - taken - 1) = p
            BY <2>1, <6>1, Zenon
          <6> QED BY <3>4, <6>1, <6>2, Zenon
        <5> QED BY <1>1, <3>2, <5>1
      <4> QED BY <3>1, <4>1, <4>2
    <3> QED BY <3>3, <3>4
  <2>5. cl \in [1..StreamLen -> Nat]
    <3>1. \A p \in 1..StreamLen : cl[p] \in Nat
      BY <1>1, <2>4
    <3>2. cl = [p \in 1..StreamLen |-> cl[p]]
      OBVIOUS
    <3> HIDE DEF cl
    <3> QED BY <3>1, <3>2
  <2> HIDE DEF cl
  <2> QED BY <1>4, <2>2, <2>4, <2>5, Zenon DEF ClearTo
<1> QED BY <1>3, <1>4

\* The bytes the reader decrypts are readable, whole blocks.
LEMMA DecryptsWithin ==
    ASSUME MsgInv, NEW c \in Kinds, b.m_nReadLeft - _de_size >= Block,
           ~(_de_size >= Block /\ getpacketsize(c) <= _de_size),
           NEW de, de = _de_size + HeadLen + BodyLen(c, b.m_nReadLeft - _de_size)
    PROVE  de \in Nat /\ _de_size <= de /\ de <= b.m_nReadLeft /\ de % Block = 0
<1> DEFINE d == _de_size
           rd == b.m_nReadLeft
           ps == PacketStep(c)
           h == HeadLen
           body == BodyLen(c, b.m_nReadLeft - _de_size)
<1>1. d \in Nat /\ rd \in Nat /\ d % 8 = 0 /\ rd - d >= 8
  BY InvNumbers DEF Block
<1>2. ps \in Nat /\ ps >= 8 /\ getpacketsize(c) \in Nat /\ ps >= getpacketsize(c)
  BY PacketSize DEF Block
<1>3. h = IF d = 0 THEN 8 ELSE 0
  BY DEF HeadLen, Block
<1>4. d >= 8 => ps > d
  BY <1>1, <1>2 DEF Block
<1>5. body = (Least((rd - d) - h, ps - (d + h)) \div 8) * 8
  BY DEF BodyLen, Block
<1>6. de = d + h + body
  OBVIOUS
<1> HIDE DEF d, rd, ps, h, body
<1>7. d = 0 \/ d >= 8
  BY <1>1
<1>8. h \in Nat /\ (rd - d) - h \in Nat /\ ps - (d + h) \in Nat /\ (d + h) % 8 = 0
  BY <1>1, <1>2, <1>3, <1>4, <1>7
<1> DEFINE m == Least((rd - d) - h, ps - (d + h))
<1>9. m \in Nat /\ m <= (rd - d) - h
  BY <1>8 DEF Least
<1> HIDE DEF m
<1>10. body = (m \div 8) * 8
  BY <1>5 DEF m
<1>11. (m \div 8) * 8 \in Nat /\ (m \div 8) * 8 <= m /\ ((m \div 8) * 8) % 8 = 0
  BY <1>9
<1>12. body \in Nat /\ body <= (rd - d) - h /\ body % 8 = 0
  BY <1>8, <1>9, <1>10, <1>11
<1>13. de \in Nat /\ d <= de /\ de <= rd /\ de % 8 = 0
  BY <1>1, <1>6, <1>8, <1>12
<1> QED BY <1>13 DEF d, rd, Block

\* A call that leaves the buffer as it is.
LEMMA KeepsBytes ==
    ASSUME MsgInv, Commands' = Commands, UNCHANGED <<bufVars, cmds>>,
           _de_size' \in Nat, _de_size' <= b.m_nReadLeft, _de_size' % Block = 0,
           clear' \in [1..StreamLen -> Nat], last' = "error" \/ ClearTo(clear', _de_size')
    PROVE  MsgInv'
<1>1. b' = b /\ put' = put /\ taken' = taken /\ cmds' = cmds
  BY DEF bufVars
<1>2. HoldsBytes'
  BY BufStays DEF MsgInv
<1>3. \A p \in 1..StreamLen :
         clear'[p] = IF Encrypted /\ p <= taken' + _de_size' /\ last' # "error" THEN 1
                     ELSE IF last' = "error" THEN clear'[p] ELSE 0
  BY <1>1, Zenon DEF ClearTo
<1>4. cmds' \in Seq(Nat) /\ Len(cmds') <= NumCmds /\ cmds' = [k \in 1..Len(cmds') |-> k]
      /\ taken' + 1 = StartOf[Len(cmds') + 1]
  BY <1>1, Zenon DEF MsgInv, PacketsInOrder, CommandsInOrder
<1>5. put' <= StreamLen /\ _de_size' <= b'.m_nReadLeft
  BY <1>1, Zenon DEF MsgInv
<1> QED BY <1>2, <1>3, <1>4, <1>5, InvAfter

\* A packet that is complete in its de decrypted bytes.
LEMMA HandOutKeeps ==
    ASSUME MsgInv, Commands' = Commands, b.m_nReadLeft > 0,
           NEW de \in Nat, de <= b.m_nReadLeft, de % Block = 0, ClearTo(clear', de),
           getpacketsize(Commands[FirstPacket]) <= de, HandOut(Commands[FirstPacket], de)
    PROVE  MsgInv'
<1> DEFINE n == Len(cmds)
           c == Commands[FirstPacket]
           ps == PacketStep(c)
<1>1. /\ n \in Nat /\ n <= NumCmds /\ taken + 1 = StartOf[n + 1] /\ put <= StreamLen
      /\ HoldsBytes /\ Cmds /\ NumCmds \in Nat
  BY InvNumbers DEF MsgInv
<1>2. n + 1 \in 1..NumCmds /\ FirstPacket = n + 1
  BY <1>1, AtFirstPacket
<1>3. c \in Kinds /\ c = Commands[n + 1]
  BY <1>1, <1>2 DEF Cmds
<1>4. ps \in Nat /\ ps >= 8 /\ ps <= de
  BY <1>3, PacketSize DEF Block
<1>5. ps % 8 = 0 /\ (de - ps) % 8 = 0 /\ de - ps \in Nat
  <2>1. ps % 8 = 0
    <3>1. getpacketsize(c) \in Nat \ {0}
      BY <1>3, PacketSize
    <3> QED BY <3>1, RoundUpBlock DEF PacketStep, Block
  <2>2. de % 8 = 0
    BY DEF Block
  <2> HIDE DEF ps
  <2> QED BY <1>4, <2>1, <2>2
<1>6. _de_size' = de - ps
  BY DEF HandOut
<1>7. CASE last' = "error" /\ UNCHANGED <<bufVars, cmds>>
  <2>1. de - ps <= b.m_nReadLeft
    <3> DEFINE rd == b.m_nReadLeft
    <3>1. rd \in Nat /\ de <= rd
      BY InvNumbers
    <3> HIDE DEF rd, ps
    <3>2. de - ps <= rd
      BY <1>4, <3>1
    <3> QED BY <3>2 DEF rd
  <2> HIDE DEF ps
  <2>2. clear' \in [1..StreamLen -> Nat]
    BY DEF ClearTo
  <2> QED BY <1>5, <1>6, <1>7, <2>1, <2>2, KeepsBytes DEF Block
<1>8. CASE last' = "cmd" /\ cmds' = Append(cmds, FirstPacket) /\ setReadPtr(ps)
  <2> HIDE DEF ps
  <2>1. /\ HoldsBytes' /\ put' = put
        /\ taken' = taken + (IF b.m_nReadLeft <= ps THEN b.m_nReadLeft ELSE ps)
    BY <1>1, <1>4, <1>8, TakeKeeps
  <2> DEFINE rd == b.m_nReadLeft
             rd2 == b'.m_nReadLeft
  <2>2. rd \in Nat /\ taken \in Nat /\ taken + rd = put /\ de <= rd
    BY InvNumbers
  <2>3. rd2 \in Nat /\ taken' + rd2 = put'
    BY <2>1 DEF HoldsBytes, BufTypeOK, Fifo
  <2>4. taken' = taken + (IF rd <= ps THEN rd ELSE ps)
    BY <2>1
  <2> HIDE DEF rd, rd2
  <2>5. taken' = taken + ps
    BY <1>4, <2>2, <2>4
  <2>6. rd2 = rd - ps
    BY <1>4, <2>1, <2>2, <2>3, <2>5
  <2>7. de - ps <= rd2
    BY <1>4, <2>2, <2>6
  <2>8. taken' + 1 = StartOf[(n + 1) + 1]
    <3>1. StartOf[(n + 1) + 1] = StartOf[n + 1] + ps
      BY <1>1, <1>2, <1>3, StartOfGrows DEF ps
    <3> HIDE DEF n
    <3> QED BY <1>1, <1>4, <2>2, <2>5, <3>1
  <2>9. /\ cmds' \in Seq(Nat) /\ Len(cmds') = n + 1 /\ cmds' = [k \in 1..n + 1 |-> k]
    <3>1. cmds \in Seq(Nat) /\ cmds = [k \in 1..n |-> k] /\ cmds' = Append(cmds, n + 1)
      BY <1>2, <1>8, InvNumbers
    <3> QED BY <1>1, <3>1
  <2>10. \A p \in 1..StreamLen :
           clear'[p] = IF Encrypted /\ p <= taken' + _de_size' /\ last' # "error" THEN 1
                       ELSE IF last' = "error" THEN clear'[p] ELSE 0
    <3>1. taken' + _de_size' = taken + de
      BY <1>4, <1>6, <2>2, <2>5
    <3> QED BY <1>8, <3>1 DEF ClearTo
  <2>11. clear' \in [1..StreamLen -> Nat] /\ put' <= StreamLen
    BY <1>1, <2>1 DEF ClearTo
  <2>12. _de_size' \in Nat /\ _de_size' % Block = 0 /\ _de_size' <= b'.m_nReadLeft
    BY <1>5, <1>6, <2>7 DEF rd2, Block
  <2>13. Len(cmds') <= NumCmds /\ cmds' = [k \in 1..Len(cmds') |-> k]
         /\ taken' + 1 = StartOf[Len(cmds') + 1]
    BY <1>1, <1>2, <2>8, <2>9
  <2> QED BY <2>1, <2>9, <2>10, <2>11, <2>12, <2>13, InvAfter
<1> QED BY <1>7, <1>8, Zenon DEF HandOut

LEMMA GetCmdKeeps == ASSUME MsgInv, packet_getcmd PROVE MsgInv'
<1> DEFINE c == Commands[FirstPacket]
           size == b.m_nReadLeft - _de_size
           de == _de_size + HeadLen + BodyLen(c, size)
           cl == IF Encrypted THEN Decrypted(_de_size, de - _de_size) ELSE clear
<1>1. b.m_nReadLeft > 0 /\ last # "error" /\ Commands' = Commands
  BY DEF packet_getcmd
<1>2. /\ b.m_nReadLeft \in Nat /\ _de_size \in Nat /\ _de_size <= b.m_nReadLeft /\ _de_size % Block = 0
      /\ ClearTo(clear, _de_size)
  BY <1>1, InvNumbers
<1>3. c \in Kinds
  <2>1. /\ Len(cmds) \in Nat /\ Len(cmds) <= NumCmds /\ taken + 1 = StartOf[Len(cmds) + 1]
        /\ put <= StreamLen /\ HoldsBytes /\ Cmds
    BY InvNumbers DEF MsgInv
  <2>2. Len(cmds) + 1 \in 1..NumCmds /\ FirstPacket = Len(cmds) + 1
    BY <1>1, <2>1, AtFirstPacket
  <2> QED BY <2>1, <2>2 DEF Cmds
<1>4. clear \in [1..StreamLen -> Nat]
  BY DEF MsgInv
<1>5. CASE _de_size >= Block /\ getpacketsize(c) <= _de_size /\ HandOut(c, _de_size) /\ clear' = clear
  <2>1. ClearTo(clear', _de_size)
    BY <1>2, <1>5
  <2> QED BY <1>1, <1>2, <1>5, <2>1, HandOutKeeps
<1>6. CASE last' = "more" /\ UNCHANGED <<bufVars, _de_size, clear, cmds>>
  <2>1. ClearTo(clear', _de_size') /\ clear' \in [1..StreamLen -> Nat] /\ _de_size' = _de_size
    BY <1>2, <1>4, <1>6
  <2> QED BY <1>1, <1>2, <1>6, <2>1, KeepsBytes
<1>7. CASE /\ ~(_de_size >= Block /\ getpacketsize(c) <= _de_size)
           /\ ~(size < Block)
           /\ clear' = cl
           /\ \/ last' = "error" /\ _de_size' = de /\ UNCHANGED <<bufVars, cmds>>
              \/ last' = "more" /\ _de_size' = de /\ UNCHANGED <<bufVars, cmds>>
              \/ getpacketsize(c) <= de /\ HandOut(c, de)
  <2>1. size >= Block
    <3> DEFINE rd == b.m_nReadLeft
    <3>1. rd \in Nat /\ ~(rd - _de_size < 8)
      BY <1>2, <1>7 DEF Block
    <3> HIDE DEF rd
    <3>2. rd - _de_size >= 8
      BY <1>2, <3>1
    <3> QED BY <3>2 DEF rd, Block
  <2>2. de \in Nat /\ _de_size <= de /\ de <= b.m_nReadLeft /\ de % Block = 0
    <3> HIDE DEF c
    <3> QED BY <1>3, <1>7, <2>1, DecryptsWithin
  <2>3. ClearTo(clear', de)
    <3> HIDE DEF de
    <3> QED BY <1>1, <1>7, <2>2, DecryptedTo
  <2>4. clear' \in [1..StreamLen -> Nat]
    BY <2>3, Zenon DEF ClearTo
  <2> HIDE DEF de, cl, size
  <2>5. CASE (last' = "error" \/ last' = "more") /\ _de_size' = de /\ UNCHANGED <<bufVars, cmds>>
    BY <1>1, <2>2, <2>3, <2>4, <2>5, KeepsBytes
  <2>6. CASE getpacketsize(c) <= de /\ HandOut(c, de)
    BY <1>1, <2>2, <2>3, <2>6, HandOutKeeps
  <2> QED BY <1>7, <2>5, <2>6, Zenon
<1> HIDE DEF c
<1> QED BY <1>5, <1>6, <1>7, Zenon DEF packet_getcmd, c

LEMMA MsgInit == InitMsg => MsgInv
<1> SUFFICES ASSUME InitMsg PROVE MsgInv
  OBVIOUS
<1>1. HoldsBytes /\ Cmds /\ put = 0 /\ taken = 0 /\ b.m_nReadLeft = 0
  BY BufInit DEF InitMsg, Cmds, InitBuf, NewBuf
<1>2. _de_size = 0 /\ clear = [p \in 1..StreamLen |-> 0] /\ cmds = <<>> /\ last = "none"
  BY DEF InitMsg
<1>3. NumCmds \in Nat /\ StartOf[1] = 1 /\ StartOf[NumCmds + 1] \in Nat
      /\ (1 \in 1..(NumCmds + 1) - 1 => StartOf[1] < StartOf[NumCmds + 1])
  <2>1. NumCmds \in Nat /\ 1 \in 1..NumCmds + 1 /\ NumCmds + 1 \in 1..NumCmds + 1
    BY MsgConstants
  <2> QED BY <1>1, <2>1, StartOfGrows
<1>4. StreamLen \in Nat
  <2>1. NumCmds = 0 \/ 1 \in 1..(NumCmds + 1) - 1
    BY <1>3
  <2>2. CASE NumCmds = 0
    BY <1>3, <2>2 DEF StreamLen
  <2>3. CASE 1 \in 1..(NumCmds + 1) - 1
    BY <1>3, <2>3 DEF StreamLen
  <2> QED BY <2>1, <2>2, <2>3
<1>5. CommandsInOrder
  <2>1. Len(cmds) = 0 /\ cmds = [k \in 1..0 |-> k]
    BY <1>2
  <2> QED BY <1>1, <1>3, <2>1 DEF CommandsInOrder
<1>6. DecryptedOnce
  <2> SUFFICES ASSUME NEW p \in 1..StreamLen PROVE clear[p] = 0 /\ ~(p <= taken + _de_size)
    BY <1>2 DEF DecryptedOnce
  <2> QED BY <1>1, <1>2, <1>4
<1>7. DecryptedWithin
  BY <1>1, <1>2 DEF DecryptedWithin, Block
<1>8. _de_size \in Nat /\ clear \in [1..StreamLen -> Nat] /\ cmds \in Seq(Nat) /\ Len(cmds) <= NumCmds
      /\ put <= StreamLen
  BY <1>1, <1>2, <1>3, <1>4
<1> QED BY <1>1, <1>5, <1>6, <1>7, <1>8 DEF MsgInv, PacketsInOrder

LEMMA MsgNext == MsgInv /\ [NextMsg]_packVars => MsgInv'
<1> SUFFICES ASSUME MsgInv, [NextMsg]_packVars PROVE MsgInv'
  OBVIOUS
<1>1. ASSUME NEW n \in Pieces, Receive(n) PROVE MsgInv'
  BY <1>1, ReceiveKeeps
<1>2. CASE packet_getcmd
  BY <1>2, GetCmdKeeps
<1>3. CASE UNCHANGED packVars
  <2>1. /\ Commands' = Commands /\ UNCHANGED <<bufVars, cmds>> /\ _de_size' = _de_size
        /\ clear' = clear /\ last' = last
    BY <1>3, Zenon DEF packVars
  <2>2. /\ _de_size \in Nat /\ _de_size <= b.m_nReadLeft /\ _de_size % Block = 0
        /\ clear \in [1..StreamLen -> Nat] /\ (last = "error" \/ ClearTo(clear, _de_size))
    BY InvNumbers DEF MsgInv
  <2>3. last' = "error" \/ ClearTo(clear', _de_size')
    BY <2>1, <2>2
  <2> QED BY <2>1, <2>2, <2>3, KeepsBytes
<1> QED BY <1>1, <1>2, <1>3 DEF NextMsg

\* However a stream of packets is cut into pieces, its commands come out in order, and every byte
\* of them is decrypted once, for any commands, any sizes of the pieces, of the buffer and of the
\* caller's (packet_getcmd, getpackethdr, getmsg2buf).
THEOREM PacketsComeInOrder == SpecMsg => []PacketsInOrder
<1>1. MsgInv => PacketsInOrder
  BY DEF MsgInv
<1> QED BY <1>1, MsgInit, MsgNext, PTL DEF SpecMsg

=============================================================================
