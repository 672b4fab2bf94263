------------------------------- MODULE LoopBuf -------------------------------
(***************************************************************************)
(* LoopBuf: a byte buffer whose readable bytes are contiguous,             *)
(*                                                                         *)
(*     |  m_nPerpendLeft  |  m_nReadLeft  |  m_nWritLeft  |                *)
(*     |  m_ptrBegin      |  m_ptrRead    |  m_ptrWrite   |                *)
(*                                                                         *)
(* that moves the readable bytes to the front, or to a larger array, when  *)
(* the next ones do not fit.  The bytes are numbered in the order of the   *)
(* stream, the pointers are offsets from m_ptrBegin.                       *)
(***************************************************************************)
EXTENDS Integers

CONSTANTS
    BufSize,    \* DEF_LOOPBUF_SIZE1, the size at the start
    Unit,       \* 1024, the unit of the sizes after a reallocation
    MaxResize   \* DEF_LOOPBUF_MAX_RESIZE

ASSUME LoopBufConstants ==
    /\ BufSize \in Nat \ {0} /\ Unit \in Nat \ {0} /\ MaxResize \in Nat
    /\ BufSize <= MaxResize

VARIABLES
    b,      \* the object: its sizes, its pointers and the array
    put,    \* bytes it accepted
    taken   \* bytes the reader consumed

bufVars == <<b, put, taken>>

Least(x, y) == IF x < y THEN x ELSE y

\* ROUNDNUM2(value, num): value rounded up to a multiple of num.
ROUNDNUM2(value, num) == ((value + num - 1) \div num) * num

\* A new array: its contents are not initialized (0 is no byte of the stream).
NewArray(n) == [i \in 0..n - 1 |-> 0]

\* memcpy, memmove: n bytes of src from offset j to offset i of dst.
Copied(dst, i, src, j, n) ==
    [k \in DOMAIN dst |-> IF k >= i /\ k < i + n THEN src[k - i + j] ELSE dst[k]]

NewBuf == [m_nAllSize |-> BufSize, m_nPerpendLeft |-> 0, m_nReadLeft |-> 0,
           m_nWritLeft |-> BufSize, m_ptrRead |-> 0, m_ptrWrite |-> 0,
           mem |-> NewArray(BufSize)]

InitBuf == b = NewBuf /\ put = 0 /\ taken = 0

-----------------------------------------------------------------------------

\* Mutant: the write pointer keeps its place.
RestructuringData_stay ==
    [b EXCEPT !.mem = Copied(@, 0, b.mem, b.m_ptrRead, b.m_nReadLeft),
              !.m_ptrRead = 0,
              !.m_nPerpendLeft = 0,
              !.m_nWritLeft = b.m_nAllSize - b.m_ptrWrite]

\* The readable bytes move to the front of the array.
RestructuringData ==
    [b EXCEPT !.mem = Copied(@, 0, b.mem, b.m_ptrRead, b.m_nReadLeft),
              !.m_ptrRead = 0,
              !.m_ptrWrite = b.m_nReadLeft,
              !.m_nPerpendLeft = 0,
              !.m_nWritLeft = b.m_nAllSize - b.m_nReadLeft]

\* Mutant: a fixed growth.
Resized_double(nLen) == Least(ROUNDNUM2(b.m_nAllSize + 1, Unit), MaxResize)

\* The size of the next array: room for the bytes that come, up to the limit.
Resized(nLen) ==
    Least(ROUNDNUM2((b.m_nAllSize + nLen) + b.m_nAllSize, Unit), MaxResize)

\* The readable bytes move to a new array.
resizeNewAllData(nLen) ==
    LET nAll == Resized(nLen) IN
    [m_nAllSize |-> nAll, m_nPerpendLeft |-> 0, m_nReadLeft |-> b.m_nReadLeft,
     m_nWritLeft |-> nAll - b.m_nReadLeft, m_ptrRead |-> 0, m_ptrWrite |-> b.m_nReadLeft,
     mem |-> Copied(NewArray(nAll), 0, b.mem, b.m_ptrRead, b.m_nReadLeft)]

\* Makes room, then putRightData: the bytes put+1 .. put+nLen, all of them or none.
putData(nLen) ==
    LET fit == IF b.m_nWritLeft >= nLen THEN b
               ELSE IF b.m_nWritLeft + b.m_nPerpendLeft > nLen * 2 THEN RestructuringData
               ELSE resizeNewAllData(nLen) IN
    IF fit.m_nWritLeft < nLen
    THEN b' = fit /\ UNCHANGED <<put, taken>>
    ELSE /\ b' = [fit EXCEPT
                    !.mem = Copied(@, fit.m_ptrWrite, [k \in 1..nLen |-> put + k], 1, nLen),
                    !.m_ptrWrite = @ + nLen,
                    !.m_nWritLeft = @ - nLen,
                    !.m_nReadLeft = @ + nLen]
         /\ put' = put + nLen
         /\ UNCHANGED taken

\* Mutant: the space in front is not given back when all is read.
setReadPtr_keep(nLen) ==
    /\ nLen > 0 /\ b.m_nReadLeft > 0
    /\ IF b.m_nReadLeft <= nLen
       THEN /\ b' = [b EXCEPT !.m_ptrRead = 0, !.m_ptrWrite = 0, !.m_nReadLeft = 0,
                              !.m_nWritLeft = b.m_nAllSize]
            /\ taken' = taken + b.m_nReadLeft
       ELSE /\ b' = [b EXCEPT !.m_ptrRead = @ + nLen, !.m_nPerpendLeft = @ + nLen,
                              !.m_nReadLeft = @ - nLen]
            /\ taken' = taken + nLen
    /\ UNCHANGED put

\* Mutant: more than there is can be consumed.
setReadPtr_over(nLen) ==
    /\ nLen > 0 /\ b.m_nReadLeft > 0
    /\ b' = [b EXCEPT !.m_ptrRead = @ + nLen, !.m_nPerpendLeft = @ + nLen, !.m_nReadLeft = @ - nLen]
    /\ taken' = taken + nLen
    /\ UNCHANGED put

\* The reader consumed nLen bytes, or all there are.
setReadPtr(nLen) ==
    /\ nLen > 0 /\ b.m_nReadLeft > 0
    /\ IF b.m_nReadLeft <= nLen
       THEN /\ b' = [b EXCEPT !.m_ptrRead = 0, !.m_ptrWrite = 0, !.m_nReadLeft = 0,
                              !.m_nWritLeft = b.m_nAllSize, !.m_nPerpendLeft = 0]
            /\ taken' = taken + b.m_nReadLeft
       ELSE /\ b' = [b EXCEPT !.m_ptrRead = @ + nLen, !.m_nPerpendLeft = @ + nLen,
                              !.m_nReadLeft = @ - nLen]
            /\ taken' = taken + nLen
    /\ UNCHANGED put

\* getReadPtr, getReadDataLen: the bytes that can be read.
Readable == [i \in 1..b.m_nReadLeft |-> b.mem[b.m_ptrRead + i - 1]]

NextBuf == \E nLen \in Nat \ {0} : putData(nLen) \/ setReadPtr(nLen)

SpecBuf == InitBuf /\ [][NextBuf]_bufVars

-----------------------------------------------------------------------------
(* Properties.                                                              *)

\* The object keeps its type.
BufTypeOK ==
    /\ b \in [m_nAllSize : Nat, m_nPerpendLeft : Nat, m_nReadLeft : Nat, m_nWritLeft : Nat,
              m_ptrRead : Nat, m_ptrWrite : Nat, mem : [0..b.m_nAllSize - 1 -> Nat]]
    /\ put \in Nat /\ taken \in Nat

\* The three sizes cover the array and the pointers stand at their borders: no write passes the
\* end of the array, no read its written part (the picture in loopBuf.h).
Layout ==
    /\ b.m_ptrRead = b.m_nPerpendLeft
    /\ b.m_ptrWrite = b.m_nPerpendLeft + b.m_nReadLeft
    /\ b.m_nPerpendLeft + b.m_nReadLeft + b.m_nWritLeft = b.m_nAllSize
    /\ b.m_nAllSize <= MaxResize

\* What can be read is what was put and not yet consumed, in order, across moves and
\* reallocations (putData, setReadPtr).
Fifo ==
    /\ taken + b.m_nReadLeft = put
    /\ \A i \in 0..b.m_nReadLeft - 1 : b.mem[b.m_ptrRead + i] = taken + i + 1

\* Bytes are refused only when they do not fit in the largest array (resizeNewAllData): whenever
\* fewer bytes are in the buffer, they are all taken.
TakesWhatFits == \A nLen \in 1..MaxResize - b.m_nReadLeft : putData(nLen) => put' = put + nLen
TakesAll == [][b' # b => TakesWhatFits]_bufVars

\* The buffer is a queue of bytes that fits its array, however often it is moved and grown
\* (RestructuringData, resizeNewAllData, setReadPtr).
HoldsBytes == BufTypeOK /\ Layout /\ Fifo

\* The buffer is a queue of bytes that refuses nothing its largest array has room for (putData,
\* setReadPtr).
BufferKept == [][HoldsBytes /\ HoldsBytes' /\ (b' # b => TakesWhatFits)]_bufVars
=============================================================================
