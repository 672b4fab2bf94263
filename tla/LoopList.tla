------------------------------ MODULE LoopList ------------------------------
(***************************************************************************)
(* CLoopList: a ring.  Two of them, used as SqlConnPool does: elements are *)
(* pushed into the first, merge moves them to the second, and its user     *)
(* pops them there and works on the slot pop_front returned a pointer to.  *)
(*                                                                         *)
(* The user merges and pops in one thread, and has done with a popped      *)
(* element before it merges again (SqlProcessThread); the rings implement  *)
(* the sequences of BoundedLists, as SqlPool takes them to be.             *)
(***************************************************************************)
EXTENDS Integers, Sequences

CONSTANTS
    Items,          \* what is pushed
    FirstCapacity,  \* capacities of the two rings
    SecondCapacity

\* A capacity of 0 is replaced by a default one (the constructor).
ASSUME ListConstants == FirstCapacity \in Nat \ {0} /\ SecondCapacity \in Nat \ {0}

VARIABLES
    a, z,       \* the rings: m_head, m_tail, m_size, m_capacity and pBuf
    inUse       \* offsets of the popped slot of z its user works on (none or one)

listVars == <<a, z, inUse>>

\* CLoopList(bufsize).  The slots hold default elements (<<>>).
NewList(bufsize) ==
    [m_head |-> 0, m_tail |-> 0, m_size |-> 0, m_capacity |-> bufsize,
     pBuf |-> [i \in 0..bufsize - 1 |-> <<>>]]

InitList == a = NewList(FirstCapacity) /\ z = NewList(SecondCapacity) /\ inUse = {}

IsFull(q) == q.m_size >= q.m_capacity
IsEmpty(q) == q.m_size = 0

\* Mutant: a full ring takes the element.
push_back_over(q, item) ==
    [q EXCEPT !.pBuf[q.m_tail] = item, !.m_tail = (@ + 1) % q.m_capacity, !.m_size = @ + 1]

\* A full ring refuses.
push_back(q, item) ==
    IF IsFull(q) THEN q
    ELSE [q EXCEPT !.pBuf[q.m_tail] = item, !.m_tail = (@ + 1) % q.m_capacity, !.m_size = @ + 1]

\* Mutant: the head does not come round.
pop_front_straight(q) == [q EXCEPT !.m_head = @ + 1, !.m_size = @ - 1]

\* The ring without its first element, which stays in its slot.
pop_front(q) == [q EXCEPT !.m_head = (@ + 1) % q.m_capacity, !.m_size = @ - 1]

\* Mutant: merge goes on when the ring is full.
Merged_all(from, to) ==
    LET step[n \in 0..from.m_size] ==
            IF n = 0 THEN <<from, to>>
            ELSE LET f == step[n - 1][1]
                     t == step[n - 1][2] IN
                 <<pop_front(f), push_back(t, f.pBuf[f.m_head])>>
    IN step[from.m_size]

\* merge: one element moves at a time, until the one ring is full or the other is empty.
Merged(from, to) ==
    LET step[n \in 0..from.m_size] ==
            IF n = 0 THEN <<from, to>>
            ELSE LET f == step[n - 1][1]
                     t == step[n - 1][2] IN
                 IF IsFull(t) \/ IsEmpty(f) THEN <<f, t>>
                 ELSE <<pop_front(f), push_back(t, f.pBuf[f.m_head])>>
    IN step[from.m_size]

PushBack(x) == a' = push_back(a, x) /\ UNCHANGED <<z, inUse>>

Merge ==
    /\ inUse = {}
    /\ LET m == Merged(a, z) IN a' = m[1] /\ z' = m[2]
    /\ UNCHANGED inUse

PopFront ==
    /\ ~IsEmpty(z)
    /\ inUse' = {z.m_head}
    /\ z' = pop_front(z)
    /\ UNCHANGED a

\* The user has done with the element.
Done == inUse # {} /\ inUse' = {} /\ UNCHANGED <<a, z>>

NextList == (\E x \in Items : PushBack(x)) \/ Merge \/ PopFront \/ Done

SpecList == InitList /\ [][NextList]_listVars

-----------------------------------------------------------------------------

\* The elements of a ring, first to last.
Content(q) == [i \in 1..q.m_size |-> q.pBuf[(q.m_head + i - 1) % q.m_capacity]]

Lists == INSTANCE BoundedLists WITH
    first <- Content(a), second <- Content(z), held <- {z.pBuf[i] : i \in inUse}

\* The rings do what the sequences do, when the head and the tail have come round any number of
\* times, and a popped element is not overwritten while it is in use (push_back, pop_front, merge).
RingsAreLists == Lists!AbsSpec

\* The head, the tail and the size tell the same of each ring.
RingShape ==
    \A q \in {a, z} :
        /\ q.m_head \in 0..q.m_capacity - 1 /\ q.m_tail \in 0..q.m_capacity - 1
        /\ q.m_size \in 0..q.m_capacity
        /\ q.m_tail = (q.m_head + q.m_size) % q.m_capacity

\* The rings are bounded sequences, and their heads, tails and sizes agree (CLoopList).
RingsKept == []RingShape /\ RingsAreLists
=============================================================================
