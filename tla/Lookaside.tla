------------------------------ MODULE Lookaside ------------------------------
(***************************************************************************)
(* safe_lookaside_allocator under several threads: the list of a pool's    *)
(* free nodes is read and written under the pool's lock; an object is      *)
(* constructed in its node after the lock is released, and destroyed       *)
(* before it is taken again.  The size of all pools is one variable that   *)
(* each pool's lock guards for itself only.                                *)
(***************************************************************************)
EXTENDS Integers, Sequences, FiniteSets, SequencesExt

CONSTANTS
    Makers,         \* threads that make and delete objects
    Allocators,     \* the lookaside allocators, one per class
    blockNodeNum,   \* nodes added to a pool at a time
    MaxBlocks,      \* bound: stPools added to a pool
    Nobody

ASSUME AsideConstants ==
    blockNodeNum \in Nat \ {0} /\ Nobody \notin Makers \cup Allocators

VARIABLES
    m_freePool,             \* free nodes of each pool, first to last
    mPools,                 \* stPools of each pool
    gLookasideAllocSize,    \* the size of all pools, in stPools
    m_nrefcount,            \* objects of each pool's class (DEC_OP_NEW)
    lock,                   \* the thread that holds a pool's lock
    work,                   \* what each thread is at: step, pool, node, and what it has read
    objects                 \* nodes with a living object

asideVars == <<m_freePool, mPools, gLookasideAllocSize, m_nrefcount, lock, work, objects>>

NoWork == [at |-> "idle", pool |-> Nobody, node |-> Nobody, read |-> 0]

InitAside ==
    /\ m_freePool = [p \in Allocators |-> <<>>] /\ mPools = [p \in Allocators |-> 0]
    /\ gLookasideAllocSize = 0
    /\ m_nrefcount = [p \in Allocators |-> 0]
    /\ lock = [p \in Allocators |-> Nobody]
    /\ work = [t \in Makers |-> NoWork]
    /\ objects = {}

\* The nodes of the k-th stPool of pool p, linked first to last.
NodesOf(p, k) == [i \in 1..blockNodeNum |-> <<p, k, i>>]

\* Mutant: nothing is locked.
Lock_not(t, p) == UNCHANGED lock

\* CIntLock.
Lock(t, p) == lock[p] = Nobody /\ lock' = [lock EXCEPT ![p] = t]
Unlock(p) == lock' = [lock EXCEPT ![p] = Nobody]

Goes(t, step) == work' = [work EXCEPT ![t].at = step]

\* operator new counts the object first; getmem and alloc do not.
InterlockedIncrement(t, p) ==
    /\ work[t].at = "idle"
    /\ m_nrefcount' = [m_nrefcount EXCEPT ![p] = @ + 1]
    /\ work' = [work EXCEPT ![t] = [@ EXCEPT !.at = "new", !.pool = p]]
    /\ UNCHANGED <<m_freePool, mPools, gLookasideAllocSize, lock, objects>>

\* getmem, alloc: into the lock, and to addPoolBlock if there is no free node.
AILOCKT(t) ==
    LET p == work[t].pool IN
    /\ work[t].at = "new"
    /\ Lock(t, p)
    /\ m_freePool[p] = <<>> => mPools[p] < MaxBlocks
    /\ Goes(t, IF m_freePool[p] = <<>> THEN "add" ELSE "take")
    /\ UNCHANGED <<m_freePool, mPools, gLookasideAllocSize, m_nrefcount, objects>>

\* addPoolBlock reads the size of all pools ...
ReadSize(t) ==
    /\ work[t].at = "add"
    /\ work' = [work EXCEPT ![t] = [@ EXCEPT !.at = "add2", !.read = gLookasideAllocSize]]
    /\ UNCHANGED <<m_freePool, mPools, gLookasideAllocSize, m_nrefcount, lock, objects>>

\* ... writes it, and links the nodes of the new block.
addPoolBlock(t) ==
    LET p == work[t].pool IN
    /\ work[t].at = "add2"
    /\ gLookasideAllocSize' = work[t].read + 1
    /\ mPools' = [mPools EXCEPT ![p] = @ + 1]
    /\ m_freePool' = [m_freePool EXCEPT ![p] = NodesOf(p, mPools[p] + 1)]
    /\ Goes(t, "take")
    /\ UNCHANGED <<m_nrefcount, lock, objects>>

\* allocate looks at the first free node ...
FirstNode(t) ==
    LET p == work[t].pool IN
    /\ work[t].at = "take"
    /\ m_freePool[p] # <<>>
    /\ work' = [work EXCEPT ![t] = [@ EXCEPT !.at = "take2", !.node = Head(m_freePool[p])]]
    /\ UNCHANGED <<m_freePool, mPools, gLookasideAllocSize, m_nrefcount, lock, objects>>

\* ... and takes it off the list; the lock is released.
allocateNode(t) ==
    LET p == work[t].pool IN
    /\ work[t].at = "take2"
    /\ m_freePool' = [m_freePool EXCEPT ![p] = IF @ = <<>> THEN <<>> ELSE Tail(@)]
    /\ Unlock(p)
    /\ Goes(t, "construct")
    /\ UNCHANGED <<mPools, gLookasideAllocSize, m_nrefcount, objects>>

\* constructInPlace, or the constructor of the new expression.
constructInPlace(t) ==
    /\ work[t].at = "construct"
    /\ objects' = objects \cup {work[t].node}
    /\ work' = [work EXCEPT ![t] = NoWork]
    /\ UNCHANGED <<m_freePool, mPools, gLookasideAllocSize, m_nrefcount, lock>>

\* delete: the destructor.
destroy(t, n) ==
    /\ work[t].at = "idle" /\ n \in objects
    /\ objects' = objects \ {n}
    /\ work' = [work EXCEPT ![t] = [NoWork EXCEPT !.at = "destroyed", !.pool = n[1], !.node = n]]
    /\ UNCHANGED <<m_freePool, mPools, gLookasideAllocSize, m_nrefcount, lock>>

\* operator delete counts, then locks.
InterlockedDecrement(t) ==
    /\ work[t].at = "destroyed"
    /\ m_nrefcount' = [m_nrefcount EXCEPT ![work[t].pool] = @ - 1]
    /\ Goes(t, "delete")
    /\ UNCHANGED <<m_freePool, mPools, gLookasideAllocSize, lock, objects>>

\* freemem: deallocate puts the node first on the list, under the lock.
freemem(t) ==
    LET p == work[t].pool IN
    /\ \/ /\ work[t].at = "delete" /\ Lock(t, p) /\ Goes(t, "give")
          /\ UNCHANGED m_freePool
       \/ /\ work[t].at = "give" /\ Unlock(p)
          /\ m_freePool' = [m_freePool EXCEPT ![p] = <<work[t].node>> \o @]
          /\ work' = [work EXCEPT ![t] = NoWork]
    /\ UNCHANGED <<mPools, gLookasideAllocSize, m_nrefcount, objects>>

NextAside ==
    \E t \in Makers :
        \/ \E p \in Allocators : InterlockedIncrement(t, p)
        \/ AILOCKT(t) \/ ReadSize(t) \/ addPoolBlock(t) \/ FirstNode(t) \/ allocateNode(t)
        \/ constructInPlace(t)
        \/ \E n \in objects : destroy(t, n)
        \/ InterlockedDecrement(t) \/ freemem(t)

SpecAside == InitAside /\ [][NextAside]_asideVars

-----------------------------------------------------------------------------

\* A thread has taken a node and not given it away.
Holds(t) == work[t].at \in {"construct", "destroyed", "delete", "give"}

\* An allocator's nodes in use: those of living objects, and those in a thread's hands.
Alive(p) == {n \in objects : n[1] = p}
Hands(p) == {t \in Makers : Holds(t) /\ work[t].pool = p}

\* The threads that have counted an object they do not have yet, or not counted one off.
Making(p) == {t \in Makers : work[t].pool = p /\ work[t].at \notin {"delete", "give"}}

\* The stPools of all allocators.
AllBlocks == UNION {{<<p, k>> : k \in 1..mPools[p]} : p \in Allocators}

\* Whatever the threads do at once, a node is free, in one thread's hands, or an object's, and in
\* one of these places only: no two objects share a node and none is lost (allocate, freemem).
NodesApart ==
    \A p \in Allocators :
        /\ IsInjective(m_freePool[p])
        /\ \A t \in Hands(p) : work[t].node \notin Alive(p) \cup ToSet(m_freePool[p])
        /\ \A t, u \in Hands(p) : t # u => work[t].node # work[u].node
        /\ Alive(p) \cap ToSet(m_freePool[p]) = {}
        /\ Len(m_freePool[p]) + Cardinality(Alive(p)) + Cardinality(Hands(p)) = mPools[p] * blockNodeNum

\* m_nrefcount is the number of objects, apart from those a thread is making or deleting; the size
\* of all pools may lose an addition to another pool's thread, and is never too large.
CountsTrue ==
    /\ \A p \in Allocators : m_nrefcount[p] = Cardinality(Alive(p)) + Cardinality(Making(p))
    /\ gLookasideAllocSize <= Cardinality(AllBlocks)

\* What the allocators owe the threads that use them at once, in these two parts.
AsideKept == NodesApart /\ CountsTrue
=============================================================================
