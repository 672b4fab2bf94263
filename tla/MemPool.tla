------------------------------- MODULE MemPool -------------------------------
(***************************************************************************)
(* CSimpleAllocator over safe_lookaside_allocator: blocks of a few sizes   *)
(* come from pools whose free nodes form a list; the byte in front of a    *)
(* block says which pool it came from, and deallocate finds the pool by    *)
(* it.  Each pool has a lock, which an operation holds from first to last. *)
(***************************************************************************)
EXTENDS Integers, Sequences, FiniteSets, SequencesExt

CONSTANTS
    Requests,       \* the sizes asked for
    NodesPerBlock,  \* nodes added to a pool at a time
    MaxPools,       \* bound: stPools added to a pool
    MaxUsers        \* bound: blocks in use

ASSUME PoolConstants == Requests \subseteq Nat /\ NodesPerBlock \in Nat \ {0}

\* The pools of CSimpleAllocator: the largest block of each, and the tag its blocks carry.
Pools == 1..6
NodeSize == <<256, 512, 1024, 1536, 2048, 2560>>
PoolTag(p) == 128 + p
HeapTag == 255
SmallMax == 128

VARIABLES
    freeLists,  \* free nodes of each pool, first to last
    stPools,    \* number of stPools each pool has
    used        \* blocks in use: where they are, their tag, the size asked for

poolVars == <<freeLists, stPools, used>>

InitPool == freeLists = [p \in Pools |-> <<>>] /\ stPools = [p \in Pools |-> 0] /\ used = {}

\* The size of a block with its tag: ROUNDNUM2(n + 1, 4).
nbufsize(n) == ((n + 1 + 3) \div 4) * 4

\* Mutant: the tag's byte is not counted.
PoolOf_short(n) == IF \E p \in Pools : n <= NodeSize[p]
                   THEN CHOOSE p \in Pools : n <= NodeSize[p] /\ \A q \in 1..p - 1 : n > NodeSize[q]
                   ELSE 0

\* The pool a request goes to: the smallest nodes that hold it (0: none does).
PoolOf(n) ==
    IF \E p \in Pools : nbufsize(n) <= NodeSize[p]
    THEN CHOOSE p \in Pools :
            nbufsize(n) <= NodeSize[p] /\ \A q \in 1..p - 1 : nbufsize(n) > NodeSize[q]
    ELSE 0

\* The nodes of the k-th stPool of pool p, in the order of its list.
Nodes(p, k) == [i \in 1..NodesPerBlock |-> <<p, k, i>>]

\* Mutant: a block is added while there are free nodes.
FreeList_anew(p) == Nodes(p, stPools[p] + 1)

\* The free nodes from which one is taken: addPoolBlock if there are none.
FreeList(p) == IF freeLists[p] = <<>> THEN Nodes(p, stPools[p] + 1) ELSE freeLists[p]

\* Small and large blocks are the heap's; heap blocks have places of their own.
FromHeap(n, tag) ==
    /\ \E i \in 1..MaxUsers :
         /\ \A u \in used : u.at # <<0, 0, i>>
         /\ used' = used \cup {[at |-> <<0, 0, i>>, tag |-> tag, asked |-> n, size |-> nbufsize(n)]}
    /\ UNCHANGED <<freeLists, stPools>>

FromPool(n, p) ==
    LET nodes == FreeList(p)
        blocks == IF nodes = freeLists[p] THEN stPools[p] ELSE stPools[p] + 1 IN
    /\ blocks <= MaxPools
    /\ freeLists' = [freeLists EXCEPT ![p] = Tail(nodes)]
    /\ stPools' = [stPools EXCEPT ![p] = blocks]
    /\ used' = used \cup {[at |-> Head(nodes), tag |-> PoolTag(p), asked |-> n, size |-> NodeSize[p]]}

\* CSimpleAllocator::allocate.
allocate(n) ==
    /\ Cardinality(used) < MaxUsers
    /\ IF nbufsize(n) <= SmallMax THEN FromHeap(n, nbufsize(n))
       ELSE IF PoolOf(n) > 0 THEN FromPool(n, PoolOf(n))
       ELSE FromHeap(n, HeapTag)

\* Mutant: the block joins the list of the first pool.
deallocate_first(u) ==
    /\ used' = used \ {u}
    /\ IF \E p \in Pools : u.tag = PoolTag(p)
       THEN freeLists' = [freeLists EXCEPT ![1] = <<u.at>> \o @]
       ELSE UNCHANGED freeLists
    /\ UNCHANGED stPools

\* CSimpleAllocator::deallocate: the tag says where the block goes.
deallocate(u) ==
    /\ used' = used \ {u}
    /\ IF \E p \in Pools : u.tag = PoolTag(p)
       THEN freeLists' = [freeLists EXCEPT ![u.tag - 128] = <<u.at>> \o @]
       ELSE UNCHANGED freeLists
    /\ UNCHANGED stPools

NextPool == (\E n \in Requests : allocate(n)) \/ \E u \in used : deallocate(u)

SpecPool == InitPool /\ [][NextPool]_poolVars

-----------------------------------------------------------------------------

\* Every node of a pool is free or in use, once, whatever is allocated and released in whatever
\* order by whatever thread: none is handed out twice, none is lost (allocate, addPoolBlock,
\* deallocate).
NodesKept ==
    \A p \in Pools :
        LET taken == {u.at : u \in {v \in used : v.at[1] = p}} IN
        /\ IsInjective(freeLists[p])
        /\ ToSet(freeLists[p]) \cap taken = {}
        /\ ToSet(freeLists[p]) \cup taken = {p} \X (1..stPools[p]) \X (1..NodesPerBlock)
        /\ Cardinality({u \in used : u.at[1] = p}) = Cardinality(taken)

\* A block holds what was asked for after its tag, at the borders of the sizes too, and the tag
\* sends it back where it came from (allocate, deallocate).
BlocksHold ==
    \A u \in used :
        /\ u.asked + 1 <= u.size
        /\ u.tag \in 0..255
        /\ IF u.at[1] = 0 THEN \A p \in Pools : u.tag # PoolTag(p) ELSE u.tag = PoolTag(u.at[1])

\* No node is handed out twice or lost, and every block holds what was asked for.
PoolsKept == NodesKept /\ BlocksHold
=============================================================================
