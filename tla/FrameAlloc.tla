----------------------------- MODULE FrameAlloc -----------------------------
(***************************************************************************)
(* mallocState: a frame of memory of one thread whose blocks are released  *)
(* all at once, by setting the mark back, with the system's malloc for     *)
(* what does not fit.  SetFrameAllocator opens a scope on it and releases  *)
(* the scope's blocks at its end; KeepFrameAllocator keeps one block, the  *)
(* last it was asked for.  Both are objects of a C++ scope, so scopes are  *)
(* nested; a keeper is used in the scope it was made in.                   *)
(***************************************************************************)
EXTENDS Integers, Sequences, FiniteSets, SequencesExt

CONSTANTS
    m_nMaxSize, \* size of the frame
    Amounts,    \* sizes asked for
    MaxScopes,  \* bound: open scopes
    MaxSys      \* bound: blocks of the system's malloc

ASSUME FrameConstants == m_nMaxSize \in Nat \ {0} /\ Amounts \subseteq Nat \ {0}

VARIABLES
    m_cur,      \* offset of the first free byte
    m_nMaxFrameAllocation,
    scopes,     \* open scopes: m_dwWaterMark, m_vps, the blocks given out, and its keeper's
    sys,        \* blocks of the system's malloc not freed
    freedTwice  \* a block was freed that was not allocated

frameVars == <<m_cur, m_nMaxFrameAllocation, scopes, sys, freedTwice>>

Scope(mark) == [m_dwWaterMark |-> mark, m_vps |-> {}, blocks |-> {}, mPtr |-> {}]

InitFrame ==
    /\ m_cur = 0 /\ m_nMaxFrameAllocation = 0 /\ scopes = <<Scope(0)>> /\ sys = {}
    /\ freedTwice = FALSE

\* Mutant: the end of the frame is looked at before the block is added.
FitsFrame_late(size) == m_cur < m_nMaxSize

FitsFrame(size) == m_cur + size < m_nMaxSize

\* mallocState::alloc: a block of the frame, or of the system, whose blocks in use are kept.  A
\* block is its first and its last byte; one of the system is a number beyond the frame.
Alloc(size, block, kept) ==
    IF FitsFrame(size)
    THEN /\ block = <<m_cur, m_cur + size - 1>>
         /\ m_cur' = m_cur + size
         /\ m_nMaxFrameAllocation' = IF m_cur + size > m_nMaxFrameAllocation
                                     THEN m_cur + size ELSE m_nMaxFrameAllocation
         /\ sys' = kept
    ELSE /\ \E i \in 1..MaxSys : block = <<m_nMaxSize + i, m_nMaxSize + i>> /\ block \notin kept
         /\ sys' = kept \cup {block}
         /\ UNCHANGED <<m_cur, m_nMaxFrameAllocation>>

Candidates(size) ==
    {<<m_cur, m_cur + size - 1>>} \cup {<<m_nMaxSize + i, m_nMaxSize + i>> : i \in 1..MaxSys}

issysmalloc(block) == block[1] >= m_nMaxSize

Top == scopes[Len(scopes)]

\* mallocState::_free of some blocks: those of the frame are left alone.
Freed(blocks, from) == from \ {x \in blocks : issysmalloc(x)}
Wrong(blocks, from) == \E x \in blocks : issysmalloc(x) /\ x \notin from

\* SetFrameAllocator::alloc.
ScopeAlloc(size) ==
    \E block \in Candidates(size) :
        /\ Alloc(size, block, sys)
        /\ scopes' = [scopes EXCEPT ![Len(scopes)].blocks = @ \cup {block},
                        ![Len(scopes)].m_vps = IF issysmalloc(block) THEN @ \cup {block} ELSE @]
        /\ UNCHANGED freedTwice

\* KeepFrameAllocator::alloc: the block it held is given back first.
KeepAlloc(size) ==
    \E block \in Candidates(size) :
        /\ Alloc(size, block, Freed(Top.mPtr, sys))
        /\ freedTwice' = (freedTwice \/ Wrong(Top.mPtr, sys))
        /\ scopes' = [scopes EXCEPT ![Len(scopes)].mPtr = {block}]

\* KeepFrameAllocator::_free.
KeepFree ==
    /\ Top.mPtr # {}
    /\ sys' = Freed(Top.mPtr, sys)
    /\ freedTwice' = (freedTwice \/ Wrong(Top.mPtr, sys))
    /\ scopes' = [scopes EXCEPT ![Len(scopes)].mPtr = {}]
    /\ UNCHANGED <<m_cur, m_nMaxFrameAllocation>>

Enter ==
    /\ Len(scopes) < MaxScopes
    /\ scopes' = Append(scopes, Scope(m_cur))
    /\ UNCHANGED <<m_cur, m_nMaxFrameAllocation, sys, freedTwice>>

\* Mutant: the blocks of the system are forgotten.
Leave_forget ==
    /\ Len(scopes) > 1
    /\ m_cur' = Top.m_dwWaterMark
    /\ sys' = Freed(Top.mPtr, sys)
    /\ freedTwice' = (freedTwice \/ Wrong(Top.mPtr, sys))
    /\ scopes' = Front(scopes)
    /\ UNCHANGED m_nMaxFrameAllocation

\* Mutant: the mark goes back to the start of the frame.
Leave_reset ==
    /\ Len(scopes) > 1
    /\ m_cur' = 0
    /\ sys' = Freed(Top.m_vps \cup Top.mPtr, sys)
    /\ freedTwice' = (freedTwice \/ Wrong(Top.m_vps \cup Top.mPtr, sys))
    /\ scopes' = Front(scopes)
    /\ UNCHANGED m_nMaxFrameAllocation

\* The end of a scope: setCurSize, and the blocks of the system.
Leave ==
    /\ Len(scopes) > 1
    /\ m_cur' = IF Top.m_dwWaterMark < m_nMaxSize THEN Top.m_dwWaterMark ELSE m_cur
    /\ sys' = Freed(Top.m_vps \cup Top.mPtr, sys)
    /\ freedTwice' = (freedTwice \/ Wrong(Top.m_vps \cup Top.mPtr, sys))
    /\ scopes' = Front(scopes)
    /\ UNCHANGED m_nMaxFrameAllocation

NextFrame ==
    \/ \E size \in Amounts : ScopeAlloc(size) \/ KeepAlloc(size)
    \/ KeepFree \/ Enter \/ Leave

SpecFrame == InitFrame /\ [][NextFrame]_frameVars

-----------------------------------------------------------------------------

Held(i) == scopes[i].blocks \cup scopes[i].mPtr
Blocks == UNION {Held(i) : i \in 1..Len(scopes)}

Overlap(x, y) == x[1] <= y[2] /\ y[1] <= x[2]

\* Blocks in use never overlap and stay inside the frame, when scopes open and close around them
\* (mallocState::alloc, ~SetFrameAllocator).
BlocksDisjoint ==
    /\ \A x, y \in Blocks : x # y => ~Overlap(x, y)
    /\ \A i, j \in 1..Len(scopes) : i # j => Held(i) \cap Held(j) = {}
    /\ \A x \in Blocks : issysmalloc(x) \/ x[2] < m_cur

\* Every block of the system's malloc is freed, once, at the end of its scope at the latest.
SystemBlocksFreed == sys = {x \in Blocks : issysmalloc(x)} /\ ~freedTwice

\* The frame never grows past its end, and the high mark getUseMaxSize reports is one.
FrameBounds == m_cur <= m_nMaxFrameAllocation /\ m_nMaxFrameAllocation <= m_nMaxSize

\* Blocks never overlap nor leave the frame, and those of the system are freed with their scope.
FrameKept == BlocksDisjoint /\ SystemBlocksFreed /\ FrameBounds
=============================================================================
