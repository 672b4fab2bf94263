---------------------------- MODULE BoundedLists ----------------------------
(***************************************************************************)
(* What two CLoopLists promise their users (SqlConnPool: the ring it fills *)
(* and the ring it merges that one into): each is a sequence of at most    *)
(* its capacity, filled at the end and emptied at the front; merge moves   *)
(* what fits and leaves the rest; an element that was popped stays as it   *)
(* is until its user asks for the next one.                                *)
(***************************************************************************)
EXTENDS Integers, Sequences

CONSTANTS Items, FirstCapacity, SecondCapacity

VARIABLES first, second, held

AbsInit == first = <<>> /\ second = <<>> /\ held = {}

Push(x) ==
    /\ first' = IF Len(first) < FirstCapacity THEN Append(first, x) ELSE first
    /\ UNCHANGED <<second, held>>

Merge ==
    LET room == SecondCapacity - Len(second)
        n == IF Len(first) < room THEN Len(first) ELSE room IN
    /\ second' = second \o SubSeq(first, 1, n)
    /\ first' = SubSeq(first, n + 1, Len(first))
    /\ UNCHANGED held

Pop ==
    /\ second # <<>>
    /\ held' = {Head(second)} /\ second' = Tail(second)
    /\ UNCHANGED first

Release == held' = {} /\ UNCHANGED <<first, second>>

AbsNext == (\E x \in Items : Push(x)) \/ Merge \/ Pop \/ Release

AbsSpec == AbsInit /\ [][AbsNext]_<<first, second, held>>
=============================================================================
